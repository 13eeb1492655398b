---------------------------- MODULE Workspace_proofs ----------------------------
(***************************************************************************)
(* Whatever is asked of the agent's files at the same time, what a write   *)
(* puts at a path is there whole, and a request of the console reaches the *)
(* agent once: for every tree, every number of requests and all paths that *)
(* name no temporary file.                                                 *)
(*                                                                         *)
(* The first argument is about the tree (Rooted): only a directory has     *)
(* anything below it, and a file that is not yet whole has the name of the *)
(* temporary file of the request that writes it (Fits).  It cannot get     *)
(* another: requests name no temporary file (Plain), moving a directory    *)
(* leaves the names below it as they are, a copy is a file of its own, and *)
(* the request moves its file only when it has written it (ContentOK).     *)
(* The second follows the console's two calls (Once).                      *)
(***************************************************************************)
EXTENDS Workspace, SequenceTheorems, FiniteSetTheorems, TLAPS

\* What is written and not yet whole.
Half(e) == e.by = "write" /\ ~e.whole

\* What may stand at a path: only files have the names of temporary files, and
\* a file that is not yet whole has only its own.
Fits(c, p, v) ==
  /\ v \in 0..Len(c)
  /\ p = <<>> => v = Dir
  /\ p # <<>> /\ Last(p) \in Range(TempName) => v # Dir
  /\ v # Dir => (Half(c[v]) => Last(p) = TempName[c[v].data])

\* A tree: what is above a path is a directory.
Rooted(t, c) ==
  /\ IsFiniteSet(DOMAIN t) /\ DOMAIN t \subseteq Seq(STRING)
  /\ \A p \in DOMAIN t : \A n \in 0..Len(p) - 1 : SubSeq(p, 1, n) \in DOMAIN t /\ t[SubSeq(p, 1, n)] = Dir
  /\ \A p \in DOMAIN t : Fits(c, p, t[p])

TreeOK == Rooted(tree, content)

Entry == [data : Requests \cup {Old, NoData}, whole : BOOLEAN, by : {"write", "copy"}]

\* A file that is not yet whole is the one that its request has open, or was
\* left by a request that failed.
ContentOK ==
  /\ content \in Seq(Entry)
  /\ \A i \in 1..Len(content) : Half(content[i]) =>
       /\ content[i].data \in Requests
       /\ pc[content[i].data] \in {"fill", "answered"}
       /\ pc[content[i].data] = "fill" => Task(content[i].data).to = i

Plain(p) == p \in Seq(STRING) /\ \A i \in 1..Len(p) : p[i] \notin Range(TempName)

OpOK(o) == Plain(o.path) /\ (o.kind \in {"rename", "copy"} => Plain(o.to))

OpsOK ==
  \A r \in Requests :
    /\ pc[r] # "none" => OpOK(op[r])
    /\ pc[r] = "rename" => op[r].kind = "rename"

\* What is to be copied.
Tasks == {t \in [kind : {"dir", "file"}, from : Seq(STRING), to : Seq(STRING)] :
            t.kind = "dir" => t.to = <<>> \/ Last(t.to) \notin Range(TempName)}

\* The files that a copy reads and fills.
Filling(t) == t.from \in 1..Len(content) /\ t.to \in 1..Len(content)

WorkOK ==
  \A r \in Requests :
    /\ pc[r] \in {"copy", "entries"} => work[r] \in Seq(Tasks) /\ work[r] # <<>>
    /\ pc[r] = "data" => Filling(Task(r)) /\ Tail(work[r]) \in Seq(Tasks)
    /\ pc[r] = "fill" => Task(r).to \in 1..Len(content)

AnswersOK ==
  \A r \in Requests :
    /\ "entries" \in DOMAIN answer[r] => \A q \in answer[r].entries : ~Hidden(q)
    /\ pc[r] = "prefetch" => "entries" \in DOMAIN answer[r]

Domains == DOMAIN pc = Requests /\ DOMAIN op = Requests /\ DOMAIN work = Requests /\ DOMAIN answer = Requests

\* The agent's part of the inductive invariant.
FInv == Domains /\ TreeOK /\ ContentOK /\ OpsOK /\ WorkOK /\ AnswersOK

\* The console's: a first call was not made until the request waits for it, and
\* a second one is made only if it may.
Once(u) ==
  /\ DOMAIN console[u] = {"pc", "attempt", "op", "code"}
  /\ console[u].attempt \in {1, 2}
  /\ console[u].pc = "new" => console[u].attempt = 1
  /\ console[u].pc \in {"new", "call"} /\ console[u].attempt = 1 => pc[<<u, 1>>] = "none"
  /\ console[u].attempt = 2 \/ console[u].pc = "restore" =>
       pc[<<u, 1>>] = "none" \/ op[<<u, 1>>].kind = "shellMkdir"
  /\ pc[<<u, 2>>] # "none" => console[u].attempt = 2
  /\ console[u].pc \in {"call", "wait", "restore"} => OpOK(console[u].op)

KInv == DOMAIN console = Users /\ \A u \in Users : Once(u)

-----------------------------------------------------------------------------
(* Paths *)

\* The first names of a path.
LEMMA FirstNames ==
  ASSUME NEW S, NEW s \in Seq(S), NEW n \in 0..Len(s)
  PROVE  /\ SubSeq(s, 1, n) \in Seq(S) /\ Len(SubSeq(s, 1, n)) = n
         /\ \A i \in 1..n : SubSeq(s, 1, n)[i] = s[i]
<1>1. Len(s) \in Nat BY LenProperties
<1>2. \A i \in 1..n : s[i] \in S BY <1>1, ElementOfSeq
<1> QED BY <1>1, <1>2, SubSeqProperties

\* The last ones.
LEMMA LastNames ==
  ASSUME NEW S, NEW s \in Seq(S), NEW n \in 0..Len(s)
  PROVE  /\ SubSeq(s, n + 1, Len(s)) \in Seq(S) /\ Len(SubSeq(s, n + 1, Len(s))) = Len(s) - n
         /\ \A i \in 1..Len(s) - n : SubSeq(s, n + 1, Len(s))[i] = s[n + i]
<1>1. Len(s) \in Nat BY LenProperties
<1>2. \A i \in n + 1..Len(s) : s[i] \in S BY <1>1, ElementOfSeq
<1>3. /\ SubSeq(s, n + 1, Len(s)) \in Seq(S)
      /\ Len(SubSeq(s, n + 1, Len(s))) = IF n + 1 <= Len(s) THEN Len(s) - (n + 1) + 1 ELSE 0
      /\ \A i \in 1..Len(s) - (n + 1) + 1 : SubSeq(s, n + 1, Len(s))[i] = s[n + 1 + i - 1]
  BY <1>1, <1>2, SubSeqProperties
<1> QED BY <1>1, <1>3

\* A prefix is what the first names of a path are.
LEMMA PrefixIsFirst ==
  ASSUME NEW S, NEW s \in Seq(S), NEW t \in Seq(S)
  PROVE  IsPrefix(s, t) <=> Len(s) <= Len(t) /\ SubSeq(t, 1, Len(s)) = s
BY SubSeqFull DEF IsPrefix

\* It is one of another name by name.
LEMMA PrefixByNames ==
  ASSUME NEW S, NEW s \in Seq(S), NEW t \in Seq(S), Len(s) <= Len(t)
  PROVE  IsPrefix(s, t) <=> \A i \in 1..Len(s) : s[i] = t[i]
<1>1. Len(s) \in Nat /\ Len(t) \in Nat BY LenProperties
<1>2. /\ SubSeq(t, 1, Len(s)) \in Seq(S) /\ Len(SubSeq(t, 1, Len(s))) = Len(s)
      /\ \A i \in 1..Len(s) : SubSeq(t, 1, Len(s))[i] = t[i]
  BY <1>1, FirstNames
<1>3. (\A i \in 1..Len(s) : s[i] = t[i]) => SubSeq(t, 1, Len(s)) = s BY <1>1, <1>2, SeqEqual
<1> QED BY <1>2, <1>3, PrefixIsFirst

\* The first names of the first names.
LEMMA FirstOfFirst ==
  ASSUME NEW S, NEW s \in Seq(S), NEW n \in 0..Len(s), NEW m \in 0..n
  PROVE  SubSeq(SubSeq(s, 1, n), 1, m) = SubSeq(s, 1, m)
<1>1. Len(s) \in Nat /\ m \in 0..Len(s) BY LenProperties
<1>2. SubSeq(s, 1, n) \in Seq(S) /\ Len(SubSeq(s, 1, n)) = n /\ \A i \in 1..n : SubSeq(s, 1, n)[i] = s[i]
  BY FirstNames
<1>3. /\ SubSeq(SubSeq(s, 1, n), 1, m) \in Seq(S) /\ Len(SubSeq(SubSeq(s, 1, n), 1, m)) = m
      /\ \A i \in 1..m : SubSeq(SubSeq(s, 1, n), 1, m)[i] = SubSeq(s, 1, n)[i]
  BY <1>2, FirstNames
<1>4. SubSeq(s, 1, m) \in Seq(S) /\ Len(SubSeq(s, 1, m)) = m /\ \A i \in 1..m : SubSeq(s, 1, m)[i] = s[i]
  BY <1>1, FirstNames
<1>5. \A i \in 1..m : SubSeq(SubSeq(s, 1, n), 1, m)[i] = SubSeq(s, 1, m)[i] BY <1>2, <1>3, <1>4
<1> QED BY <1>3, <1>4, <1>5, SeqEqual

\* The parent of a path is its first names but one.
LEMMA ParentOf ==
  ASSUME NEW S, NEW s \in Seq(S), s # <<>>
  PROVE  /\ Len(s) \in Nat \ {0}
         /\ Parent(s) \in Seq(S) /\ Parent(s) = SubSeq(s, 1, Len(s) - 1) /\ Len(Parent(s)) = Len(s) - 1
         /\ \A n \in 0..Len(s) - 1 : SubSeq(Parent(s), 1, n) = SubSeq(s, 1, n)
<1>1. Len(s) \in Nat \ {0} BY EmptySeq
<1>2. Len(s) - 1 \in 0..Len(s) BY <1>1
<1>3. Parent(s) = SubSeq(s, 1, Len(s) - 1) BY DEF Parent, Front
<1>4. Parent(s) \in Seq(S) /\ Len(Parent(s)) = Len(s) - 1 BY <1>2, <1>3, FirstNames
<1>5. \A n \in 0..Len(s) - 1 : SubSeq(Parent(s), 1, n) = SubSeq(s, 1, n) BY <1>2, <1>3, FirstOfFirst
<1> QED BY <1>1, <1>3, <1>4, <1>5

\* A path one name longer.
LEMMA OneLonger ==
  ASSUME NEW S, NEW s \in Seq(S), NEW e \in S
  PROVE  /\ Append(s, e) \in Seq(S) /\ Append(s, e) # <<>>
         /\ Parent(Append(s, e)) = s /\ Last(Append(s, e)) = e
<1>1. /\ Append(s, e) \in Seq(S) /\ Append(s, e) # <<>> /\ Len(Append(s, e)) = Len(s) + 1
      /\ \A i \in 1..Len(s) : Append(s, e)[i] = s[i] /\ Append(s, e)[Len(s) + 1] = e
  BY AppendProperties
<1>2. Len(s) \in Nat BY LenProperties
<1>3. Append(s, e)[Len(s) + 1] = e BY AppendProperties
<1> DEFINE a == Append(s, e)
<1>7. Len(a) - 1 = Len(s) /\ a \in Seq(S) /\ a # <<>> BY <1>1, <1>2
<1> HIDE DEF a
<1>8. Parent(a) \in Seq(S) /\ Len(Parent(a)) = Len(a) - 1 /\ Parent(a) = SubSeq(a, 1, Len(a) - 1)
  BY <1>7, ParentOf
<1>4. /\ Parent(Append(s, e)) \in Seq(S) /\ Len(Parent(Append(s, e))) = Len(s)
      /\ Parent(Append(s, e)) = SubSeq(Append(s, e), 1, Len(s))
  BY <1>7, <1>8 DEF a
<1>5. \A i \in 1..Len(s) : Parent(Append(s, e))[i] = s[i] BY <1>1, <1>2, <1>4, FirstNames
<1>6. Parent(Append(s, e)) = s BY <1>4, <1>5, SeqEqual
<1> QED BY <1>1, <1>3, <1>6 DEF Last

\* A path y below p, and the path x at the same place below q.
SamePlace(p, y, q, x) ==
  /\ IsPrefix(q, x) /\ p \o SubSeq(x, Len(q) + 1, Len(x)) = y
  /\ Len(p) \in Nat /\ Len(q) \in Nat /\ Len(y) \in Nat /\ Len(p) <= Len(y)
  /\ Len(x) = Len(q) + Len(y) - Len(p)
  /\ y = p => x = q
  /\ y # p => x # <<>> /\ y # <<>> /\ Last(x) = Last(y) /\ Len(p) < Len(y)
  /\ \A n \in 0..Len(q) : SubSeq(x, 1, n) = SubSeq(q, 1, n)
  /\ \A m \in Len(p)..Len(y) :
       /\ IsPrefix(p, SubSeq(y, 1, m))
       /\ SubSeq(x, 1, Len(q) + m - Len(p)) = q \o SubSeq(SubSeq(y, 1, m), Len(p) + 1, m)

\* Moving what is below p to below q keeps its place.
LEMMA Regrafted ==
  ASSUME NEW S, NEW p \in Seq(S), NEW q \in Seq(S), NEW y \in Seq(S), NEW x, IsPrefix(p, y),
         x = q \o SubSeq(y, Len(p) + 1, Len(y))
  PROVE  x \in Seq(S) /\ SamePlace(p, y, q, x)
<1> DEFINE tail == SubSeq(y, Len(p) + 1, Len(y))
<1>1. Len(p) \in Nat /\ Len(q) \in Nat /\ Len(y) \in Nat /\ Len(p) <= Len(y) /\ Len(p) \in 0..Len(y)
  BY LenProperties, PrefixIsFirst
<1>2. /\ tail \in Seq(S) /\ Len(tail) = Len(y) - Len(p) /\ \A i \in 1..Len(y) - Len(p) : tail[i] = y[Len(p) + i]
  BY <1>1, LastNames
<1> HIDE DEF tail
<1>3. x = q \o tail BY DEF tail
<1>4. /\ x \in Seq(S) /\ Len(x) = Len(q) + Len(y) - Len(p)
      /\ \A i \in 1..Len(x) : x[i] = IF i <= Len(q) THEN q[i] ELSE tail[i - Len(q)]
  <2>1. /\ q \o tail \in Seq(S) /\ Len(q \o tail) = Len(q) + Len(tail)
        /\ \A i \in 1..Len(q) + Len(tail) : (q \o tail)[i] = IF i <= Len(q) THEN q[i] ELSE tail[i - Len(q)]
    BY <1>2, ConcatProperties
  <2> QED BY <1>1, <1>2, <1>3, <2>1
<1>5. Len(x) \in Nat /\ Len(q) <= Len(x) BY <1>1, <1>4
<1>6. \A i \in 1..Len(q) : x[i] = q[i] BY <1>1, <1>4, <1>5
<1>7. \A i \in Len(q) + 1..Len(x) : x[i] = y[Len(p) + (i - Len(q))]
  <2> TAKE i \in Len(q) + 1..Len(x)
  <2>1. i \in 1..Len(x) /\ ~(i <= Len(q)) /\ i - Len(q) \in 1..Len(y) - Len(p) BY <1>1, <1>4, <1>5
  <2>2. PICK k \in 1..Len(y) - Len(p) : k = i - Len(q) BY <2>1
  <2>3. x[i] = tail[k] BY <1>4, <2>1, <2>2
  <2>4. tail[k] = y[Len(p) + k] BY <1>2
  <2> QED BY <2>2, <2>3, <2>4
<1>8. IsPrefix(q, x) BY <1>4, <1>5, <1>6, PrefixByNames
<1>9. \A i \in 1..Len(p) : p[i] = y[i] BY <1>1, PrefixByNames
<1>10. p \o SubSeq(x, Len(q) + 1, Len(x)) = y
  <2> DEFINE back == SubSeq(x, Len(q) + 1, Len(x))
  <2>1. back \in Seq(S) /\ Len(back) = Len(x) - Len(q) /\ \A i \in 1..Len(x) - Len(q) : back[i] = x[Len(q) + i]
    <3>1. Len(q) \in 0..Len(x) BY <1>1, <1>5
    <3> QED BY <1>4, <3>1, LastNames
  <2>2. /\ p \o back \in Seq(S) /\ Len(p \o back) = Len(p) + Len(back)
        /\ \A i \in 1..Len(p) + Len(back) : (p \o back)[i] = IF i <= Len(p) THEN p[i] ELSE back[i - Len(p)]
    <3> HIDE DEF back
    <3> QED BY <2>1, ConcatProperties
  <2> HIDE DEF back
  <2>3. Len(p \o back) = Len(y) BY <1>1, <1>4, <2>1, <2>2
  <2>4. \A i \in 1..Len(y) : (p \o back)[i] = y[i]
    <3> TAKE i \in 1..Len(y)
    <3>1. CASE i <= Len(p) BY <1>1, <1>9, <2>1, <2>2, <2>3, <3>1
    <3>2. CASE i > Len(p)
      <4>1. (p \o back)[i] = back[i - Len(p)] /\ i - Len(p) \in 1..Len(x) - Len(q)
        BY <1>1, <1>4, <2>1, <2>2, <2>3, <3>2
      <4>2. back[i - Len(p)] = x[Len(q) + (i - Len(p))] BY <2>1, <4>1
      <4>3. Len(q) + (i - Len(p)) \in Len(q) + 1..Len(x) BY <1>1, <1>4, <3>2
      <4>4. PICK j \in Len(q) + 1..Len(x) : j = Len(q) + (i - Len(p)) BY <4>3
      <4>5. x[j] = y[Len(p) + (j - Len(q))] BY <1>7
      <4>6. Len(p) + (j - Len(q)) = i BY <1>1, <4>4
      <4>7. y[Len(p) + (j - Len(q))] = y[i] BY <4>6
      <4>8. x[Len(q) + (i - Len(p))] = x[j] BY <4>4
      <4> QED BY <4>1, <4>2, <4>5, <4>7, <4>8, Zenon
    <3>3. i <= Len(p) \/ i > Len(p) BY <1>1
    <3> QED BY <3>1, <3>2, <3>3, Zenon
  <2>5. p \o back = y BY <2>2, <2>3, <2>4, SeqEqual
  <2> QED BY <2>5 DEF back
<1>11. y = p => x = q
  <2> HAVE y = p
  <2>1. Len(x) = Len(q) BY <1>1, <1>4
  <2> QED BY <1>4, <1>6, <2>1, SeqEqual
<1>12. y # p => x # <<>> /\ y # <<>> /\ Last(x) = Last(y) /\ Len(p) < Len(y)
  <2> HAVE y # p
  <2>1. Len(p) # Len(y) BY <1>9, SeqEqual
  <2>2. Len(p) < Len(y) BY <1>1, <2>1
  <2>7. Len(x) = Len(q) + Len(y) - Len(p) BY <1>4
  <2>8. Len(x) > Len(q) /\ Len(y) > 0 BY <1>1, <1>5, <2>2, <2>7
  <2>3. Len(x) > 0 /\ Len(y) > 0 /\ Len(x) \in Len(q) + 1..Len(x) BY <1>1, <1>5, <2>8
  <2>9. x[Len(x)] = y[Len(p) + (Len(x) - Len(q))] BY <1>7, <2>3
  <2>10. Len(p) + (Len(x) - Len(q)) = Len(y) BY <1>1, <1>4
  <2>4. x[Len(x)] = y[Len(y)] BY <2>9, <2>10
  <2>5. Last(x) = Last(y) BY <2>4 DEF Last
  <2>6. x # <<>> /\ y # <<>> BY <2>3, EmptySeq
  <2> QED BY <2>2, <2>5, <2>6
<1>13. \A n \in 0..Len(q) : SubSeq(x, 1, n) = SubSeq(q, 1, n)
  <2> TAKE n \in 0..Len(q)
  <2>1. n \in 0..Len(x) BY <1>1, <1>5
  <2>2. SubSeq(x, 1, n) \in Seq(S) /\ Len(SubSeq(x, 1, n)) = n /\ \A i \in 1..n : SubSeq(x, 1, n)[i] = x[i]
    BY <1>4, <2>1, FirstNames
  <2>3. SubSeq(q, 1, n) \in Seq(S) /\ Len(SubSeq(q, 1, n)) = n /\ \A i \in 1..n : SubSeq(q, 1, n)[i] = q[i]
    BY FirstNames
  <2>4. \A i \in 1..n : SubSeq(x, 1, n)[i] = SubSeq(q, 1, n)[i] BY <1>1, <1>6, <2>2, <2>3
  <2> QED BY <2>2, <2>3, <2>4, SeqEqual
<1>14. \A m \in Len(p)..Len(y) :
         /\ IsPrefix(p, SubSeq(y, 1, m))
         /\ SubSeq(x, 1, Len(q) + m - Len(p)) = q \o SubSeq(SubSeq(y, 1, m), Len(p) + 1, m)
  <2> TAKE m \in Len(p)..Len(y)
  <2> DEFINE z == SubSeq(y, 1, m)
             w == SubSeq(z, Len(p) + 1, m)
             k == Len(q) + m - Len(p)
  <2>1. m \in 0..Len(y) /\ Len(p) \in 0..m /\ k \in 0..Len(x) BY <1>1, <1>4
  <2>2. z \in Seq(S) /\ Len(z) = m /\ \A i \in 1..m : z[i] = y[i] BY <2>1, FirstNames
  <2>3. w \in Seq(S) /\ Len(w) = m - Len(p) /\ \A i \in 1..m - Len(p) : w[i] = z[Len(p) + i]
    BY <2>1, <2>2, LastNames
  <2>4. /\ SubSeq(x, 1, k) \in Seq(S) /\ Len(SubSeq(x, 1, k)) = k
        /\ \A i \in 1..k : SubSeq(x, 1, k)[i] = x[i]
    BY <1>4, <2>1, FirstNames
  <2> HIDE DEF z, w
  <2>5. IsPrefix(p, z) BY <1>1, <1>9, <2>1, <2>2, PrefixByNames
  <2>6. /\ q \o w \in Seq(S) /\ Len(q \o w) = Len(q) + Len(w)
        /\ \A i \in 1..Len(q) + Len(w) : (q \o w)[i] = IF i <= Len(q) THEN q[i] ELSE w[i - Len(q)]
    BY <2>3, ConcatProperties
  <2>7. Len(q \o w) = k BY <1>1, <2>1, <2>3, <2>6
  <2>8. \A i \in 1..k : (q \o w)[i] = x[i]
    <3> TAKE i \in 1..k
    <3>1. CASE i <= Len(q) BY <1>1, <1>6, <2>1, <2>3, <2>6, <3>1
    <3>2. CASE i > Len(q)
      <4>1. i - Len(q) \in 1..m - Len(p) /\ (q \o w)[i] = w[i - Len(q)]
        BY <1>1, <2>1, <2>3, <2>6, <3>2
      <4>2. w[i - Len(q)] = z[Len(p) + (i - Len(q))] /\ Len(p) + (i - Len(q)) \in 1..m BY <1>1, <2>1, <2>3, <4>1
      <4>3. i \in Len(q) + 1..Len(x) BY <1>1, <1>5, <2>1, <3>2
      <4>4. x[i] = y[Len(p) + (i - Len(q))] BY <1>7, <4>3
      <4>5. z[Len(p) + (i - Len(q))] = y[Len(p) + (i - Len(q))] BY <2>2, <4>2
      <4> QED BY <4>1, <4>2, <4>4, <4>5, Zenon
    <3>3. i <= Len(q) \/ i > Len(q) BY <1>1, <2>1
    <3> QED BY <3>1, <3>2, <3>3, Zenon
  <2>9. SubSeq(x, 1, k) = q \o w BY <2>4, <2>6, <2>7, <2>8, SeqEqual
  <2> QED BY <2>5, <2>9 DEF z, w
<1> QED BY <1>1, <1>4, <1>8, <1>10, <1>11, <1>12, <1>13, <1>14 DEF SamePlace

-----------------------------------------------------------------------------
(* Trees *)

\* Files that are added or become whole leave a tree what it is.
LEMMA TreeKept ==
  ASSUME NEW t, NEW c \in Seq(Entry), NEW d \in Seq(Entry), Rooted(t, c), Len(c) <= Len(d),
         \A i \in 1..Len(c) : Half(d[i]) => Half(c[i]) /\ d[i].data = c[i].data
  PROVE  Rooted(t, d)
<1>1. Len(c) \in Nat /\ Len(d) \in Nat BY LenProperties
<1>2. ASSUME NEW p \in DOMAIN t PROVE Fits(d, p, t[p])
  <2>1. Fits(c, p, t[p]) BY DEF Rooted
  <2>2. t[p] \in 0..Len(c) BY <2>1 DEF Fits
  <2>3. t[p] \in 0..Len(d) BY <1>1, <2>2
  <2>4. t[p] # Dir => t[p] \in 1..Len(c) BY <1>1, <2>2 DEF Dir
  <2> QED BY <2>1, <2>3, <2>4 DEF Fits
<1> QED BY <1>2 DEF Rooted

\* What is above a path of a tree, and the path itself, has its parent there.
LEMMA ParentHeld ==
  ASSUME NEW t, NEW c, Rooted(t, c), NEW p \in DOMAIN t, p # <<>>
  PROVE  p \in Seq(STRING) /\ Parent(p) \in DOMAIN t /\ t[Parent(p)] = Dir
<1>1. p \in Seq(STRING) BY DEF Rooted
<1>2. Len(p) \in Nat \ {0} /\ Parent(p) = SubSeq(p, 1, Len(p) - 1) BY <1>1, ParentOf
<1>3. Len(p) - 1 \in 0..Len(p) - 1 BY <1>2
<1> QED BY <1>1, <1>2, <1>3 DEF Rooted

\* Something is put into a directory, in the place of a file or of nothing.
LEMMA TreeWith ==
  ASSUME NEW t, NEW c, Rooted(t, c), NEW p \in Seq(STRING), NEW v, Fits(c, p, v),
         p # <<>> => Parent(p) \in DOMAIN t /\ t[Parent(p)] = Dir,
         p \in DOMAIN t => t[p] # Dir \/ v = Dir
  PROVE  Rooted(With(t, p, v), c)
<1> DEFINE w == With(t, p, v)
<1>1. DOMAIN w = DOMAIN t \cup {p} /\ w[p] = v /\ \A x \in DOMAIN t : x # p => w[x] = t[x] BY DEF With
<1> HIDE DEF w
<1>2. IsFiniteSet(DOMAIN w) BY <1>1, FS_AddElement DEF Rooted
<1>3. DOMAIN w \subseteq Seq(STRING) BY <1>1 DEF Rooted
<1>4. ASSUME NEW x \in DOMAIN w PROVE Fits(c, x, w[x]) BY <1>1 DEF Rooted
<1>5. ASSUME NEW a \in DOMAIN t, t[a] = Dir PROVE a \in DOMAIN w /\ w[a] = Dir BY <1>1, <1>5
<1>6. ASSUME NEW x \in DOMAIN w, NEW n \in 0..Len(x) - 1
      PROVE  SubSeq(x, 1, n) \in DOMAIN w /\ w[SubSeq(x, 1, n)] = Dir
  <2>1. CASE x \in DOMAIN t
    <3>1. SubSeq(x, 1, n) \in DOMAIN t /\ t[SubSeq(x, 1, n)] = Dir BY <1>6, <2>1 DEF Rooted
    <3> QED BY <1>5, <3>1
  <2>2. CASE x = p /\ x # <<>>
    <3>1. /\ Len(p) \in Nat \ {0} /\ Parent(p) \in Seq(STRING) /\ Parent(p) = SubSeq(p, 1, Len(p) - 1)
          /\ Len(Parent(p)) = Len(p) - 1 /\ SubSeq(Parent(p), 1, n) = SubSeq(p, 1, n)
      BY <1>6, <2>2, ParentOf
    <3>2. CASE n = Len(p) - 1 BY <1>5, <2>2, <3>1, <3>2
    <3>3. CASE n # Len(p) - 1
      <4>1. n \in 0..Len(Parent(p)) - 1 BY <1>6, <2>2, <3>1, <3>3
      <4>2. SubSeq(Parent(p), 1, n) \in DOMAIN t /\ t[SubSeq(Parent(p), 1, n)] = Dir BY <2>2, <4>1 DEF Rooted
      <4> QED BY <1>5, <2>2, <3>1, <4>2
    <3> QED BY <3>2, <3>3
  <2>3. CASE x = <<>>
    <3>1. Len(x) = 0 BY <2>3, EmptySeq
    <3> QED BY <1>6, <3>1
  <2> QED BY <1>1, <2>1, <2>2, <2>3
<1> QED BY <1>2, <1>3, <1>4, <1>6 DEF Rooted, w

\* What holds nothing is removed.
LEMMA TreeRemoved ==
  ASSUME NEW c, Rooted(tree, c), NEW p
  PROVE  Rooted(Removed(p), c)
<1>1. CASE Children(p) # {} BY <1>1 DEF Removed
<1>2. CASE Children(p) = {}
  <2> DEFINE w == Removed(p)
  <2>1. DOMAIN w = DOMAIN tree \ {p} /\ \A x \in DOMAIN w : w[x] = tree[x]
    BY <1>2 DEF Removed, Without, Restrict
  <2> HIDE DEF w
  <2>2. IsFiniteSet(DOMAIN w)
    <3>1. IsFiniteSet(DOMAIN tree) /\ DOMAIN w \subseteq DOMAIN tree BY <2>1 DEF Rooted
    <3> QED BY <3>1, FS_Subset
  <2>3. DOMAIN w \subseteq Seq(STRING) BY <2>1 DEF Rooted
  <2>4. ASSUME NEW x \in DOMAIN w PROVE Fits(c, x, w[x]) BY <2>1 DEF Rooted
  <2>5. ASSUME NEW x \in DOMAIN w, NEW n \in 0..Len(x) - 1
        PROVE  SubSeq(x, 1, n) \in DOMAIN w /\ w[SubSeq(x, 1, n)] = Dir
    <3> DEFINE a == SubSeq(x, 1, n)
               b == SubSeq(x, 1, n + 1)
    <3>1. x \in DOMAIN tree /\ x \in Seq(STRING) BY <2>1 DEF Rooted
    <3>2. Len(x) \in Nat BY <3>1, LenProperties
    <3>3. a \in DOMAIN tree /\ tree[a] = Dir BY <2>5, <3>1 DEF Rooted
    <3>4. n + 1 \in 0..Len(x) /\ n \in 0..n + 1 BY <2>5, <3>2
    <3>5. b \in Seq(STRING) /\ Len(b) = n + 1 BY <3>1, <3>4, FirstNames
    <3>6. b # <<>> BY <2>5, <3>5, EmptySeq
    <3>7. SubSeq(b, 1, n) = a BY <3>1, <3>4, FirstOfFirst
    <3> HIDE DEF a
    <3>8. b \in DOMAIN tree
      <4>1. CASE n + 1 = Len(x) BY <3>1, <4>1, SubSeqFull
      <4>2. CASE n + 1 # Len(x)
        <5>1. n + 1 \in 0..Len(x) - 1 BY <2>5, <3>2, <4>2
        <5> QED BY <3>1, <5>1 DEF Rooted
      <4> QED BY <4>1, <4>2
    <3> HIDE DEF b
    <3>9. Parent(b) = a
      <4>1. Parent(b) = SubSeq(b, 1, Len(b) - 1) BY <3>5, <3>6, ParentOf
      <4>2. Len(b) - 1 = n BY <2>5, <3>5
      <4> QED BY <3>7, <4>1, <4>2
    <3>10. a # p BY <1>2, <3>6, <3>8, <3>9 DEF Children
    <3>11. a \in DOMAIN w /\ w[a] = Dir BY <2>1, <3>3, <3>10
    <3> QED BY <3>11 DEF a
  <2>6. Rooted(w, c) BY <2>2, <2>3, <2>4, <2>5 DEF Rooted
  <2> QED BY <2>6 DEF w
<1> QED BY <1>1, <1>2

\* The directories above a path are made where they are not.
LEMMA TreeParentsMade ==
  ASSUME NEW c, Rooted(tree, c), NEW p \in Seq(STRING), ~Blocked(p),
         \A a \in Above(p) : Fits(c, a, Dir)
  PROVE  /\ Rooted(ParentsMade(p), c)
         /\ p # <<>> => Parent(p) \in DOMAIN ParentsMade(p) /\ ParentsMade(p)[Parent(p)] = Dir
         /\ p \in DOMAIN ParentsMade(p) => p \in DOMAIN tree /\ ParentsMade(p)[p] = tree[p]
<1> DEFINE w == ParentsMade(p)
<1>1. /\ DOMAIN w = DOMAIN tree \cup Above(p)
      /\ \A x \in Above(p) : w[x] = Dir
      /\ \A x \in DOMAIN tree : x \notin Above(p) => w[x] = tree[x]
  BY DEF ParentsMade
<1> HIDE DEF w
<1>2. Len(p) \in Nat BY LenProperties
<1>3. \A n \in 0..Len(p) - 1 : n \in 0..Len(p) /\ SubSeq(p, 1, n) \in Above(p) BY <1>2 DEF Above
<1>4. ASSUME NEW a \in Above(p)
      PROVE  a \in Seq(STRING) /\ \A m \in 0..Len(a) - 1 : SubSeq(a, 1, m) \in Above(p)
  <2>1. PICK n \in 0..Len(p) - 1 : a = SubSeq(p, 1, n) BY DEF Above
  <2>2. a \in Seq(STRING) /\ Len(a) = n BY <1>3, <2>1, FirstNames
  <2>3. ASSUME NEW m \in 0..Len(a) - 1 PROVE SubSeq(a, 1, m) \in Above(p)
    <3>1. n \in 0..Len(p) /\ m \in 0..n /\ m \in 0..Len(p) - 1 BY <1>2, <2>2
    <3>2. SubSeq(a, 1, m) = SubSeq(p, 1, m) BY <2>1, <3>1, FirstOfFirst
    <3> QED BY <1>3, <3>1, <3>2
  <2> QED BY <2>2, <2>3
<1>5. IsFiniteSet(DOMAIN w)
  <2>1. IsFiniteSet(0..Len(p) - 1)
    <3>1. 0 \in Int /\ Len(p) - 1 \in Int BY <1>2
    <3> QED BY <3>1, FS_Interval
  <2>2. [n \in 0..Len(p) - 1 |-> SubSeq(p, 1, n)] \in Surjection(0..Len(p) - 1, Above(p))
    BY DEF Surjection, Above
  <2>3. IsFiniteSet(Above(p)) BY <2>1, <2>2, FS_Surjection
  <2>4. IsFiniteSet(DOMAIN tree) BY DEF Rooted
  <2> QED BY <1>1, <2>3, <2>4, FS_Union
<1>6. DOMAIN w \subseteq Seq(STRING) BY <1>1, <1>4 DEF Rooted
<1>7. ASSUME NEW x \in DOMAIN w PROVE Fits(c, x, w[x]) BY <1>1 DEF Rooted
<1>8. ASSUME NEW x \in DOMAIN w, NEW n \in 0..Len(x) - 1
      PROVE  SubSeq(x, 1, n) \in DOMAIN w /\ w[SubSeq(x, 1, n)] = Dir
  <2>1. CASE x \in Above(p) BY <1>1, <1>4, <1>8, <2>1
  <2>2. CASE x \notin Above(p)
    <3>1. x \in DOMAIN tree BY <1>1, <2>2
    <3>2. SubSeq(x, 1, n) \in DOMAIN tree /\ tree[SubSeq(x, 1, n)] = Dir BY <1>8, <3>1 DEF Rooted
    <3> QED BY <1>1, <3>2
  <2> QED BY <2>1, <2>2
<1>9. Rooted(w, c) BY <1>5, <1>6, <1>7, <1>8 DEF Rooted
<1>10. p # <<>> => Parent(p) \in DOMAIN w /\ w[Parent(p)] = Dir
  <2> HAVE p # <<>>
  <2>1. Len(p) \in Nat \ {0} /\ Parent(p) = SubSeq(p, 1, Len(p) - 1) BY ParentOf
  <2>2. Len(p) - 1 \in 0..Len(p) - 1 BY <2>1
  <2> QED BY <1>1, <1>3, <2>1, <2>2
<1>11. p \notin Above(p)
  <2> SUFFICES ASSUME p \in Above(p) PROVE FALSE OBVIOUS
  <2>1. PICK n \in 0..Len(p) - 1 : p = SubSeq(p, 1, n) BY DEF Above
  <2>2. Len(SubSeq(p, 1, n)) = n BY <1>3, FirstNames
  <2> QED BY <1>2, <2>1, <2>2
<1>12. p \in DOMAIN w => p \in DOMAIN tree /\ w[p] = tree[p] BY <1>1, <1>11
<1> QED BY <1>9, <1>10, <1>12 DEF w

\* The root is its own parent.
LEMMA RootParent == Parent(<<>>) = <<>>
<1>1. Len(<<>>) = 0 BY EmptySeq
<1>2. Parent(<<>>) = SubSeq(<<>>, 1, Len(<<>>) - 1) BY DEF Parent, Front
<1>3. SubSeq(<<>>, 1, 0 - 1) = <<>> BY SubSeqEmpty
<1> QED BY <1>1, <1>2, <1>3

\* What is at p, and below it, is moved to q.
LEMMA TreeMoved ==
  ASSUME NEW c, Rooted(tree, c), NEW p, NEW q \in Seq(STRING), CanMove(p, q),
         q # <<>> => Fits(c, q, tree[p])
  PROVE  Rooted(Moved(p, q), c)
<1> DEFINE w == Moved(p, q)
           At(y) == q \o SubSeq(y, Len(p) + 1, Len(y))
           New == {At(y) : y \in Under(p)}
           Stay == DOMAIN tree \ (Under(p) \cup {q})
<1>1. p \in DOMAIN tree /\ p \in Seq(STRING) /\ ~IsPrefix(p, q) BY DEF CanMove, Exists, Rooted
<1>2. Parent(q) \in DOMAIN tree /\ tree[Parent(q)] = Dir BY DEF CanMove, IsDir, Exists
<1>3. q \in DOMAIN tree => tree[q] # Dir BY DEF CanMove, Exists, IsFile
<1>4. q # <<>>
  <2> SUFFICES ASSUME q = <<>> PROVE FALSE OBVIOUS
  <2> QED BY <1>2, <1>3, RootParent
<1>5. Len(p) \in Nat /\ Len(q) \in Nat /\ IsPrefix(p, p)
  <2>1. Len(p) \in Nat /\ Len(q) \in Nat BY <1>1, LenProperties
  <2> QED BY <1>1, <2>1 DEF IsPrefix
<1>6. \A y \in Under(p) : y \in DOMAIN tree /\ y \in Seq(STRING) /\ IsPrefix(p, y) BY DEF Under, Rooted
<1>7. ASSUME NEW y \in Under(p) PROVE At(y) \in Seq(STRING) /\ SamePlace(p, y, q, At(y))
  <2>1. y \in Seq(STRING) /\ IsPrefix(p, y) BY <1>6
  <2> QED BY <1>1, <2>1, Regrafted
\* A path that stays is not below q, and no path that is moved comes to it.
<1>8. ASSUME NEW x \in Stay PROVE x \in DOMAIN tree /\ x \in Seq(STRING) /\ ~IsPrefix(q, x)
  <2>1. x \in DOMAIN tree /\ x \in Seq(STRING) /\ x # q BY DEF Rooted
  <2>2. ASSUME IsPrefix(q, x) PROVE FALSE
    <3>1. Len(x) \in Nat /\ Len(q) <= Len(x) /\ SubSeq(x, 1, Len(q)) = q
      BY <2>1, <2>2, LenProperties, PrefixIsFirst
    <3>2. Len(q) # Len(x) BY <2>1, <3>1, SubSeqFull
    <3>3. Len(q) \in 0..Len(x) - 1 BY <1>5, <3>1, <3>2
    <3>4. q \in DOMAIN tree /\ tree[q] = Dir BY <2>1, <3>1, <3>3 DEF Rooted
    <3> QED BY <1>3, <3>4
  <2> QED BY <2>1, <2>2
<1>9. DOMAIN w = Stay \cup New BY DEF Moved
<1>10. \A x \in Stay : x \in DOMAIN w /\ w[x] = tree[x] BY <1>8 DEF Moved
<1>11. \A y \in Under(p) : At(y) \in DOMAIN w /\ w[At(y)] = tree[y]
  <2> TAKE y \in Under(p)
  <2>1. At(y) \in DOMAIN w BY <1>9
  <2>2. w[At(y)] = tree[p \o SubSeq(At(y), Len(q) + 1, Len(At(y)))] BY <1>7, <2>1 DEF Moved, SamePlace
  <2>3. p \o SubSeq(At(y), Len(q) + 1, Len(At(y))) = y BY <1>7 DEF SamePlace
  <2> QED BY <2>1, <2>2, <2>3
<1> HIDE DEF w
<1>12. IsFiniteSet(DOMAIN w)
  <2>1. IsFiniteSet(Stay) /\ IsFiniteSet(Under(p))
    <3>1. IsFiniteSet(DOMAIN tree) BY DEF Rooted
    <3>2. Stay \in SUBSET DOMAIN tree /\ Under(p) \in SUBSET DOMAIN tree BY DEF Under
    <3> QED BY <3>1, <3>2, FS_Subset
  <2>2. [y \in Under(p) |-> At(y)] \in Surjection(Under(p), New) BY DEF Surjection
  <2> HIDE DEF New, Stay
  <2>3. IsFiniteSet(New) BY <2>1, <2>2, FS_Surjection
  <2> QED BY <1>9, <2>1, <2>3, FS_Union
<1>13. DOMAIN w \subseteq Seq(STRING)
  <2>1. ASSUME NEW x \in New PROVE x \in Seq(STRING)
    <3>1. PICK y \in Under(p) : x = At(y) OBVIOUS
    <3>2. At(y) \in Seq(STRING) BY <1>7
    <3> QED BY <3>1, <3>2
  <2>2. Stay \subseteq Seq(STRING) BY <1>8
  <2> QED BY <1>9, <2>1, <2>2
<1>14. ASSUME NEW x \in DOMAIN w PROVE Fits(c, x, w[x])
  <2>1. CASE x \in Stay BY <1>8, <1>10, <2>1 DEF Rooted
  <2>2. ASSUME NEW y \in Under(p), x = At(y) PROVE Fits(c, x, w[x])
    <3>1. y \in DOMAIN tree /\ Fits(c, y, tree[y]) BY <1>6 DEF Rooted
    <3>2. w[x] = tree[y] BY <1>11, <2>2
    <3>3. CASE y = p
      <4>1. x = q BY <1>7, <2>2, <3>3 DEF SamePlace
      <4> QED BY <1>4, <3>2, <3>3, <4>1
    <3>4. CASE y # p
      <4>1. x # <<>> /\ y # <<>> /\ Last(x) = Last(y) BY <1>7, <2>2, <3>4 DEF SamePlace
      <4> QED BY <3>1, <3>2, <4>1 DEF Fits
    <3> QED BY <3>3, <3>4
  <2> QED BY <1>9, <2>1, <2>2
\* A directory that is not moved stays.
<1>15. ASSUME NEW a \in DOMAIN tree, tree[a] = Dir, ~IsPrefix(p, a) PROVE a \in DOMAIN w /\ w[a] = Dir
  <2>1. a \notin Under(p) /\ a # q BY <1>3, <1>15 DEF Under
  <2> QED BY <1>10, <1>15, <2>1
<1>16. ASSUME NEW x \in DOMAIN w, NEW n \in 0..Len(x) - 1
       PROVE  SubSeq(x, 1, n) \in DOMAIN w /\ w[SubSeq(x, 1, n)] = Dir
  <2> DEFINE a == SubSeq(x, 1, n)
  <2>1. CASE x \in Stay
    <3>1. x \in DOMAIN tree /\ x \in Seq(STRING) /\ Len(x) \in Nat BY <1>8, <2>1, LenProperties
    <3>2. a \in DOMAIN tree /\ tree[a] = Dir BY <1>16, <3>1 DEF Rooted
    <3>3. ~IsPrefix(p, x) BY <2>1, <3>1 DEF Under
    <3>4. ~IsPrefix(p, a)
      <4> SUFFICES ASSUME IsPrefix(p, a) PROVE FALSE OBVIOUS
      <4>1. n \in 0..Len(x) BY <1>16, <3>1
      <4>2. a \in Seq(STRING) /\ Len(a) = n BY <3>1, <4>1, FirstNames
      <4>3. Len(p) <= n /\ SubSeq(a, 1, Len(p)) = p BY <1>1, <4>2, PrefixIsFirst
      <4>4. Len(p) \in 0..n BY <1>5, <4>1, <4>3
      <4>5. SubSeq(a, 1, Len(p)) = SubSeq(x, 1, Len(p)) BY <3>1, <4>1, <4>4, FirstOfFirst
      <4>6. Len(p) <= Len(x) BY <1>5, <3>1, <4>1, <4>3
      <4>7. IsPrefix(p, x) BY <1>1, <3>1, <4>3, <4>5, <4>6, PrefixIsFirst
      <4> QED BY <3>3, <4>7
    <3> QED BY <1>15, <3>2, <3>4
  <2>2. ASSUME NEW y \in Under(p), x = At(y) PROVE a \in DOMAIN w /\ w[a] = Dir
    <3>1. y \in DOMAIN tree /\ y \in Seq(STRING) /\ Len(y) \in Nat /\ Len(p) <= Len(y) BY <1>6, <1>7 DEF SamePlace
    <3>2. Len(x) = Len(q) + Len(y) - Len(p) BY <1>7, <2>2 DEF SamePlace
    <3>3. CASE n < Len(q)
      <4>1. n \in 0..Len(q) /\ n \in 0..Len(q) - 1 BY <1>5, <1>16, <3>3
      <4>2. a = SubSeq(q, 1, n) BY <1>7, <2>2, <4>1 DEF SamePlace
      <4>3. Parent(q) \in Seq(STRING) /\ Parent(q) = SubSeq(q, 1, Len(q) - 1) /\ Len(Parent(q)) = Len(q) - 1
        BY <1>4, ParentOf
      <4>4. a \in DOMAIN tree /\ tree[a] = Dir
        <5>1. CASE n = Len(q) - 1 BY <1>2, <4>2, <4>3, <5>1
        <5>2. CASE n # Len(q) - 1
          <6>1. n \in 0..Len(Parent(q)) - 1 BY <1>5, <4>1, <4>3, <5>2
          <6>2. SubSeq(Parent(q), 1, n) = SubSeq(q, 1, n) BY <1>4, <4>1, ParentOf
          <6>3. SubSeq(Parent(q), 1, n) \in DOMAIN tree /\ tree[SubSeq(Parent(q), 1, n)] = Dir
            BY <1>2, <6>1 DEF Rooted
          <6> QED BY <4>2, <6>2, <6>3
        <5> QED BY <5>1, <5>2
      <4>5. ~IsPrefix(p, a)
        <5> SUFFICES ASSUME IsPrefix(p, a) PROVE FALSE OBVIOUS
        <5>1. a \in Seq(STRING) /\ Len(a) = n BY <4>1, <4>2, FirstNames
        <5>2. Len(p) <= n /\ SubSeq(a, 1, Len(p)) = p BY <1>1, <5>1, PrefixIsFirst
        <5>3. Len(p) \in 0..n BY <1>5, <4>1, <5>2
        <5>4. SubSeq(a, 1, Len(p)) = SubSeq(q, 1, Len(p)) BY <4>1, <4>2, <5>3, FirstOfFirst
        <5>5. Len(p) <= Len(q) BY <1>5, <4>1, <5>2
        <5>6. IsPrefix(p, q) BY <1>1, <5>2, <5>4, <5>5, PrefixIsFirst
        <5> QED BY <1>1, <5>6
      <4> QED BY <1>15, <4>4, <4>5
    <3>4. CASE n >= Len(q)
      <4> DEFINE m == Len(p) + n - Len(q)
      <4>1. m \in Len(p)..Len(y) /\ m \in 0..Len(y) - 1 /\ m \in 0..Len(y) /\ Len(q) + m - Len(p) = n
        BY <1>5, <1>16, <3>1, <3>2, <3>4
      <4> HIDE DEF m
      <4>2. /\ IsPrefix(p, SubSeq(y, 1, m))
            /\ SubSeq(x, 1, Len(q) + m - Len(p)) = q \o SubSeq(SubSeq(y, 1, m), Len(p) + 1, m)
        <5>1. \A k \in Len(p)..Len(y) :
                /\ IsPrefix(p, SubSeq(y, 1, k))
                /\ SubSeq(At(y), 1, Len(q) + k - Len(p)) = q \o SubSeq(SubSeq(y, 1, k), Len(p) + 1, k)
          BY <1>7 DEF SamePlace
        <5> HIDE DEF At
        <5> QED BY <2>2, <4>1, <5>1
      <4>3. SubSeq(y, 1, m) \in DOMAIN tree /\ tree[SubSeq(y, 1, m)] = Dir BY <3>1, <4>1 DEF Rooted
      <4>4. Len(SubSeq(y, 1, m)) = m BY <3>1, <4>1, FirstNames
      <4>5. SubSeq(y, 1, m) \in Under(p) BY <4>2, <4>3 DEF Under
      <4>6. a = At(SubSeq(y, 1, m)) BY <4>1, <4>2, <4>4
      <4> QED BY <1>11, <4>3, <4>5, <4>6
    <3> QED BY <1>5, <1>16, <3>3, <3>4
  <2> QED BY <1>9, <2>1, <2>2
<1>17. Rooted(w, c) BY <1>12, <1>13, <1>14, <1>16 DEF Rooted
<1> QED BY <1>17 DEF w

\* The members of a finite set one after the other.
LEMMA InSequence ==
  ASSUME NEW S, IsFiniteSet(S), NEW T, S \subseteq T
  PROVE  SetToSeq(S) \in Seq(T)
<1>1. PICK n \in Nat : ExistsBijection(1..n, S) BY FS_NatBijection
<1>2. Cardinality(S) = n BY <1>1, FS_CountingElements
<1>3. PICK f : f \in Bijection(1..n, S) BY <1>1 DEF ExistsBijection
<1>4. f \in [1..Cardinality(S) -> S] /\ IsInjective(f)
  BY <1>2, <1>3 DEF Bijection, Injection, IsInjective
<1>5. SetToSeq(S) \in [1..Cardinality(S) -> S] BY <1>4 DEF SetToSeq
<1> QED BY <1>2, <1>5

-----------------------------------------------------------------------------
(* The agent's steps *)

\* A step of one request leaves the others where they are.
Alone(r) ==
  /\ Domains' /\ op' = op /\ pc[r] # "none"
  /\ pc'[r] = "rename" => op[r].kind = "rename"
  /\ \A s \in Requests : s # r => pc'[s] = pc[s] /\ work'[s] = work[s] /\ answer'[s] = answer[s]

\* It leaves the files of the others as they are.
FilesKept(r) ==
  /\ content' \in Seq(Entry) /\ Len(content) <= Len(content')
  /\ \A i \in 1..Len(content') : Half(content'[i]) =>
       \/ i <= Len(content) /\ content'[i] = content[i] /\ content[i].data # r
       \/ /\ content'[i].data = r /\ pc'[r] \in {"fill", "answered"}
          /\ pc'[r] = "fill" => Task(r)'.to = i

\* It has to do what it is said to do next.
WorkFits(r) ==
  /\ pc'[r] \in {"copy", "entries"} => work'[r] \in Seq(Tasks) /\ work'[r] # <<>>
  /\ pc'[r] = "data" => Filling(Task(r))' /\ Tail(work'[r]) \in Seq(Tasks)
  /\ pc'[r] = "fill" => Task(r)'.to \in 1..Len(content')

\* It is answered nothing that is hidden.
AnswerFits(r) ==
  /\ "entries" \in DOMAIN answer'[r] => \A q \in answer'[r].entries : ~Hidden(q)
  /\ pc'[r] = "prefetch" => "entries" \in DOMAIN answer'[r]

\* Such a step preserves the invariant.
LEMMA StepKeeps ==
  ASSUME FInv, NEW r \in Requests, Alone(r), FilesKept(r), WorkFits(r), AnswerFits(r), Rooted(tree', content')
  PROVE  FInv'
<1> USE DEF FInv
<1>1. Domains' BY DEF Alone
<1>2. TreeOK' BY DEF TreeOK
<1>3. Len(content) \in Nat /\ Len(content') \in Nat /\ 1..Len(content) \subseteq 1..Len(content')
  <2>1. content \in Seq(Entry) /\ content' \in Seq(Entry) /\ Len(content) <= Len(content')
    BY DEF ContentOK, FilesKept
  <2>2. Len(content) \in Nat /\ Len(content') \in Nat BY <2>1, LenProperties
  <2> QED BY <2>1, <2>2
<1>4. ContentOK'
  <2>1. content' \in Seq(Entry) BY DEF FilesKept
  <2>2. ASSUME NEW i \in 1..Len(content'), Half(content'[i])
        PROVE  /\ content'[i].data \in Requests
               /\ pc'[content'[i].data] \in {"fill", "answered"}
               /\ pc'[content'[i].data] = "fill" => Head(work'[content'[i].data]).to = i
    <3>1. CASE i <= Len(content) /\ content'[i] = content[i] /\ content[i].data # r
      <4>1. i \in 1..Len(content) BY <1>3, <3>1
      <4>2. /\ content[i].data \in Requests
            /\ pc[content[i].data] \in {"fill", "answered"}
            /\ pc[content[i].data] = "fill" => Head(work[content[i].data]).to = i
        BY <2>2, <3>1, <4>1 DEF ContentOK, Task
      <4> QED BY <3>1, <4>2 DEF Alone
    <3>2. CASE /\ content'[i].data = r /\ pc'[r] \in {"fill", "answered"}
               /\ pc'[r] = "fill" => Task(r)'.to = i
      BY <3>2 DEF Task
    <3> QED BY <2>2, <3>1, <3>2 DEF FilesKept
  <2> QED BY <2>1, <2>2 DEF ContentOK, Task, Half
<1>5. OpsOK' BY DEF OpsOK, Alone
<1>6. WorkOK'
  <2> SUFFICES ASSUME NEW s \in Requests
               PROVE  /\ pc'[s] \in {"copy", "entries"} => work'[s] \in Seq(Tasks) /\ work'[s] # <<>>
                      /\ pc'[s] = "data" => Filling(Task(s))' /\ Tail(work'[s]) \in Seq(Tasks)
                      /\ pc'[s] = "fill" => Task(s)'.to \in 1..Len(content')
    BY DEF WorkOK
  <2>1. CASE s = r BY <2>1 DEF WorkFits
  <2>2. CASE s # r
    <3>1. pc'[s] = pc[s] /\ work'[s] = work[s] /\ Task(s)' = Task(s) BY <2>2 DEF Alone, Task
    <3>2. pc[s] = "data" => Filling(Task(s)) /\ Tail(work[s]) \in Seq(Tasks) BY DEF WorkOK
    <3>3. pc'[s] = "data" => Filling(Task(s))' BY <1>3, <3>1, <3>2 DEF Filling
    <3>4. pc[s] = "fill" => Task(s).to \in 1..Len(content) BY DEF WorkOK
    <3>5. pc'[s] = "fill" => Task(s)'.to \in 1..Len(content') BY <1>3, <3>1, <3>4
    <3>6. pc[s] \in {"copy", "entries"} => work[s] \in Seq(Tasks) /\ work[s] # <<>> BY DEF WorkOK
    <3> QED BY <3>1, <3>2, <3>3, <3>5, <3>6
  <2> QED BY <2>1, <2>2
<1>7. AnswersOK' BY DEF AnswersOK, AnswerFits, Alone, Hidden
<1> QED BY <1>1, <1>2, <1>4, <1>5, <1>6, <1>7

\* A request that is neither writing its file nor answered has no file half written.
LEMMA SameFiles ==
  ASSUME FInv, NEW r \in Requests, pc[r] \notin {"fill", "answered"}, content' = content
  PROVE  FilesKept(r)
<1>1. content \in Seq(Entry) /\ Len(content) \in Nat BY LenProperties DEF FInv, ContentOK
<1>2. ASSUME NEW i \in 1..Len(content), Half(content[i]) PROVE content[i].data # r
  BY <1>2 DEF FInv, ContentOK
<1> QED BY <1>1, <1>2 DEF FilesKept

\* An answer concerns one request.
LEMMA Answers ==
  ASSUME Domains, NEW r \in Requests, NEW code, Answer(r, code)
  PROVE  /\ DOMAIN pc' = Requests /\ DOMAIN answer' = Requests
         /\ pc'[r] = "answered" /\ answer'[r] = [code |-> code]
         /\ \A s \in Requests : s # r => pc'[s] = pc[s] /\ answer'[s] = answer[s]
BY DEF Answer, Domains

\* Going on concerns one request, and answers nothing.
LEMMA GoesOn ==
  ASSUME Domains, NEW r \in Requests, NEW at, Continue(r, at)
  PROVE  /\ DOMAIN pc' = Requests /\ DOMAIN answer' = Requests
         /\ pc'[r] = at /\ answer' = answer
         /\ \A s \in Requests : s # r => pc'[s] = pc[s] /\ answer'[s] = answer[s]
BY DEF Continue, Domains

\* What a request does next of which files and work say nothing.
Simple == {"read", "list", "temp", "replace", "mkdir", "delete", "shellMkdir"}

EndsOrGoesOn(r) ==
  \/ \E code : Answer(r, code)
  \/ \E at \in Simple : Continue(r, at)
  \/ Continue(r, "rename") /\ op[r].kind = "rename"

\* A step that at most changes the tree.
LEMMA TreeStep ==
  ASSUME FInv, NEW r \in Requests, pc[r] \notin {"none", "fill", "answered"},
         content' = content, op' = op, work' = work, Rooted(tree', content),
         EndsOrGoesOn(r)
  PROVE  FInv'
<1>1. Domains /\ WorkOK /\ AnswersOK BY DEF FInv
<1> DEFINE Changed ==
             /\ DOMAIN pc' = Requests /\ DOMAIN answer' = Requests
             /\ pc'[r] \in Simple \cup {"answered", "rename"} /\ (pc'[r] = "rename" => op[r].kind = "rename")
             /\ answer'[r] = answer[r] \/ \E code : answer'[r] = [code |-> code]
             /\ \A s \in Requests : s # r => pc'[s] = pc[s] /\ answer'[s] = answer[s]
<1>2. Changed
  <2>1. ASSUME NEW code, Answer(r, code) PROVE Changed BY <1>1, <2>1, Answers
  <2>2. ASSUME NEW at \in Simple, Continue(r, at) PROVE Changed BY <1>1, <2>2, GoesOn DEF Simple
  <2>3. ASSUME Continue(r, "rename"), op[r].kind = "rename" PROVE Changed BY <1>1, <2>3, GoesOn
  <2> QED BY <2>1, <2>2, <2>3 DEF EndsOrGoesOn
<1>3. Alone(r) BY <1>1, <1>2 DEF Alone, Domains
<1>4. FilesKept(r) BY SameFiles
<1>5. WorkFits(r) BY <1>2 DEF WorkFits, Simple
<1>6. AnswerFits(r)
  <2>1. pc'[r] # "prefetch" BY <1>2 DEF Simple
  <2>2. CASE answer'[r] = answer[r] BY <1>1, <2>1, <2>2 DEF AnswerFits, AnswersOK, Hidden
  <2>3. ASSUME NEW code, answer'[r] = [code |-> code] PROVE AnswerFits(r) BY <2>1, <2>3 DEF AnswerFits
  <2> QED BY <1>2, <2>2, <2>3
<1> QED BY <1>3, <1>4, <1>5, <1>6, StepKeeps

\* A directory may stand at a path that a request names, and above it.
LEMMA PlainFits ==
  ASSUME FInv, NEW p, Plain(p)
  PROVE  Fits(content, p, Dir) /\ \A a \in Above(p) : Fits(content, a, Dir)
<1>1. Len(content) \in Nat /\ 0 \in 0..Len(content)
  <2>1. Len(content) \in Nat BY LenProperties DEF FInv, ContentOK
  <2> QED BY <2>1
<1>2. p \in Seq(STRING) /\ \A i \in 1..Len(p) : p[i] \notin Range(TempName) BY DEF Plain
<1>3. Len(p) \in Nat BY <1>2, LenProperties
<1>4. ASSUME NEW s \in Seq(STRING), \A i \in 1..Len(s) : s[i] \notin Range(TempName)
      PROVE  Fits(content, s, Dir)
  <2>1. s # <<>> => Len(s) \in 1..Len(s)
    <3>1. s # <<>> => Len(s) \in Nat \ {0} BY EmptySeq
    <3> QED BY <3>1
  <2>2. s # <<>> => Last(s) \notin Range(TempName) BY <1>4, <2>1 DEF Last
  <2> QED BY <1>1, <2>2 DEF Fits, Dir
<1>5. ASSUME NEW a \in Above(p) PROVE Fits(content, a, Dir)
  <2>1. PICK n \in 0..Len(p) - 1 : a = SubSeq(p, 1, n) BY DEF Above
  <2>2. n \in 0..Len(p) BY <1>3
  <2>3. a \in Seq(STRING) /\ Len(a) = n /\ \A i \in 1..n : a[i] = p[i] BY <1>2, <2>1, <2>2, FirstNames
  <2>4. \A i \in 1..Len(a) : i \in 1..Len(p) /\ a[i] = p[i] BY <1>3, <2>2, <2>3
  <2> QED BY <1>2, <1>4, <2>3, <2>4
<1> QED BY <1>2, <1>4, <1>5

\* What is at a path that a request names is whole, or a copy.
LEMMA PlainIsWhole ==
  ASSUME FInv, NEW p \in DOMAIN tree, Plain(p), tree[p] # Dir
  PROVE  p # <<>> /\ ~Half(content[tree[p]])
<1>1. Fits(content, p, tree[p]) BY DEF FInv, TreeOK, Rooted
<1>2. p # <<>> BY <1>1 DEF Fits
<1>3. p \in Seq(STRING) /\ Len(p) \in 1..Len(p)
  <2>1. p \in Seq(STRING) BY DEF Plain
  <2>2. Len(p) \in Nat \ {0} BY <1>2, <2>1, EmptySeq
  <2> QED BY <2>1, <2>2
<1>4. Last(p) \notin Range(TempName) BY <1>3 DEF Plain, Last
<1>5. tree[p] \in 1..Len(content)
  <2>1. Len(content) \in Nat BY LenProperties DEF FInv, ContentOK
  <2>2. tree[p] \in 0..Len(content) BY <1>1 DEF Fits
  <2> QED BY <2>1, <2>2 DEF Dir
<1>6. ASSUME Half(content[tree[p]]) PROVE FALSE
  <2>1. content[tree[p]].data \in Requests BY <1>5, <1>6 DEF FInv, ContentOK
  <2>2. TempName[content[tree[p]].data] \in Range(TempName) BY <2>1, AssFilesAssumption DEF Range
  <2>3. Last(p) = TempName[content[tree[p]].data] BY <1>1, <1>6 DEF Fits
  <2> QED BY <1>4, <2>2, <2>3
<1> QED BY <1>2, <1>6

\* What is moved fits at a path that a request names when it is no file half written.
LEMMA FitsThere ==
  ASSUME FInv, NEW p \in DOMAIN tree, NEW q, Plain(q), q # <<>>, tree[p] # Dir => ~Half(content[tree[p]])
  PROVE  Fits(content, q, tree[p])
<1>1. Fits(content, q, Dir) BY PlainFits
<1>2. tree[p] \in 0..Len(content) BY DEF FInv, TreeOK, Rooted, Fits
<1>3. Last(q) \notin Range(TempName) BY <1>1 DEF Fits
<1> QED BY <1>2, <1>3 DEF Fits

\* A request that has been asked names no temporary file.
LEMMA Named ==
  ASSUME FInv, NEW r \in Requests, pc[r] # "none"
  PROVE  Plain(op[r].path) /\ (op[r].kind \in {"rename", "copy"} => Plain(op[r].to))
BY DEF FInv, OpsOK, OpOK

\* The parents of a path that a request names are made or found.
LEMMA ParentFound ==
  ASSUME FInv, NEW r \in Requests, NEW p, Plain(p), NEW mkdirP, NEW at \in Simple, WithParent(r, p, mkdirP, at)
  PROVE  Rooted(tree', content) /\ EndsOrGoesOn(r)
<1>1. Rooted(tree, content) /\ p \in Seq(STRING) BY DEF FInv, TreeOK, Plain
<1>2. CASE Blocked(p) /\ Answer(r, "internal") /\ UNCHANGED tree BY <1>1, <1>2 DEF EndsOrGoesOn
<1>3. CASE ~Blocked(p) /\ mkdirP /\ Continue(r, at) /\ tree' = ParentsMade(p)
  <2>1. Rooted(ParentsMade(p), content) BY <1>1, <1>3, PlainFits, TreeParentsMade
  <2> QED BY <1>3, <2>1 DEF EndsOrGoesOn
<1>4. CASE /\ ~Blocked(p) /\ ~mkdirP /\ UNCHANGED tree
           /\ IF IsDir(Parent(p)) THEN Continue(r, at) ELSE Answer(r, "notFound")
  BY <1>1, <1>4 DEF EndsOrGoesOn
<1> QED BY <1>2, <1>3, <1>4 DEF WithParent

\* Steps that look and decide.
LEMMA LookingKeeps ==
  ASSUME FInv, NEW r \in Requests, ReadFile(r) \/ FSTree(r) \/ RenamePath(r) \/ ShellDirectory(r)
  PROVE  FInv'
<1>1. UNCHANGED <<tree, content, op, work>> /\ pc[r] = "new" BY DEF ReadFile, FSTree, RenamePath, ShellDirectory, Handles
<1>2. EndsOrGoesOn(r)
  <2>1. CASE ReadFile(r)
    <3>1. Continue(r, "read") \/ Answer(r, "notFile") \/ Answer(r, Missing(op[r].path)) BY <2>1 DEF ReadFile
    <3> QED BY <3>1 DEF EndsOrGoesOn, Simple
  <2>2. CASE FSTree(r)
    <3>1. Continue(r, "list") \/ Answer(r, "notDirectory") \/ Answer(r, Missing(op[r].path)) BY <2>2 DEF FSTree
    <3> QED BY <3>1 DEF EndsOrGoesOn, Simple
  <2>3. CASE RenamePath(r)
    <3>1. PICK found : \/ Continue(r, "rename")
                       \/ Answer(r, IF op[r].path = op[r].to THEN "ok" ELSE found)
      BY <2>3 DEF RenamePath
    <3>2. op[r].kind = "rename" BY <2>3 DEF RenamePath, Handles
    <3> QED BY <3>1, <3>2 DEF EndsOrGoesOn, Simple
  <2>4. CASE ShellDirectory(r)
    <3>1. Continue(r, "shellMkdir") \/ Answer(r, "exists") BY <2>4 DEF ShellDirectory
    <3> QED BY <3>1 DEF EndsOrGoesOn, Simple
  <2> QED BY <2>1, <2>2, <2>3, <2>4
<1>3. Rooted(tree', content) BY <1>1 DEF FInv, TreeOK
<1> QED BY <1>1, <1>2, <1>3, TreeStep

\* Steps that prepare a write, an upload or a directory.
LEMMA PreparingKeeps ==
  ASSUME FInv, NEW r \in Requests, WriteTextFile(r) \/ WriteBinaryFile(r) \/ CreateDirectory(r)
  PROVE  FInv'
<1>1. UNCHANGED <<content, op, work>> /\ pc[r] = "new"
  BY DEF WriteTextFile, WriteBinaryFile, CreateDirectory, Handles
<1>2. Plain(op[r].path) BY <1>1, Named
<1>3. Rooted(tree, content) BY DEF FInv, TreeOK
<1>4. \/ UNCHANGED tree /\ (Continue(r, "temp") \/ \E code : Answer(r, code))
      \/ \E at \in Simple : WithParent(r, op[r].path, op[r].mkdirP, at)
  <2>1. CASE WriteTextFile(r)
    <3>1. \/ Answer(r, "conflict") /\ UNCHANGED tree
          \/ Continue(r, "temp") /\ UNCHANGED tree
          \/ Answer(r, "notFile") /\ UNCHANGED tree
          \/ Answer(r, Missing(op[r].path)) /\ UNCHANGED tree
          \/ WithParent(r, op[r].path, op[r].mkdirP, "temp")
      BY <2>1 DEF WriteTextFile, IsFile, IsDir
    <3> QED BY <3>1 DEF Simple
  <2>2. CASE WriteBinaryFile(r)
    <3>1. \/ Answer(r, "exists") /\ UNCHANGED tree
          \/ Continue(r, "temp") /\ UNCHANGED tree
          \/ Answer(r, "notFile") /\ UNCHANGED tree
          \/ WithParent(r, op[r].path, op[r].mkdirP, "temp")
      BY <2>2 DEF WriteBinaryFile, IsFile, IsDir
    <3> QED BY <3>1 DEF Simple
  <2>3. CASE CreateDirectory(r)
    <3>1. \/ Answer(r, "exists") /\ UNCHANGED tree
          \/ WithParent(r, op[r].path, op[r].mkdirP, "mkdir")
      BY <2>3 DEF CreateDirectory
    <3> QED BY <3>1 DEF Simple
  <2> QED BY <2>1, <2>2, <2>3
<1>5. Rooted(tree', content) /\ EndsOrGoesOn(r)
  <2>1. CASE UNCHANGED tree /\ (Continue(r, "temp") \/ \E code : Answer(r, code))
    BY <1>3, <2>1 DEF EndsOrGoesOn, Simple
  <2>2. CASE \E at \in Simple : WithParent(r, op[r].path, op[r].mkdirP, at) BY <1>2, <2>2, ParentFound
  <2> QED BY <1>4, <2>1, <2>2
<1> QED BY <1>1, <1>5, TreeStep


\* The temporary file of a request stands beside the file it is to become.
LEMMA TempIs ==
  ASSUME FInv, NEW r \in Requests, Plain(op[r].path)
  PROVE  /\ Temp(r) \in Seq(STRING) /\ Temp(r) # <<>>
         /\ Parent(Temp(r)) = Parent(op[r].path) /\ Last(Temp(r)) = TempName[r]
<1>1. Parent(op[r].path) \in Seq(STRING)
  <2>1. op[r].path \in Seq(STRING) BY DEF Plain
  <2>2. CASE op[r].path = <<>> BY <2>1, <2>2, RootParent
  <2>3. CASE op[r].path # <<>> BY <2>1, <2>3, ParentOf
  <2> QED BY <2>2, <2>3
<1>2. TempName[r] \in STRING BY AssFilesAssumption
<1> QED BY <1>1, <1>2, OneLonger DEF Temp

\* A directory is made.
LEMMA MkdirKeeps ==
  ASSUME FInv, NEW r \in Requests, Mkdir(r)
  PROVE  FInv'
<1>1. UNCHANGED <<content, op, work>> /\ pc[r] = "mkdir" BY DEF Mkdir
<1>2. Plain(op[r].path) BY <1>1, Named
<1>3. Rooted(tree, content) /\ op[r].path \in Seq(STRING) BY <1>2 DEF FInv, TreeOK, Plain
<1>4. EndsOrGoesOn(r) BY DEF Mkdir, EndsOrGoesOn
<1>5. Rooted(tree', content)
  <2>1. CASE IsDir(Parent(op[r].path)) /\ ~Exists(op[r].path) /\ tree' = With(tree, op[r].path, Dir)
    <3>1. Fits(content, op[r].path, Dir) BY <1>2, PlainFits
    <3> QED BY <1>3, <2>1, <3>1, TreeWith DEF IsDir, Exists
  <2>2. CASE tree' = tree BY <1>3, <2>2
  <2> QED BY <2>1, <2>2 DEF Mkdir
<1> QED BY <1>1, <1>4, <1>5, TreeStep

\* What stands at one path is moved to another.
LEMMA RenameKeeps ==
  ASSUME FInv, NEW r \in Requests, Rename(r)
  PROVE  FInv'
<1>1. UNCHANGED <<content, op, work>> /\ pc[r] = "rename" BY DEF Rename
<1>2. EndsOrGoesOn(r) BY DEF Rename, EndsOrGoesOn
<1>3. Rooted(tree, content) BY DEF FInv, TreeOK
<1>4. Rooted(tree', content)
  <2>1. CASE ~CanMove(op[r].path, op[r].to) BY <1>3, <2>1 DEF Rename
  <2>2. CASE CanMove(op[r].path, op[r].to)
    <3>1. tree' = Moved(op[r].path, op[r].to) /\ op[r].path \in DOMAIN tree BY <2>2 DEF Rename, CanMove, Exists
    <3>2. Plain(op[r].path) /\ Plain(op[r].to)
      <4>1. op[r].kind \in {"rename", "copy"} BY <1>1 DEF FInv, OpsOK, OpOK
      <4> QED BY <1>1, <4>1, Named
    <3>3. tree[op[r].path] # Dir => ~Half(content[tree[op[r].path]]) BY <3>1, <3>2, PlainIsWhole
    <3>4. op[r].to # <<>> => Fits(content, op[r].to, tree[op[r].path]) BY <3>1, <3>2, <3>3, FitsThere
    <3>5. op[r].to \in Seq(STRING) BY <3>2 DEF Plain
    <3> QED BY <1>3, <2>2, <3>1, <3>4, <3>5, TreeMoved
  <2> QED BY <2>1, <2>2
<1> QED BY <1>1, <1>2, <1>4, TreeStep

\* A temporary file takes the place of the file: it is whole.
LEMMA ReplaceKeeps ==
  ASSUME FInv, NEW r \in Requests, Replace(r)
  PROVE  FInv'
<1>1. UNCHANGED <<content, op, work>> /\ pc[r] = "replace" BY DEF Replace
<1>2. EndsOrGoesOn(r) BY DEF Replace, EndsOrGoesOn
<1>3. Rooted(tree, content) BY DEF FInv, TreeOK
<1>4. Plain(op[r].path) BY <1>1, Named
<1>5. Rooted(tree', content)
  <2>1. CASE ~CanMove(Temp(r), op[r].path) BY <1>3, <2>1, TreeRemoved DEF Replace
  <2>2. CASE CanMove(Temp(r), op[r].path)
    <3>1. tree' = Moved(Temp(r), op[r].path) /\ Temp(r) \in DOMAIN tree BY <2>2 DEF Replace, CanMove, Exists
    <3>2. Last(Temp(r)) = TempName[r] BY <1>4, TempIs
    <3>3. ASSUME tree[Temp(r)] # Dir, Half(content[tree[Temp(r)]]) PROVE FALSE
      <4>1. Fits(content, Temp(r), tree[Temp(r)]) BY <1>3, <3>1 DEF Rooted
      <4>2. tree[Temp(r)] \in 1..Len(content)
        <5>1. Len(content) \in Nat BY LenProperties DEF FInv, ContentOK
        <5>2. tree[Temp(r)] \in 0..Len(content) BY <4>1 DEF Fits
        <5> QED BY <3>3, <5>1, <5>2 DEF Dir
      <4>3. /\ content[tree[Temp(r)]].data \in Requests
            /\ pc[content[tree[Temp(r)]].data] \in {"fill", "answered"}
        BY <3>3, <4>2 DEF FInv, ContentOK
      <4>4. TempName[r] = TempName[content[tree[Temp(r)]].data] BY <3>2, <3>3, <4>1 DEF Fits
      <4>5. content[tree[Temp(r)]].data = r BY <4>3, <4>4, AssFilesAssumption
      <4> QED BY <1>1, <4>3, <4>5
    <3>4. op[r].path # <<>> => Fits(content, op[r].path, tree[Temp(r)]) BY <1>4, <3>1, <3>3, FitsThere
    <3>5. op[r].path \in Seq(STRING) BY <1>4 DEF Plain
    <3> QED BY <1>3, <2>2, <3>1, <3>4, <3>5, TreeMoved
  <2> QED BY <2>1, <2>2
<1> QED BY <1>1, <1>2, <1>5, TreeStep

\* A script makes a directory, and what is above it if it may.
LEMMA ShellMkdirKeeps ==
  ASSUME FInv, NEW r \in Requests, ShellMkdir(r)
  PROVE  FInv'
<1> DEFINE p == op[r].path
<1>1. UNCHANGED <<content, op, work>> /\ pc[r] = "shellMkdir" BY DEF ShellMkdir
<1>2. EndsOrGoesOn(r) BY DEF ShellMkdir, EndsOrGoesOn
<1>3. Plain(p) BY <1>1, Named
<1>4. Rooted(tree, content) /\ p \in Seq(STRING) BY <1>3 DEF FInv, TreeOK, Plain
<1>5. Fits(content, p, Dir) /\ \A a \in Above(p) : Fits(content, a, Dir) BY <1>3, PlainFits
<1>6. \/ ~Blocked(p) /\ ~IsFile(p) /\ tree' = With(ParentsMade(p), p, Dir)
      \/ IsDir(Parent(p)) /\ ~Exists(p) /\ tree' = With(tree, p, Dir)
      \/ tree' = tree
  BY DEF ShellMkdir
<1>7. Rooted(tree', content)
  <2>1. CASE ~Blocked(p) /\ ~IsFile(p) /\ tree' = With(ParentsMade(p), p, Dir)
    <3> DEFINE w == ParentsMade(p)
    <3>1. /\ Rooted(w, content)
          /\ p # <<>> => Parent(p) \in DOMAIN w /\ w[Parent(p)] = Dir
      BY <1>4, <1>5, <2>1, TreeParentsMade
    <3> HIDE DEF w, p
    <3>2. Rooted(With(w, p, Dir), content) BY <1>4, <1>5, <3>1, TreeWith
    <3> QED BY <2>1, <3>2 DEF w
  <2>2. CASE IsDir(Parent(p)) /\ ~Exists(p) /\ tree' = With(tree, p, Dir)
    BY <1>4, <1>5, <2>2, TreeWith DEF IsDir, Exists
  <2>3. CASE tree' = tree BY <1>4, <2>3
  <2> QED BY <1>6, <2>1, <2>2, <2>3
<1> QED BY <1>1, <1>2, <1>7, TreeStep

\* A step changes what one request has to do.
WorkOf(r) == DOMAIN work' = Requests /\ \A s \in Requests : s # r => work'[s] = work[s]

\* An answer without entries, or going on, but not to what entries or a kind are needed for.
Moves(r) ==
  \/ \E code : Answer(r, code)
  \/ \E at : at \notin {"prefetch", "rename"} /\ Continue(r, at)

\* Such a step concerns one request.
LEMMA MovesAlone ==
  ASSUME FInv, NEW r \in Requests, pc[r] # "none", op' = op, WorkOf(r), Moves(r)
  PROVE  /\ Alone(r) /\ AnswerFits(r)
         /\ \A code : Answer(r, code) => pc'[r] = "answered"
         /\ \A at : Continue(r, at) => pc'[r] = at
<1>1. Domains /\ AnswersOK BY DEF FInv
<1>2. ASSUME NEW code, Answer(r, code) PROVE Alone(r) /\ AnswerFits(r) /\ pc'[r] = "answered"
  <2>1. /\ DOMAIN pc' = Requests /\ DOMAIN answer' = Requests
        /\ pc'[r] = "answered" /\ answer'[r] = [code |-> code]
        /\ \A s \in Requests : s # r => pc'[s] = pc[s] /\ answer'[s] = answer[s]
    BY <1>1, <1>2, Answers
  <2>2. Alone(r) BY <1>1, <2>1 DEF Alone, WorkOf, Domains
  <2>3. AnswerFits(r) BY <2>1 DEF AnswerFits
  <2> QED BY <2>1, <2>2, <2>3
<1>3. ASSUME NEW at, Continue(r, at) PROVE pc'[r] = at BY <1>1, <1>3, GoesOn
<1>4. ASSUME NEW at, at \notin {"prefetch", "rename"}, Continue(r, at) PROVE Alone(r) /\ AnswerFits(r)
  <2>1. /\ DOMAIN pc' = Requests /\ DOMAIN answer' = Requests
        /\ pc'[r] = at /\ answer' = answer
        /\ \A s \in Requests : s # r => pc'[s] = pc[s] /\ answer'[s] = answer[s]
    BY <1>1, <1>4, GoesOn
  <2>2. Alone(r) BY <1>1, <1>4, <2>1 DEF Alone, WorkOf, Domains
  <2>3. AnswerFits(r) BY <1>1, <1>4, <2>1 DEF AnswerFits, AnswersOK, Hidden
  <2> QED BY <2>2, <2>3
<1> QED BY <1>2, <1>3, <1>4 DEF Moves

\* A request that answers what it read.
LEMMA ReadingKeeps ==
  ASSUME FInv, NEW r \in Requests, ReadWorkspaceFile(r)
  PROVE  FInv'
<1>1. UNCHANGED <<tree, content, op, work>> /\ pc[r] = "read" BY DEF ReadWorkspaceFile
<1>2. Domains /\ Rooted(tree', content') BY <1>1 DEF FInv, TreeOK
<1>3. FilesKept(r) BY <1>1, SameFiles
<1>4. CASE Answer(r, "internal") BY <1>1, <1>2, <1>4, TreeStep DEF EndsOrGoesOn
<1>5. CASE \E d, w : AnswerWith(r, [code |-> "ok", data |-> d, whole |-> w])
  <2>1. PICK d, w : AnswerWith(r, [code |-> "ok", data |-> d, whole |-> w]) BY <1>5
  <2>2. /\ pc' = [pc EXCEPT ![r] = "answered"]
        /\ answer' = [answer EXCEPT ![r] = [code |-> "ok", data |-> d, whole |-> w]]
    BY <2>1 DEF AnswerWith
  <2>3. Alone(r) BY <1>1, <1>2, <2>2 DEF Alone, Domains
  <2>4. pc'[r] = "answered" /\ answer'[r] = [code |-> "ok", data |-> d, whole |-> w] BY <1>2, <2>2 DEF Domains
  <2>5. WorkFits(r) /\ AnswerFits(r) BY <2>4 DEF WorkFits, AnswerFits
  <2> QED BY <1>2, <1>3, <2>3, <2>5, StepKeeps
<1> QED BY <1>4, <1>5 DEF ReadWorkspaceFile

\* A listing, and what is fetched with it, shows no temporary file.
LEMMA ListingKeeps ==
  ASSUME FInv, NEW r \in Requests, ListDirectory(r) \/ Prefetch(r)
  PROVE  FInv'
<1>1. UNCHANGED <<tree, content, op, work>> /\ pc[r] \in {"list", "prefetch"} BY DEF ListDirectory, Prefetch
<1>2. Domains /\ Rooted(tree', content') BY <1>1 DEF FInv, TreeOK
<1>3. FilesKept(r) BY <1>1, SameFiles
<1>4. CASE ListDirectory(r) /\ Answer(r, "internal") BY <1>1, <1>2, <1>4, TreeStep DEF EndsOrGoesOn
<1>5. ASSUME NEW e, NEW at \in {"prefetch", "answered"}, NEW code,
             \A q \in e : ~Hidden(q),
             answer' = [answer EXCEPT ![r] = [code |-> code, entries |-> e]], pc' = [pc EXCEPT ![r] = at]
      PROVE  FInv'
  <2>1. Alone(r) BY <1>1, <1>2, <1>5 DEF Alone, Domains
  <2>2. pc'[r] = at /\ answer'[r] = [code |-> code, entries |-> e] BY <1>2, <1>5 DEF Domains
  <2>3. WorkFits(r) BY <2>2 DEF WorkFits
  <2>4. AnswerFits(r) BY <1>5, <2>2 DEF AnswerFits
  <2> QED BY <1>2, <1>3, <2>1, <2>3, <2>4, StepKeeps
<1>6. CASE ListDirectory(r) /\ IsDir(op[r].path)
  <2>1. PICK e \in SUBSET Visible(op[r].path) :
          /\ answer' = [answer EXCEPT ![r] = [code |-> "none", entries |-> e]]
          /\ pc' = [pc EXCEPT ![r] = "prefetch"]
    BY <1>6 DEF ListDirectory
  <2>2. \A q \in e : ~Hidden(q) BY DEF Visible
  <2> QED BY <1>5, <2>1, <2>2
<1>7. CASE Prefetch(r)
  <2>1. PICK children \in SUBSET UNION {Visible(d) : d \in answer[r].entries} :
          AnswerWith(r, [code |-> "ok", entries |-> answer[r].entries \cup children])
    BY <1>7 DEF Prefetch
  <2>2. \A q \in children : ~Hidden(q) BY DEF Visible
  <2>3. \A q \in answer[r].entries : ~Hidden(q) BY <1>7 DEF Prefetch, FInv, AnswersOK
  <2>4. \A q \in answer[r].entries \cup children : ~Hidden(q) BY <2>2, <2>3
  <2> QED BY <1>5, <2>1, <2>4 DEF AnswerWith
<1> QED BY <1>4, <1>6, <1>7 DEF ListDirectory

\* A step that changes the tree and what a request has to do.
LEMMA TaskStep ==
  ASSUME FInv, NEW r \in Requests, pc[r] \notin {"none", "fill", "answered"},
         content' = content, op' = op, WorkOf(r), Moves(r), WorkFits(r), Rooted(tree', content)
  PROVE  FInv'
<1>1. Alone(r) /\ AnswerFits(r) BY MovesAlone
<1>2. FilesKept(r) BY SameFiles
<1> QED BY <1>1, <1>2, StepKeeps

\* What is at a path is deleted piece by piece.
LEMMA DeletingKeeps ==
  ASSUME FInv, NEW r \in Requests, DeletePath(r) \/ RemoveAll(r)
  PROVE  FInv'
<1>1. UNCHANGED <<content, op>> /\ pc[r] \in {"new", "delete"} BY DEF DeletePath, RemoveAll, Handles
<1>2. Rooted(tree, content) /\ Domains BY DEF FInv, TreeOK
<1>3. WorkOf(r) BY <1>2 DEF DeletePath, RemoveAll, WorkOf, Domains
<1>4. Rooted(tree', content)
  <2>1. CASE tree' = tree BY <1>2, <2>1
  <2>2. CASE \E p : tree' = Removed(p) BY <1>2, <2>2, TreeRemoved
  <2> QED BY <2>1, <2>2 DEF DeletePath, RemoveAll
<1>5. (\E code : Answer(r, code)) \/ Continue(r, "delete") BY DEF DeletePath, RemoveAll
<1>6. Moves(r) BY <1>5 DEF Moves
<1>7. pc'[r] \in {"answered", "delete"} BY <1>1, <1>3, <1>5, <1>6, MovesAlone
<1>8. WorkFits(r) BY <1>7 DEF WorkFits
<1> QED BY <1>1, <1>3, <1>4, <1>6, <1>8, TaskStep

\* The first and the others of a sequence.
LEMMA FirstAndOthers ==
  ASSUME NEW S, NEW s \in Seq(S), s # <<>>
  PROVE  Head(s) \in S /\ Tail(s) \in Seq(S)
OBVIOUS

\* A stack after its top is replaced.
LEMMA OtherTop ==
  ASSUME NEW S, NEW s \in Seq(S), NEW t
  PROVE  Head(<<t>> \o s) = t /\ Tail(<<t>> \o s) = s
<1> DEFINE w == <<t>> \o s
           T == S \cup {t}
<1>1. <<t>> \in Seq(T) /\ s \in Seq(T) /\ Len(<<t>>) = 1 /\ <<t>>[1] = t OBVIOUS
<1>2. /\ w \in Seq(T) /\ Len(w) = 1 + Len(s)
      /\ \A i \in 1..1 + Len(s) : w[i] = IF i <= 1 THEN <<t>>[i] ELSE s[i - 1]
  <2>1. /\ w \in Seq(T) /\ Len(w) = Len(<<t>>) + Len(s)
        /\ \A i \in 1..Len(<<t>>) + Len(s) : w[i] = IF i <= Len(<<t>>) THEN <<t>>[i] ELSE s[i - Len(<<t>>)]
    BY <1>1, ConcatProperties
  <2> QED BY <1>1, <2>1
<1>3. Len(s) \in Nat BY LenProperties
<1> HIDE DEF w, T
<1>4. w # <<>> /\ w[1] = t
  <2>1. 1 \in 1..1 + Len(s) BY <1>3
  <2> QED BY <1>1, <1>2, <1>3, <2>1
<1>5. Head(w) = w[1] /\ Tail(w) \in Seq(T) /\ Len(Tail(w)) = Len(w) - 1
      /\ \A i \in 1..Len(w) - 1 : Tail(w)[i] = w[i + 1]
  BY <1>2, <1>4, HeadTailProperties
<1>6. \A i \in 1..Len(s) : Tail(w)[i] = s[i]
  <2> SUFFICES ASSUME NEW i \in 1..Len(s) PROVE Tail(w)[i] = s[i] OBVIOUS
  <2>1. i + 1 \in 1..1 + Len(s) /\ i \in 1..Len(w) - 1 /\ ~(i + 1 <= 1) /\ i + 1 - 1 = i BY <1>2, <1>3
  <2> QED BY <1>2, <1>5, <2>1
<1>7. Len(Tail(w)) = Len(s) BY <1>2, <1>3, <1>5
<1>8. Tail(w) = s BY <1>1, <1>5, <1>6, <1>7, SeqEqual
<1> QED BY <1>4, <1>5, <1>8 DEF w

\* A sequence one element longer.
LEMMA OneMore ==
  ASSUME NEW S, NEW s \in Seq(S), NEW e \in S
  PROVE  /\ Append(s, e) \in Seq(S) /\ Len(s) \in Nat /\ Len(Append(s, e)) = Len(s) + 1
         /\ \A i \in 1..Len(s) : Append(s, e)[i] = s[i]
         /\ Append(s, e)[Len(s) + 1] = e
BY AppendProperties, LenProperties

\* The next step of a copy: the top of the stack is done with.
LEMMA Proceeds ==
  ASSUME FInv, NEW r \in Requests, NEW others \in Seq(Tasks), Tail(work[r]) \in Seq(Tasks), Proceed(r, others)
  PROVE  WorkOf(r) /\ Moves(r) /\ (pc'[r] = "copy" \/ pc'[r] = "answered")
         /\ (pc'[r] = "copy" => work'[r] \in Seq(Tasks) /\ work'[r] # <<>>)
<1>1. Domains BY DEF FInv
<1>2. WorkOf(r) /\ work'[r] = others \o Tail(work[r]) BY <1>1 DEF Proceed, WorkOf, Domains
<1>3. others \o Tail(work[r]) \in Seq(Tasks) BY ConcatProperties
<1>4. \/ others \o Tail(work[r]) = <<>> /\ Answer(r, "ok")
      \/ others \o Tail(work[r]) # <<>> /\ Continue(r, "copy")
  BY DEF Proceed
<1>5. Moves(r) BY <1>4 DEF Moves
<1>6. CASE others \o Tail(work[r]) = <<>> /\ Answer(r, "ok")
  <2>1. pc'[r] = "answered" BY <1>1, <1>6, Answers
  <2> QED BY <1>2, <1>5, <2>1
<1>7. CASE others \o Tail(work[r]) # <<>> /\ Continue(r, "copy")
  <2>1. pc'[r] = "copy" BY <1>1, <1>7, GoesOn
  <2> QED BY <1>2, <1>3, <1>5, <1>7, <2>1
<1> QED BY <1>4, <1>6, <1>7

\* A copy begins.
LEMMA CopyPathKeeps ==
  ASSUME FInv, NEW r \in Requests, CopyPath(r)
  PROVE  FInv'
<1>1. UNCHANGED <<tree, content, op>> /\ pc[r] = "new" /\ op[r].kind = "copy" BY DEF CopyPath, Handles
<1>2. Rooted(tree', content) /\ Domains BY <1>1 DEF FInv, TreeOK
<1> DEFINE task == [kind |-> IF IsDir(op[r].path) THEN "dir" ELSE "file", from |-> op[r].path, to |-> op[r].to]
<1>3. PICK code :
         \/ Answer(r, code) /\ work' = work
         \/ Continue(r, "copy") /\ work' = [work EXCEPT ![r] = <<task>>]
  BY DEF CopyPath
<1>4. WorkOf(r) /\ Moves(r)
  <2>1. WorkOf(r) BY <1>2, <1>3 DEF WorkOf, Domains
  <2>2. Moves(r) BY <1>3 DEF Moves
  <2> QED BY <2>1, <2>2
<1>5. <<task>> \in Seq(Tasks) /\ <<task>> # <<>>
  <2>1. Plain(op[r].path) /\ Plain(op[r].to) BY <1>1, Named
  <2>2. op[r].path \in Seq(STRING) /\ op[r].to \in Seq(STRING) BY <2>1 DEF Plain
  <2>3. op[r].to # <<>> => Last(op[r].to) \notin Range(TempName)
    <3>1. Fits(content, op[r].to, Dir) BY <2>1, PlainFits
    <3> QED BY <3>1 DEF Fits
  <2>4. task \in [kind : {"dir", "file"}, from : Seq(STRING), to : Seq(STRING)] /\ task.to = op[r].to BY <2>2
  <2>5. task \in Tasks BY <2>3, <2>4 DEF Tasks
  <2> QED BY <2>5
<1>6. WorkFits(r)
  <2>1. CASE Answer(r, code) /\ work' = work
    <3>1. pc'[r] = "answered" BY <1>2, <2>1, Answers
    <3> QED BY <3>1 DEF WorkFits
  <2>2. CASE Continue(r, "copy") /\ work' = [work EXCEPT ![r] = <<task>>]
    <3>1. pc'[r] = "copy" /\ work'[r] = <<task>> BY <1>2, <2>2, GoesOn DEF Domains
    <3> QED BY <1>5, <3>1 DEF WorkFits
  <2> QED BY <1>3, <2>1, <2>2
<1> QED BY <1>1, <1>2, <1>4, <1>6, TaskStep

\* What is to be copied next.
LEMMA NextTask ==
  ASSUME FInv, NEW r \in Requests, pc[r] \in {"copy", "entries"}
  PROVE  /\ work[r] \in Seq(Tasks) /\ work[r] # <<>> /\ Task(r) \in Tasks /\ Tail(work[r]) \in Seq(Tasks)
         /\ Task(r).from \in Seq(STRING) /\ Task(r).to \in Seq(STRING)
<1>1. work[r] \in Seq(Tasks) /\ work[r] # <<>> BY DEF FInv, WorkOK
<1>2. Task(r) \in Tasks /\ Tail(work[r]) \in Seq(Tasks) BY <1>1, FirstAndOthers DEF Task
<1>3. Task(r).from \in Seq(STRING) /\ Task(r).to \in Seq(STRING) BY <1>2 DEF Tasks
<1> QED BY <1>1, <1>2, <1>3

\* A directory is made to copy into.
LEMMA CopyDirectoryKeeps ==
  ASSUME FInv, NEW r \in Requests, CopyDirectory(r)
  PROVE  FInv'
<1>1. UNCHANGED <<content, op, work>> /\ pc[r] = "copy" /\ Task(r).kind = "dir" BY DEF CopyDirectory
<1>2. Rooted(tree, content) /\ Domains BY DEF FInv, TreeOK
<1>3. WorkOf(r) BY <1>1, <1>2 DEF WorkOf, Domains
<1>4. (\E code : Answer(r, code)) \/ Continue(r, "entries") BY DEF CopyDirectory
<1>5. Moves(r) BY <1>4 DEF Moves
<1>6. /\ work[r] \in Seq(Tasks) /\ work[r] # <<>> /\ Task(r) \in Tasks /\ Task(r).to \in Seq(STRING)
  BY <1>1, NextTask
<1>7. WorkFits(r)
  <2>1. pc'[r] \in {"answered", "entries"} BY <1>1, <1>3, <1>4, <1>5, MovesAlone
  <2> QED BY <1>1, <1>6, <2>1 DEF WorkFits
<1>8. Rooted(tree', content)
  <2>1. CASE tree' = tree BY <1>2, <2>1
  <2>2. CASE IsDir(Parent(Task(r).to)) /\ ~Exists(Task(r).to) /\ tree' = With(tree, Task(r).to, Dir)
    <3>1. Fits(content, Task(r).to, Dir)
      <4>1. 0 \in 0..Len(content)
        <5>1. Len(content) \in Nat BY LenProperties DEF FInv, ContentOK
        <5> QED BY <5>1
      <4>2. Task(r).to = <<>> \/ Last(Task(r).to) \notin Range(TempName) BY <1>1, <1>6 DEF Tasks
      <4> QED BY <4>1, <4>2 DEF Fits, Dir
    <3> QED BY <1>2, <1>6, <2>2, <3>1, TreeWith DEF IsDir, Exists
  <2> QED BY <2>1, <2>2 DEF CopyDirectory
<1> QED BY <1>1, <1>3, <1>5, <1>7, <1>8, TaskStep

\* Its entries are to be copied: none is a directory with the name of a temporary file.
LEMMA CopyEntriesKeeps ==
  ASSUME FInv, NEW r \in Requests, CopyEntries(r)
  PROVE  FInv'
<1>1. UNCHANGED <<tree, content, op>> /\ pc[r] = "entries" BY DEF CopyEntries
<1>2. Rooted(tree, content) /\ Rooted(tree', content) /\ Domains BY <1>1 DEF FInv, TreeOK
<1>3. work[r] \in Seq(Tasks) /\ work[r] # <<>> /\ Tail(work[r]) \in Seq(Tasks) /\ Task(r).to \in Seq(STRING)
  BY <1>1, NextTask
<1>4. CASE Answer(r, "internal") /\ work' = work
  <2>1. EndsOrGoesOn(r) BY <1>4 DEF EndsOrGoesOn
  <2> QED BY <1>1, <1>2, <1>4, <2>1, TreeStep
<1>5. CASE CopyEntries(r) /\ IsDir(Task(r).from)
  <2> DEFINE Of(q) == [kind |-> IF IsDir(q) THEN "dir" ELSE "file", from |-> q, to |-> Append(Task(r).to, Last(q))]
             S == {Of(q) : q \in Children(Task(r).from)}
  <2>1. Proceed(r, SetToSeq(S)) BY <1>5 DEF CopyEntries
  <2>2. S \subseteq Tasks
    <3> SUFFICES ASSUME NEW q \in Children(Task(r).from) PROVE Of(q) \in Tasks OBVIOUS
    <3>1. q \in DOMAIN tree /\ q # <<>> BY DEF Children
    <3>2. q \in Seq(STRING) /\ Fits(content, q, tree[q]) BY <1>2, <3>1 DEF Rooted
    <3>3. Last(q) \in STRING
      <4>1. Len(q) \in 1..Len(q)
        <5>1. Len(q) \in Nat \ {0} BY <3>1, <3>2, EmptySeq
        <5> QED BY <5>1
      <4> QED BY <3>2, <4>1 DEF Last
    <3>4. Append(Task(r).to, Last(q)) \in Seq(STRING) /\ Last(Append(Task(r).to, Last(q))) = Last(q)
      BY <1>3, <3>3, OneLonger
    <3>5. IsDir(q) => Last(q) \notin Range(TempName) BY <3>1, <3>2 DEF Fits, IsDir
    <3>6. /\ Of(q) \in [kind : {"dir", "file"}, from : Seq(STRING), to : Seq(STRING)]
          /\ Of(q).kind = "dir" => IsDir(q)
          /\ Of(q).to = Append(Task(r).to, Last(q))
      BY <3>2, <3>4
    <3> HIDE DEF Of
    <3> QED BY <3>4, <3>5, <3>6 DEF Tasks
  <2>3. IsFiniteSet(S)
    <3>1. IsFiniteSet(DOMAIN tree) BY <1>2 DEF Rooted
    <3>2. IsFiniteSet(Children(Task(r).from)) BY <3>1, FS_Subset DEF Children
    <3> DEFINE f == [q \in Children(Task(r).from) |-> Of(q)]
    <3>3. f \in Surjection(Children(Task(r).from), S) BY DEF Surjection
    <3> HIDE DEF f, S
    <3> QED BY <3>2, <3>3, FS_Surjection
  <2> HIDE DEF S
  <2>4. SetToSeq(S) \in Seq(Tasks) BY <2>2, <2>3, InSequence
  <2>5. /\ WorkOf(r) /\ Moves(r) /\ (pc'[r] = "copy" \/ pc'[r] = "answered")
        /\ (pc'[r] = "copy" => work'[r] \in Seq(Tasks) /\ work'[r] # <<>>)
    BY <1>3, <2>1, <2>4, Proceeds
  <2>6. WorkFits(r) BY <2>5 DEF WorkFits
  <2> QED BY <1>1, <1>2, <2>5, <2>6, TaskStep
<1> QED BY <1>4, <1>5 DEF CopyEntries

\* A copied file is created, empty, where nothing is.
LEMMA CopyOpenKeeps ==
  ASSUME FInv, NEW r \in Requests, CopyOpen(r)
  PROVE  FInv'
<1>1. op' = op /\ pc[r] = "copy" BY DEF CopyOpen
<1>2. Rooted(tree, content) /\ Domains /\ content \in Seq(Entry) BY DEF FInv, TreeOK, ContentOK
<1>3. Tail(work[r]) \in Seq(Tasks) /\ Task(r).to \in Seq(STRING) BY <1>1, NextTask
<1>4. CASE (\E code : Answer(r, code)) /\ UNCHANGED <<tree, content, work>>
  BY <1>1, <1>2, <1>4, TreeStep DEF EndsOrGoesOn
<1> DEFINE k == Len(content) + 1
           open == [kind |-> "open", from |-> tree[Task(r).from], to |-> k, at |-> Task(r).to]
           new == [data |-> NoData, whole |-> FALSE, by |-> "copy"]
<1>5. CASE /\ IsFile(Task(r).from) /\ IsDir(Parent(Task(r).to)) /\ ~Exists(Task(r).to)
           /\ tree' = With(tree, Task(r).to, k) /\ content' = Append(content, new)
           /\ work' = [work EXCEPT ![r] = <<open>> \o Tail(@)]
           /\ Continue(r, "data")
  <2>1. /\ content' \in Seq(Entry) /\ Len(content) \in Nat /\ Len(content') = k
        /\ \A i \in 1..Len(content) : content'[i] = content[i]
        /\ content'[k] = new
    <3>1. new \in Entry BY DEF Entry
    <3> QED BY <1>2, <1>5, <3>1, OneMore
  <2>2. ~Half(content'[k]) BY <2>1 DEF Half
  <2>3. Moves(r) BY <1>5 DEF Moves
  <2>4. WorkOf(r) /\ work'[r] = <<open>> \o Tail(work[r]) BY <1>2, <1>5 DEF WorkOf, Domains
  <2>5. pc'[r] = "data" /\ Alone(r) /\ AnswerFits(r) BY <1>1, <1>5, <2>3, <2>4, MovesAlone
  <2>6. Task(r)' = open /\ Tail(work'[r]) \in Seq(Tasks)
    <3>1. Head(<<open>> \o Tail(work[r])) = open /\ Tail(<<open>> \o Tail(work[r])) = Tail(work[r])
      BY <1>3, OtherTop
    <3> QED BY <1>3, <2>4, <3>1 DEF Task
  <2>7. tree[Task(r).from] \in 1..Len(content)
    <3>1. tree[Task(r).from] \in 0..Len(content) /\ tree[Task(r).from] # 0
      BY <1>2, <1>5 DEF Rooted, Fits, IsFile, Exists, Dir
    <3> QED BY <2>1, <3>1
  <2>8. Filling(Task(r))'
    <3>1. tree[Task(r).from] \in 1..Len(content') /\ k \in 1..Len(content') BY <2>1, <2>7
    <3> HIDE DEF k
    <3> QED BY <2>6, <3>1 DEF Filling
  <2>9. WorkFits(r) BY <2>5, <2>6, <2>8 DEF WorkFits
  <2>10. FilesKept(r)
    <3>1. ASSUME NEW i \in 1..Len(content'), Half(content'[i])
          PROVE  i <= Len(content) /\ content'[i] = content[i] /\ content[i].data # r
      <4>1. i # k BY <2>2, <3>1
      <4>2. i \in 1..Len(content) BY <2>1, <4>1
      <4>3. Half(content[i]) BY <2>1, <3>1, <4>2
      <4>4. pc[content[i].data] \in {"fill", "answered"} BY <4>2, <4>3 DEF FInv, ContentOK
      <4> QED BY <1>1, <2>1, <4>2, <4>4
    <3>2. Len(content) <= Len(content') BY <2>1
    <3> QED BY <2>1, <3>1, <3>2 DEF FilesKept
  <2>11. Rooted(tree', content')
    <3>1. Len(content) <= Len(content') BY <2>1
    <3>2. \A i \in 1..Len(content) : Half(content'[i]) => Half(content[i]) /\ content'[i].data = content[i].data
      BY <2>1
    <3>3. Rooted(tree, content') BY <1>2, <2>1, <3>1, <3>2, TreeKept
    <3>4. Task(r).to # <<>> BY <1>5, RootParent DEF IsDir, Exists
    <3>5. k \in 0..Len(content') /\ k # Dir BY <2>1 DEF Dir
    <3>6. Fits(content', Task(r).to, k) BY <2>2, <3>4, <3>5 DEF Fits
    <3>7. /\ Parent(Task(r).to) \in DOMAIN tree /\ tree[Parent(Task(r).to)] = Dir
          /\ Task(r).to \notin DOMAIN tree
      BY <1>5 DEF IsDir, Exists
    <3> HIDE DEF k
    <3>8. Rooted(With(tree, Task(r).to, k), content') BY <1>3, <3>3, <3>6, <3>7, TreeWith
    <3> QED BY <1>5, <3>8
  <2> QED BY <2>5, <2>9, <2>10, <2>11, StepKeeps
<1> QED BY <1>4, <1>5 DEF CopyOpen

\* What is copied is put into the file, or the file is removed.
LEMMA CopyDataKeeps ==
  ASSUME FInv, NEW r \in Requests, CopyData(r)
  PROVE  FInv'
<1>1. op' = op /\ pc[r] = "data" BY DEF CopyData
<1>2. Rooted(tree, content) /\ Domains /\ content \in Seq(Entry) BY DEF FInv, TreeOK, ContentOK
<1>3. Task(r).from \in 1..Len(content) /\ Task(r).to \in 1..Len(content) /\ Tail(work[r]) \in Seq(Tasks)
  BY <1>1 DEF FInv, WorkOK, Filling
<1>4. CASE tree' = Removed(Task(r).at) /\ Answer(r, "internal") /\ UNCHANGED <<content, work>>
  <2>1. Rooted(tree', content) BY <1>2, <1>4, TreeRemoved
  <2>2. EndsOrGoesOn(r) BY <1>4 DEF EndsOrGoesOn
  <2> QED BY <1>1, <1>4, <2>1, <2>2, TreeStep
<1> DEFINE k == Task(r).to
           new == [data |-> content[Task(r).from].data, whole |-> content[Task(r).from].whole, by |-> "copy"]
<1>5. CASE content' = [content EXCEPT ![k] = new] /\ Proceed(r, <<>>) /\ tree' = tree
  <2>1. new \in Entry
    <3>1. content[Task(r).from] \in Entry BY <1>2, <1>3
    <3> QED BY <3>1 DEF Entry
  <2>2. Len(content) \in Nat /\ content' \in Seq(Entry) /\ Len(content') = Len(content)
        /\ content'[k] = new /\ \A i \in 1..Len(content) : i # k => content'[i] = content[i]
    BY <1>2, <1>3, <1>5, <2>1, LenProperties, ExceptSeq
  <2>3. ~Half(content'[k]) BY <2>2 DEF Half
  <2>4. /\ WorkOf(r) /\ Moves(r) /\ (pc'[r] = "copy" \/ pc'[r] = "answered")
        /\ (pc'[r] = "copy" => work'[r] \in Seq(Tasks) /\ work'[r] # <<>>)
    <3>1. <<>> \in Seq(Tasks) OBVIOUS
    <3> QED BY <1>3, <1>5, <3>1, Proceeds
  <2>5. WorkFits(r) BY <2>4 DEF WorkFits
  <2>6. Alone(r) /\ AnswerFits(r) BY <1>1, <2>4, MovesAlone
  <2>7. FilesKept(r)
    <3>1. ASSUME NEW i \in 1..Len(content'), Half(content'[i])
          PROVE  i <= Len(content) /\ content'[i] = content[i] /\ content[i].data # r
      <4>1. i # k /\ i \in 1..Len(content) BY <2>2, <2>3, <3>1
      <4>2. Half(content[i]) BY <2>2, <3>1, <4>1
      <4>3. pc[content[i].data] \in {"fill", "answered"} BY <4>1, <4>2 DEF FInv, ContentOK
      <4> QED BY <1>1, <2>2, <4>1, <4>3
    <3>2. Len(content) <= Len(content') BY <2>2
    <3> QED BY <2>2, <3>1, <3>2 DEF FilesKept
  <2>8. Rooted(tree', content')
    <3>1. \A i \in 1..Len(content) : Half(content'[i]) => Half(content[i]) /\ content'[i].data = content[i].data
      BY <2>2, <2>3
    <3>2. Len(content) <= Len(content') BY <2>2
    <3> QED BY <1>2, <1>5, <2>2, <3>1, <3>2, TreeKept
  <2> QED BY <2>5, <2>6, <2>7, <2>8, StepKeeps
<1> QED BY <1>4, <1>5 DEF CopyData

\* A temporary file is created, empty.
LEMMA CreateTempKeeps ==
  ASSUME FInv, NEW r \in Requests, CreateTemp(r)
  PROVE  FInv'
<1>1. op' = op /\ pc[r] = "temp" BY DEF CreateTemp
<1>2. Rooted(tree, content) /\ Domains /\ content \in Seq(Entry) BY DEF FInv, TreeOK, ContentOK
<1>3. /\ Temp(r) \in Seq(STRING) /\ Temp(r) # <<>>
      /\ Parent(Temp(r)) = Parent(op[r].path) /\ Last(Temp(r)) = TempName[r]
  BY <1>1, Named, TempIs
<1>4. CASE Answer(r, "internal") /\ UNCHANGED <<tree, content, work>>
  <2>1. EndsOrGoesOn(r) BY <1>4 DEF EndsOrGoesOn
  <2> QED BY <1>1, <1>2, <1>4, <2>1, TreeStep
<1> DEFINE k == Len(content) + 1
           open == [kind |-> "open", to |-> k]
           new == [data |-> r, whole |-> FALSE, by |-> "write"]
<1>5. CASE /\ IsDir(Parent(op[r].path))
           /\ tree' = With(tree, Temp(r), k) /\ content' = Append(content, new)
           /\ work' = [work EXCEPT ![r] = <<open>>]
           /\ Continue(r, "fill")
  <2>1. /\ content' \in Seq(Entry) /\ Len(content) \in Nat /\ Len(content') = k
        /\ \A i \in 1..Len(content) : content'[i] = content[i]
        /\ content'[k] = new
    <3>1. new \in Entry BY DEF Entry
    <3> QED BY <1>2, <1>5, <3>1, OneMore
  <2>2. content'[k].data = r BY <2>1
  <2>3. Moves(r) BY <1>5 DEF Moves
  <2>4. WorkOf(r) /\ work'[r] = <<open>> BY <1>2, <1>5 DEF WorkOf, Domains
  <2>5. pc'[r] = "fill" /\ Alone(r) /\ AnswerFits(r) BY <1>1, <1>5, <2>3, <2>4, MovesAlone
  <2>6. Task(r)'.to = k /\ k \in 1..Len(content') BY <2>1, <2>4 DEF Task
  <2>7. WorkFits(r) BY <2>5, <2>6 DEF WorkFits
  <2>8. FilesKept(r)
    <3>1. ASSUME NEW i \in 1..Len(content'), Half(content'[i]), i # k
          PROVE  i <= Len(content) /\ content'[i] = content[i] /\ content[i].data # r
      <4>2. i \in 1..Len(content) BY <2>1, <3>1
      <4>3. Half(content[i]) BY <2>1, <3>1, <4>2
      <4>4. pc[content[i].data] \in {"fill", "answered"} BY <4>2, <4>3 DEF FInv, ContentOK
      <4> QED BY <1>1, <2>1, <4>2, <4>4
    <3>2. Len(content) <= Len(content') BY <2>1
    <3> HIDE DEF k
    <3> QED BY <2>1, <2>2, <2>5, <2>6, <3>1, <3>2 DEF FilesKept
  <2>9. Rooted(tree', content')
    <3>1. Len(content) <= Len(content') BY <2>1
    <3>2. \A i \in 1..Len(content) : Half(content'[i]) => Half(content[i]) /\ content'[i].data = content[i].data
      BY <2>1
    <3>3. Rooted(tree, content') BY <1>2, <2>1, <3>1, <3>2, TreeKept
    <3>4. k \in 0..Len(content') /\ k # Dir BY <2>1 DEF Dir
    <3>5. TempName[r] \in Range(TempName) BY AssFilesAssumption DEF Range
    <3>6. Fits(content', Temp(r), k) BY <1>3, <2>2, <3>4 DEF Fits
    <3>7. Parent(Temp(r)) \in DOMAIN tree /\ tree[Parent(Temp(r))] = Dir BY <1>3, <1>5 DEF IsDir, Exists
    <3>8. Temp(r) \in DOMAIN tree => tree[Temp(r)] # Dir BY <1>2, <1>3, <3>5 DEF Rooted, Fits
    <3> HIDE DEF k
    <3>9. Rooted(With(tree, Temp(r), k), content') BY <1>3, <3>3, <3>6, <3>7, <3>8, TreeWith
    <3> QED BY <1>5, <3>9
  <2> QED BY <2>5, <2>7, <2>8, <2>9, StepKeeps
<1> QED BY <1>4, <1>5 DEF CreateTemp

\* It is written, and is whole, or is left as it is.
LEMMA WriteTempKeeps ==
  ASSUME FInv, NEW r \in Requests, WriteTemp(r)
  PROVE  FInv'
<1>1. op' = op /\ pc[r] = "fill" BY DEF WriteTemp
<1>2. Rooted(tree, content) /\ Domains /\ content \in Seq(Entry) /\ Len(content) \in Nat
  BY LenProperties DEF FInv, TreeOK, ContentOK
<1> DEFINE k == Task(r).to
<1>3. k \in 1..Len(content) BY <1>1 DEF FInv, WorkOK
<1>4. WorkOf(r) BY <1>2 DEF WriteTemp, WorkOf, Domains
<1>5. Moves(r) BY DEF WriteTemp, Moves
<1>6. Alone(r) /\ AnswerFits(r) BY <1>1, <1>4, <1>5, MovesAlone
<1>7. pc'[r] \in {"answered", "replace"} BY <1>1, <1>4, <1>5, MovesAlone DEF WriteTemp
<1>8. WorkFits(r) BY <1>7 DEF WorkFits
<1>9. CASE content' = [content EXCEPT ![k].whole = TRUE] /\ tree' = tree
  <2>1. /\ content' \in Seq(Entry) /\ Len(content') = Len(content)
        /\ content'[k].whole /\ \A i \in 1..Len(content) : i # k => content'[i] = content[i]
    <3> DEFINE new == [content[k] EXCEPT !.whole = TRUE]
    <3>1. new \in Entry /\ new.whole
      <4>1. content[k] \in Entry BY <1>2, <1>3
      <4> QED BY <4>1 DEF Entry
    <3>2. content' = [content EXCEPT ![k] = new] BY <1>9
    <3> HIDE DEF new
    <3> QED BY <1>2, <1>3, <3>1, <3>2, ExceptSeq
  <2>2. \A i \in 1..Len(content) : Half(content'[i]) => i # k /\ content'[i] = content[i] BY <2>1 DEF Half
  <2>3. FilesKept(r)
    <3>1. ASSUME NEW i \in 1..Len(content'), Half(content'[i])
          PROVE  i <= Len(content) /\ content'[i] = content[i] /\ content[i].data # r
      <4>1. i \in 1..Len(content) BY <2>1
      <4>2. i # k /\ content'[i] = content[i] BY <2>2, <3>1, <4>1
      <4>3. pc[content[i].data] = "fill" => Task(content[i].data).to = i BY <3>1, <4>1, <4>2 DEF FInv, ContentOK
      <4> QED BY <1>1, <1>2, <4>1, <4>2, <4>3
    <3>2. Len(content) <= Len(content') BY <1>2, <2>1
    <3> QED BY <2>1, <3>1, <3>2 DEF FilesKept
  <2>4. Rooted(tree', content')
    <3>1. Len(content) <= Len(content') BY <1>2, <2>1
    <3> QED BY <1>2, <1>9, <2>1, <2>2, <3>1, TreeKept
  <2> QED BY <1>6, <1>8, <2>3, <2>4, StepKeeps
<1>10. CASE tree' = Removed(Temp(r)) /\ Answer(r, "internal") /\ content' = content
  <2>1. Rooted(tree', content') BY <1>2, <1>10, TreeRemoved
  <2>2. pc'[r] = "answered" BY <1>2, <1>10, Answers
  <2>3. FilesKept(r)
    <3>1. Len(content) <= Len(content') BY <1>2, <1>10
    <3>2. \A i \in 1..Len(content') : i <= Len(content) /\ content'[i] = content[i] BY <1>2, <1>10
    <3> QED BY <1>2, <1>10, <2>2, <3>1, <3>2 DEF FilesKept
  <2> QED BY <1>6, <1>8, <2>1, <2>3, StepKeeps
<1> QED BY <1>9, <1>10 DEF WriteTemp

\* What a request of the agent does concerns itself.
LEMMA ServedKeeps ==
  ASSUME FInv, NEW r \in Requests, Serve(r)
  PROVE  FInv'
BY LookingKeeps, PreparingKeeps, MkdirKeeps, RenameKeeps, ReplaceKeeps, ShellMkdirKeeps, ReadingKeeps, ListingKeeps,
   DeletingKeeps, CopyPathKeeps, CopyDirectoryKeeps, CopyEntriesKeeps, CopyOpenKeeps, CopyDataKeeps, CreateTempKeeps,
   WriteTempKeeps DEF Serve

\* A request that was asked is served, and stays one.
Asked(r) == op' = op /\ pc[r] # "none" /\ \E at : at # "none" /\ pc' = [pc EXCEPT ![r] = at]

\* Nothing is served that was not asked.
LEMMA ServedWasAsked ==
  ASSUME NEW r \in Requests, Serve(r)
  PROVE  Asked(r)
<1>1. ASSUME NEW code, Answer(r, code) PROVE \E at : at # "none" /\ pc' = [pc EXCEPT ![r] = at]
  BY <1>1 DEF Answer
<1>2. ASSUME NEW result, AnswerWith(r, result) PROVE \E at : at # "none" /\ pc' = [pc EXCEPT ![r] = at]
  BY <1>2 DEF AnswerWith
<1>3. ASSUME NEW at, at # "none", Continue(r, at) PROVE \E a : a # "none" /\ pc' = [pc EXCEPT ![r] = a]
  BY <1>3 DEF Continue
<1>4. ASSUME NEW p, NEW b, NEW at, at # "none", WithParent(r, p, b, at)
      PROVE  (\E code : Answer(r, code)) \/ Continue(r, at)
  BY <1>4 DEF WithParent
<1>5. ASSUME NEW others, Proceed(r, others)
      PROVE  (\E code : Answer(r, code)) \/ Continue(r, "copy")
  BY <1>5 DEF Proceed
<1>6. CASE ReadFile(r) \/ FSTree(r) \/ RenamePath(r) \/ ShellDirectory(r)
  BY <1>1, <1>3, <1>6 DEF ReadFile, FSTree, RenamePath, ShellDirectory, Handles, Asked
<1>7. CASE WriteTextFile(r) BY <1>1, <1>3, <1>4, <1>7 DEF WriteTextFile, Handles, Asked, IsFile, IsDir
<1>8. CASE WriteBinaryFile(r) BY <1>1, <1>3, <1>4, <1>8 DEF WriteBinaryFile, Handles, Asked, IsFile, IsDir
<1>9. CASE CreateDirectory(r) BY <1>1, <1>3, <1>4, <1>9 DEF CreateDirectory, Handles, Asked
<1>10. CASE Mkdir(r) \/ Rename(r) \/ Replace(r) \/ ShellMkdir(r)
  BY <1>1, <1>3, <1>10 DEF Mkdir, Rename, Replace, ShellMkdir, Asked
<1>11. CASE ReadWorkspaceFile(r)
  BY <1>1, <1>2, <1>11 DEF ReadWorkspaceFile, Asked
<1>12. CASE ListDirectory(r)
  <2>1. op' = op /\ pc[r] # "none" BY <1>12 DEF ListDirectory
  <2>2. Answer(r, "internal") \/ pc' = [pc EXCEPT ![r] = "prefetch"] BY <1>12 DEF ListDirectory
  <2> QED BY <1>1, <2>1, <2>2 DEF Asked
<1>13. CASE Prefetch(r) BY <1>2, <1>13 DEF Prefetch, Asked
<1>14. CASE DeletePath(r) \/ RemoveAll(r) BY <1>1, <1>3, <1>14 DEF DeletePath, RemoveAll, Handles, Asked
<1>15. CASE CopyPath(r) \/ CopyDirectory(r) BY <1>1, <1>3, <1>15 DEF CopyPath, CopyDirectory, Handles, Asked
<1>16. CASE CopyEntries(r)
  <2>1. op' = op /\ pc[r] # "none" /\ (Answer(r, "internal") \/ \E others : Proceed(r, others)) BY <1>16 DEF CopyEntries
  <2> QED BY <1>1, <1>3, <1>5, <2>1 DEF Asked
<1>17. CASE CopyOpen(r) BY <1>1, <1>3, <1>17 DEF CopyOpen, Asked
<1>18. CASE CopyData(r)
  <2>1. op' = op /\ pc[r] # "none" /\ (Answer(r, "internal") \/ \E others : Proceed(r, others)) BY <1>18 DEF CopyData
  <2> QED BY <1>1, <1>3, <1>5, <2>1 DEF Asked
<1>19. CASE CreateTemp(r) \/ WriteTemp(r) BY <1>1, <1>3, <1>19 DEF CreateTemp, WriteTemp, Asked
<1> QED BY <1>6, <1>7, <1>8, <1>9, <1>10, <1>11, <1>12, <1>13, <1>14, <1>15, <1>16, <1>17, <1>18, <1>19 DEF Serve

\* At first there are the files of before, all whole.
LEMMA FilesInit == FInit => FInv
<1> SUFFICES ASSUME FInit PROVE FInv OBVIOUS
<1> DEFINE n == Cardinality({p \in DOMAIN Tree0 : Tree0[p] # Dir})
           old == [data |-> Old, whole |-> TRUE, by |-> "write"]
<1>1. tree = Tree0 /\ content = [i \in 1..n |-> old] BY DEF FInit
<1>2. n \in Nat
  <2>1. IsFiniteSet(DOMAIN Tree0) BY AssFilesAssumption
  <2>2. IsFiniteSet({p \in DOMAIN Tree0 : Tree0[p] # Dir}) BY <2>1, FS_Subset
  <2> QED BY <2>2, FS_CardinalityType
<1>3. content \in Seq(Entry) /\ Len(content) = n /\ \A i \in 1..n : ~Half(content[i])
  <2> HIDE DEF n
  <2>1. old \in Entry BY DEF Entry
  <2>2. ~Half(old) BY DEF Half
  <2> HIDE DEF old
  <2> QED BY <1>1, <1>2, <2>1, <2>2
<1>4. ContentOK BY <1>3 DEF ContentOK
<1>5. TreeOK
  <2>1. /\ IsFiniteSet(DOMAIN tree) /\ DOMAIN tree \subseteq Seq(STRING)
        /\ \A p \in DOMAIN tree : \A i \in 0..Len(p) - 1 : SubSeq(p, 1, i) \in DOMAIN tree /\ tree[SubSeq(p, 1, i)] = Dir
    BY <1>1, AssFilesAssumption
  <2>2. ASSUME NEW p \in DOMAIN tree PROVE Fits(content, p, tree[p])
    <3>1. tree[p] \in 0..n /\ (p = <<>> => tree[p] = Dir) BY <1>1, AssFilesAssumption
    <3>2. p # <<>> => Last(p) \notin Range(TempName) BY <1>1, AssFilesAssumption
    <3>3. tree[p] # Dir => ~Half(content[tree[p]])
      <4>1. tree[p] # Dir => tree[p] \in 1..n
        <5> HIDE DEF n
        <5> QED BY <1>2, <3>1 DEF Dir
      <4> QED BY <1>3, <4>1
    <3> HIDE DEF n
    <3> QED BY <1>3, <3>1, <3>2, <3>3 DEF Fits
  <2> QED BY <2>1, <2>2 DEF TreeOK, Rooted
<1>6. Domains /\ OpsOK /\ WorkOK /\ AnswersOK BY DEF FInit, Domains, OpsOK, WorkOK, AnswersOK
<1> QED BY <1>4, <1>5, <1>6 DEF FInv

\* What is said of the files is said of them alone.
LEMMA FilesStay ==
  ASSUME FInv, UNCHANGED fvars
  PROVE  FInv'
BY DEF FInv, fvars, TreeOK, ContentOK, OpsOK, WorkOK, AnswersOK, Domains, Task, Filling, Rooted, Hidden

\* A request that is asked of the agent.
LEMMA AskKeeps ==
  ASSUME FInv, NEW r \in Requests, NEW o, OpOK(o), Ask(r, o)
  PROVE  FInv'
<1>1. /\ UNCHANGED <<tree, content, work, answer>> /\ pc[r] = "none"
      /\ pc' = [pc EXCEPT ![r] = "new"] /\ op' = [op EXCEPT ![r] = o]
  BY DEF Ask
<1>2. Domains' BY <1>1 DEF FInv, Domains
<1>3. /\ pc'[r] = "new" /\ op'[r] = o
      /\ \A s \in Requests : s # r => pc'[s] = pc[s] /\ op'[s] = op[s]
  BY <1>1 DEF FInv, Domains
<1>4. TreeOK' BY <1>1 DEF FInv, TreeOK, Rooted
<1>5. ContentOK' BY <1>1, <1>3 DEF FInv, ContentOK, Task
<1>6. OpsOK' BY <1>3 DEF FInv, OpsOK
<1>7. WorkOK' BY <1>1, <1>3 DEF FInv, WorkOK, Task, Filling
<1>8. AnswersOK' BY <1>1, <1>3 DEF FInv, AnswersOK, Hidden
<1> QED BY <1>2, <1>4, <1>5, <1>6, <1>7, <1>8 DEF FInv

-----------------------------------------------------------------------------
(* The console's steps *)

\* A request of the console goes on, and no other.
Became(u, at, n, o) ==
  /\ DOMAIN console' = Users /\ \A v \in Users : v # u => console'[v] = console[v]
  /\ DOMAIN console'[u] = {"pc", "attempt", "op", "code"}
  /\ console'[u].pc = at /\ console'[u].attempt = n /\ console'[u].op = o

\* What a request makes of itself concerns itself.
LEMMA OnceKept ==
  ASSUME KInv, NEW u \in Users, NEW at, NEW n, NEW o, Became(u, at, n, o),
         \A v \in Users, i \in {1, 2} : v # u => pc'[<<v, i>>] = pc[<<v, i>>] /\ op'[<<v, i>>] = op[<<v, i>>],
         Once(u)'
  PROVE  KInv'
<1>1. ASSUME NEW v \in Users, v # u PROVE Once(v)'
  <2>1. /\ console'[v] = console[v]
        /\ pc'[<<v, 1>>] = pc[<<v, 1>>] /\ pc'[<<v, 2>>] = pc[<<v, 2>>] /\ op'[<<v, 1>>] = op[<<v, 1>>]
    BY <1>1 DEF Became
  <2>2. Once(v) BY DEF KInv
  <2> QED BY <2>1, <2>2 DEF Once
<1> QED BY <1>1 DEF KInv, Became

\* The request ends.
LEMMA Finishes ==
  ASSUME KInv, NEW u \in Users, NEW code, Finish(u, code)
  PROVE  Became(u, "done", console[u].attempt, console[u].op)
<1>1. DOMAIN console = Users /\ DOMAIN console[u] = {"pc", "attempt", "op", "code"} BY DEF KInv, Once
<1> QED BY <1>1 DEF Finish, Became

\* A request that ends keeps what was known of its calls.
LEMMA Ends ==
  ASSUME KInv, UNCHANGED fvars, NEW u \in Users, NEW code, Finish(u, code)
  PROVE  KInv'
<1>1. Became(u, "done", console[u].attempt, console[u].op) BY Finishes
<1>2. Once(u) BY DEF KInv
<1>3. Once(u)' BY <1>1, <1>2 DEF Once, Became, fvars
<1> QED BY <1>1, <1>3, OnceKept DEF fvars

\* The environment is restored, or the request ends, after a first call that
\* never arrived or was a script's.
LEMMA Restores ==
  ASSUME KInv, UNCHANGED fvars, NEW u \in Users, Unavailable(u), console[u].pc \in {"call", "wait"},
         console[u].attempt = 1 => pc[<<u, 1>>] = "none" \/ op[<<u, 1>>].kind = "shellMkdir"
  PROVE  KInv'
<1>1. Once(u) BY DEF KInv
<1>2. CASE console[u].attempt = 1
  <2>1. console' = [console EXCEPT ![u].pc = "restore"] BY <1>2 DEF Unavailable
  <2>2. DOMAIN console = Users BY DEF KInv
  <2>3. Became(u, "restore", 1, console[u].op) BY <1>1, <1>2, <2>1, <2>2 DEF Once, Became
  <2>4. Once(u)' BY <1>1, <1>2, <2>3 DEF Once, Became, fvars, OpOK, Plain
  <2> QED BY <2>3, <2>4, OnceKept DEF fvars
<1>3. CASE console[u].attempt # 1 BY <1>3, Ends DEF Unavailable
<1> QED BY <1>2, <1>3

\* A request of the console names no temporary file.
LEMMA PathsPlain == ASSUME NEW p \in Paths PROVE Plain(p)
<1>1. p \in Seq(STRING) /\ Range(p) \cap Range(TempName) = {} BY WorkspaceAssumption
<1>2. \A i \in 1..Len(p) : p[i] \in Range(p) BY <1>1 DEF Range
<1> QED BY <1>1, <1>2 DEF Plain

\* What arrives is asked once.
LEMMA BeginKeeps ==
  ASSUME KInv, NEW u \in Users, NEW o, OpOK(o), Begin(u, o)
  PROVE  KInv' /\ UNCHANGED fvars
<1>1. UNCHANGED fvars /\ console[u].pc = "new" BY DEF Begin
<1>2. Once(u) /\ DOMAIN console = Users BY DEF KInv
<1>3. CASE console' = [console EXCEPT ![u] = [pc |-> "call", attempt |-> 1, op |-> o, code |-> "none"]]
  <2>1. Became(u, "call", 1, o) BY <1>2, <1>3 DEF Became
  <2>2. Once(u)' BY <1>1, <1>2, <2>1 DEF Once, Became, fvars, OpOK, Plain
  <2> QED BY <1>1, <2>1, <2>2, OnceKept DEF fvars
<1>4. CASE console' = [console EXCEPT ![u] = [@ EXCEPT !.pc = "done", !.code = "refused"]]
  <2>1. Finish(u, "refused") BY <1>4 DEF Finish
  <2> QED BY <1>1, <2>1, Ends
<1> QED BY <1>1, <1>3, <1>4 DEF Begin

\* Each handler asks for something that names no temporary file.
LEMMA ArriveKeeps ==
  ASSUME KInv, NEW u \in Users, Arrive(u)
  PROVE  KInv' /\ UNCHANGED fvars
<1>1. PICK p \in Paths, q \in Paths, b \in BOOLEAN, c \in BOOLEAN :
        \/ ChatWorkspaceTree(u, p) \/ ChatWorkspaceFile(u, p) \/ DownloadChatWorkspaceFile(u, p)
        \/ SaveChatWorkspaceFile(u, p, b, c) \/ WriteRevision(u, p) \/ UploadChatWorkspaceFile(u, p, b)
        \/ CreateChatWorkspaceDirectory(u, p, b) \/ DeleteChatWorkspacePath(u, p)
        \/ CopyChatWorkspacePath(u, p, q) \/ RenameChatWorkspacePath(u, p, q)
  BY DEF Arrive
<1>2. Plain(p) /\ Plain(q) BY PathsPlain
<1>3. PICK o : OpOK(o) /\ Begin(u, o)
  <2>1. \A k, d : OpOK([kind |-> "write", path |-> p, rev |-> NoData, create |-> k, mkdirP |-> d]) BY <1>2 DEF OpOK
  <2>2. OpOK([WriteRequest(p, FALSE, FALSE) EXCEPT !.rev = Old]) BY <1>2 DEF OpOK, WriteRequest
  <2>3. OpOK(ListTree(p)) /\ OpOK(ReadRequest(p)) /\ OpOK(DeleteRequest(p))
    BY <1>2 DEF OpOK, ListTree, ReadRequest, DeleteRequest
  <2>4. OpOK(UploadRequest(p, TRUE, b)) /\ OpOK(DirectoryRequest(p, b)) BY <1>2 DEF OpOK, UploadRequest, DirectoryRequest
  <2>5. OpOK(CopyRequest(p, q)) /\ OpOK(RenameRequest(p, q)) BY <1>2 DEF OpOK, CopyRequest, RenameRequest
  <2>6. OpOK(WriteRequest(p, b, b /\ c)) BY <2>1 DEF WriteRequest
  <2> QED BY <1>1, <2>2, <2>3, <2>4, <2>5, <2>6
       DEF ChatWorkspaceTree, ChatWorkspaceFile, DownloadChatWorkspaceFile, SaveChatWorkspaceFile, WriteRevision,
           UploadChatWorkspaceFile, CreateChatWorkspaceDirectory, DeleteChatWorkspacePath, CopyChatWorkspacePath,
           RenameChatWorkspacePath
<1> QED BY <1>3, BeginKeeps

\* A call arrives at the agent.
LEMMA CallKeeps ==
  ASSUME FInv, KInv, NEW u \in Users, Call(u)
  PROVE  FInv' /\ KInv'
<1> DEFINE n == console[u].attempt
           o == ViaShell(console[u].op)
<1>1. Once(u) /\ DOMAIN console = Users BY DEF KInv
<1>2. console[u].pc = "call" /\ console' = [console EXCEPT ![u].pc = "wait"] /\ Ask(<<u, n>>, o) BY DEF Call, CallOf
<1>3. n \in {1, 2} /\ <<u, n>> \in Requests BY <1>1, WorkspaceAssumption DEF Once
<1>4. OpOK(console[u].op) BY <1>1, <1>2 DEF Once
<1>5. OpOK(o)
  <2>1. CASE o = console[u].op BY <1>4, <2>1
  <2>2. CASE o = [console[u].op EXCEPT !.kind = "shellMkdir"] /\ console[u].op.kind = "mkdir"
    <3>1. o.path = console[u].op.path BY <2>2
    <3>2. o.kind \notin {"rename", "copy"}
      <4>1. o.kind = "shellMkdir" \/ o.kind = console[u].op.kind BY <2>2
      <4> HIDE DEF o
      <4> QED BY <2>2, <4>1
    <3> HIDE DEF o
    <3> QED BY <1>4, <3>1, <3>2 DEF OpOK
  <2> QED BY <2>1, <2>2 DEF ViaShell
<1>6. FInv' BY <1>2, <1>3, <1>5, AskKeeps
<1>7. Became(u, "wait", n, console[u].op) BY <1>1, <1>2 DEF Once, Became
<1>8. /\ pc[<<u, n>>] = "none" /\ \A r \in Requests : r # <<u, n>> => pc'[r] = pc[r] /\ op'[r] = op[r]
  BY <1>2, <1>3 DEF Ask, FInv, Domains
<1>9. \A v \in Users, i \in {1, 2} : v # u => pc'[<<v, i>>] = pc[<<v, i>>] /\ op'[<<v, i>>] = op[<<v, i>>]
  <2> SUFFICES ASSUME NEW v \in Users, NEW i \in {1, 2}, v # u
               PROVE  pc'[<<v, i>>] = pc[<<v, i>>] /\ op'[<<v, i>>] = op[<<v, i>>]
    OBVIOUS
  <2>1. <<v, i>> \in Requests /\ <<v, i>> # <<u, n>> BY WorkspaceAssumption
  <2> QED BY <1>8, <2>1
<1>10. Once(u)'
  <2>1. <<u, 1>> \in Requests /\ <<u, 2>> \in Requests BY WorkspaceAssumption
  <2>2. CASE n = 1
    <3>1. pc'[<<u, 2>>] = pc[<<u, 2>>] BY <1>8, <2>1, <2>2
    <3>2. pc'[<<u, 2>>] = "none" BY <1>1, <2>2, <3>1 DEF Once
    <3> QED BY <1>4, <1>7, <2>2, <3>2 DEF Once, Became, OpOK, Plain
  <2>3. CASE n = 2
    <3>1. pc'[<<u, 1>>] = pc[<<u, 1>>] /\ op'[<<u, 1>>] = op[<<u, 1>>] BY <1>8, <2>1, <2>3
    <3>2. pc'[<<u, 1>>] = "none" \/ op'[<<u, 1>>].kind = "shellMkdir" BY <1>1, <2>3, <3>1 DEF Once
    <3> QED BY <1>4, <1>7, <2>3, <3>2 DEF Once, Became, OpOK, Plain
  <2> QED BY <1>3, <2>2, <2>3
<1> QED BY <1>6, <1>7, <1>9, <1>10, OnceKept

\* The environment is restored, and the call made again.
LEMMA RestoreKeeps ==
  ASSUME KInv, NEW u \in Users, Restore(u)
  PROVE  KInv'
<1>1. UNCHANGED fvars /\ console[u].pc = "restore" BY DEF Restore
<1>2. Once(u) /\ DOMAIN console = Users BY DEF KInv
<1>3. CASE Finish(u, "error") BY <1>1, <1>3, Ends
<1>4. CASE console' = [console EXCEPT ![u] = [@ EXCEPT !.pc = "call", !.attempt = 2]]
  <2>1. Became(u, "call", 2, console[u].op) BY <1>2, <1>4 DEF Once, Became
  <2>2. Once(u)' BY <1>1, <1>2, <2>1 DEF Once, Became, fvars, OpOK, Plain
  <2> QED BY <1>1, <2>1, <2>2, OnceKept DEF fvars
<1> QED BY <1>3, <1>4 DEF Restore

\* The agent goes on, and the calls that were made are those that were.
LEMMA ServedOnce ==
  ASSUME FInv, KInv, NEW r \in Requests, Serve(r), UNCHANGED console
  PROVE  KInv'
<1>1. PICK at : at # "none" /\ pc' = [pc EXCEPT ![r] = at] BY ServedWasAsked DEF Asked
<1>2. op' = op /\ pc[r] # "none" BY ServedWasAsked DEF Asked
<1>3. \A s \in Requests : pc'[s] = "none" <=> pc[s] = "none" BY <1>1, <1>2 DEF FInv, Domains
<1>4. ASSUME NEW u \in Users PROVE Once(u)'
  <2>1. Once(u) BY DEF KInv
  <2>2. <<u, 1>> \in Requests /\ <<u, 2>> \in Requests BY WorkspaceAssumption
  <2>3. (pc'[<<u, 1>>] = "none" <=> pc[<<u, 1>>] = "none") /\ (pc'[<<u, 2>>] = "none" <=> pc[<<u, 2>>] = "none")
    BY <1>3, <2>2
  <2> QED BY <1>2, <2>1, <2>3 DEF Once, OpOK, Plain
<1> QED BY <1>4 DEF KInv

\* At first nothing is called.
LEMMA RequestsInit == WInit => KInv
<1> SUFFICES ASSUME WInit PROVE KInv OBVIOUS
<1> SUFFICES ASSUME NEW u \in Users PROVE Once(u) BY DEF KInv, WInit
<1>1. <<u, 1>> \in Requests /\ <<u, 2>> \in Requests BY WorkspaceAssumption
<1>2. pc[<<u, 1>>] = "none" /\ pc[<<u, 2>>] = "none" BY <1>1 DEF WInit, FInit
<1>3. /\ DOMAIN console[u] = {"pc", "attempt", "op", "code"} /\ console[u].attempt = 1 /\ console[u].pc = "new"
  BY DEF WInit
<1> QED BY <1>2, <1>3 DEF Once

\* Together the two are inductive.
LEMMA WorkspaceStep ==
  ASSUME FInv, KInv, [WNext]_wvars
  PROVE  FInv' /\ KInv'
<1>1. CASE UNCHANGED wvars
  <2>1. FInv' BY <1>1, FilesStay DEF wvars
  <2>2. KInv' BY <1>1 DEF wvars, fvars, KInv, Once, OpOK, Plain
  <2> QED BY <2>1, <2>2
<1>2. ASSUME NEW u \in Users, Arrive(u) PROVE FInv' /\ KInv'
  <2>1. KInv' /\ UNCHANGED fvars BY <1>2, ArriveKeeps
  <2> QED BY <2>1, FilesStay
<1>3. ASSUME NEW u \in Users, WorkspaceNext(u) PROVE FInv' /\ KInv'
  <2>1. Once(u) BY DEF KInv
  <2>2. CASE Call(u) BY <2>2, CallKeeps
  <2>3. CASE DialFails(u)
    <3>1. UNCHANGED fvars /\ console[u].pc = "call" BY <2>3 DEF DialFails
    <3>2. Finish(u, "error") \/ Unavailable(u) BY <2>3 DEF DialFails
    <3>3. console[u].attempt = 1 => pc[<<u, 1>>] = "none" BY <2>1, <3>1 DEF Once
    <3>4. KInv' BY <3>1, <3>2, <3>3, Ends, Restores
    <3> QED BY <3>1, <3>4, FilesStay
  <2>4. CASE AnswerLost(u) \/ Answered(u)
    <3>1. UNCHANGED fvars /\ console[u].pc = "wait" BY <2>4 DEF AnswerLost, Answered
    <3>2. (\E code : Finish(u, code)) \/ (Unavailable(u) /\ op[CallOf(u)].kind = "shellMkdir")
      <4>1. CASE AnswerLost(u) BY <4>1 DEF AnswerLost
      <4>2. CASE Answered(u)
        <5>1. \/ Unavailable(u) /\ op[CallOf(u)].kind = "shellMkdir"
              \/ Finish(u, answer[CallOf(u)].code)
          BY <4>2 DEF Answered
        <5> QED BY <5>1
      <4> QED BY <2>4, <4>1, <4>2
    <3>3. CASE \E code : Finish(u, code) BY <3>1, <3>3, Ends, FilesStay
    <3>4. CASE Unavailable(u) /\ op[CallOf(u)].kind = "shellMkdir"
      <4>1. console[u].attempt = 1 => op[<<u, 1>>].kind = "shellMkdir" BY <3>4 DEF CallOf
      <4> QED BY <3>1, <3>4, <4>1, Restores, FilesStay
    <3> QED BY <3>2, <3>3, <3>4
  <2>5. CASE Restore(u)
    <3>1. UNCHANGED fvars BY <2>5 DEF Restore
    <3> QED BY <2>5, <3>1, RestoreKeeps, FilesStay
  <2> QED BY <1>3, <2>2, <2>3, <2>4, <2>5 DEF WorkspaceNext
<1>4. ASSUME NEW r \in Requests, Serve(r), UNCHANGED <<console, current>> PROVE FInv' /\ KInv'
  BY <1>4, ServedKeeps, ServedOnce
<1> QED BY <1>1, <1>2, <1>3, <1>4 DEF WNext

\* What the invariant says of the files that can be seen.
LEMMA FilesAreWhole == FInv => WritesAreWhole
<1> SUFFICES ASSUME FInv PROVE WritesAreWhole OBVIOUS
<1>1. ASSUME NEW p \in DOMAIN tree, IsFile(p), ~Hidden(p), ~content[tree[p]].whole, content[tree[p]].by # "copy"
      PROVE  FALSE
  <2>1. Fits(content, p, tree[p]) BY DEF FInv, TreeOK, Rooted
  <2>2. Len(content) \in Nat /\ content \in Seq(Entry) BY LenProperties DEF FInv, ContentOK
  <2>3. tree[p] \in 1..Len(content)
    <3>1. tree[p] \in 0..Len(content) /\ tree[p] # 0 BY <1>1, <2>1 DEF Fits, IsFile, Dir
    <3> QED BY <2>2, <3>1
  <2>4. Half(content[tree[p]])
    <3>1. content[tree[p]] \in Entry BY <2>2, <2>3
    <3> QED BY <1>1, <3>1 DEF Half, Entry
  <2>5. content[tree[p]].data \in Requests BY <2>3, <2>4 DEF FInv, ContentOK
  <2>6. Last(p) = TempName[content[tree[p]].data] BY <1>1, <2>1, <2>4 DEF Fits, IsFile
  <2>7. TempName[content[tree[p]].data] \in Range(TempName) BY <2>5, AssFilesAssumption DEF Range
  <2> QED BY <1>1, <2>6, <2>7 DEF Hidden
<1>2. \A r \in Requests : "entries" \in DOMAIN answer[r] => \A q \in answer[r].entries : ~Hidden(q)
  BY DEF FInv, AnswersOK
<1> QED BY <1>1, <1>2 DEF WritesAreWhole

\* What a write or an upload puts at a path is there whole at all times, and no
\* listing names a temporary file, whatever is asked of the agent meanwhile
\* (atomicWrite, isHiddenTempPath in ass/server.go).
THEOREM WholeWrites == WSpec => []WritesAreWhole
<1>1. WInit => FInv /\ KInv BY FilesInit, RequestsInit DEF WInit
<1>2. FInv /\ KInv /\ [WNext]_wvars => (FInv /\ KInv)' BY WorkspaceStep
<1>3. FInv => WritesAreWhole BY FilesAreWhole
<1> QED BY <1>1, <1>2, <1>3, PTL DEF WSpec

\* A request is made of the agent a second time only when the first call never
\* reached it, or was made by a script (runCloudAgentASSJSON in
\* workers/cloud_agent_ass.go and the restore in console/chat_workspace.go).
THEOREM CalledOnce == WSpec => []CalledAtMostOnce
<1>1. WInit => FInv /\ KInv BY FilesInit, RequestsInit DEF WInit
<1>2. FInv /\ KInv /\ [WNext]_wvars => (FInv /\ KInv)' BY WorkspaceStep
<1>3. KInv => CalledAtMostOnce BY DEF KInv, Once, CalledAtMostOnce
<1> QED BY <1>1, <1>2, <1>3, PTL DEF WSpec
=============================================================================
