----------------------------- MODULE Fanout_proofs -----------------------------
(***************************************************************************)
(* Lemmas on numbered output that is handed out to subscribers: a replay   *)
(* of the last of it, then one event after another through a channel of    *)
(* limited room, and an end.  Numbers begin with 1, and 0 is the end.  They *)
(* say for each thing that can happen to a line that the lines a           *)
(* subscriber has, those in its channel and those that were lost stay an   *)
(* interval, in order.                                                     *)
(***************************************************************************)
EXTENDS Fanout, SequenceTheorems, TLAPS

\* The number of the last event, which is no line.
EndMark == 0

\* A sequence of lines, the lines in a channel's queue, and those that were lost
\* are the lines from .. top, in order.
Complete(lines, got, queue, lost, from, top) ==
  /\ from <= top + 1
  /\ \A m, n \in 1 .. Len(got) : m < n => got[m] < got[n]
  /\ \A m, n \in 1 .. Len(queue) : m < n /\ queue[n] # EndMark => queue[m] < queue[n]
  /\ \A m \in 1 .. Len(got), n \in 1 .. Len(queue) : queue[n] # EndMark => got[m] < queue[n]
  /\ \A m \in 1 .. Len(got) : got[m] <= top
  /\ \A n \in 1 .. Len(queue) : queue[n] <= top
  /\ \A x \in lines :
       from <= x /\ x <= top
         <=> \/ \E m \in 1 .. Len(got) : got[m] = x
             \/ \E n \in 1 .. Len(queue) : queue[n] = x
             \/ x \in lost

\* The last event is in the queue.
HasEnd(queue) == \E n \in 1 .. Len(queue) : queue[n] = EndMark

-----------------------------------------------------------------------------
\* Joining: the replay, and nothing else yet.
LEMMA Joining ==
  ASSUME NEW lines \in SUBSET (Nat \ {0}), NEW replay \in Seq(lines), NEW size \in Nat, Len(replay) <= size,
         \A n \in 1 .. Len(replay) : replay[n] = size - Len(replay) + n
  PROVE  Complete(lines, replay, <<>>, {}, size - Len(replay) + 1, size)
<1>1. Len(replay) \in Nat /\ Len(<<>>) = 0
  BY LenProperties, EmptySeq
<1>2. \A x \in lines :
        size - Len(replay) + 1 <= x /\ x <= size => \E m \in 1 .. Len(replay) : replay[m] = x
  <2>1. SUFFICES ASSUME NEW x \in lines, size - Len(replay) + 1 <= x, x <= size
                 PROVE  \E m \in 1 .. Len(replay) : replay[m] = x
    OBVIOUS
  <2>2. x - size + Len(replay) \in 1 .. Len(replay) /\ x \in Int
    BY <2>1, <1>1
  <2>3. replay[x - size + Len(replay)] = size - Len(replay) + (x - size + Len(replay))
    BY <2>2
  <2>4. size - Len(replay) + (x - size + Len(replay)) = x
    BY <2>2, <1>1
  <2>. QED BY <2>2, <2>3, <2>4
<1>3. lines \subseteq Int /\ \A n \in 1 .. 0 : FALSE
  OBVIOUS
<1>4. \A n \in 1 .. Len(<<>>) : FALSE
  BY <1>1
<1>. QED BY <1>1, <1>2, <1>3, <1>4 DEF Complete

\* The next line goes into the queue, or is lost.
LEMMA Sending ==
  ASSUME NEW lines \in SUBSET (Nat \ {0}), NEW got \in Seq(lines), NEW queue \in Seq(lines \cup {EndMark}), NEW lost, NEW from \in Int,
         NEW top \in Nat, Complete(lines, got, queue, lost, from, top)
  PROVE  /\ Complete(lines, got, Append(queue, top + 1), lost, from, top + 1)
         /\ Complete(lines, got, queue, lost \cup {top + 1}, from, top + 1)
<1>1. /\ Len(got) \in Nat /\ \A m \in 1 .. Len(got) : got[m] \in Int
      /\ Len(queue) \in Nat /\ \A n \in 1 .. Len(queue) : queue[n] \in Int
      /\ \A x \in lines : x \in Int
  <2>1. /\ \A m \in 1 .. Len(got) : got[m] \in lines
        /\ \A n \in 1 .. Len(queue) : queue[n] \in lines \cup {EndMark}
    BY ElementOfSeq
  <2>2. \A x \in lines \cup {EndMark} : x \in Int
    BY DEF EndMark
  <2>. QED BY <2>1, <2>2, LenProperties
<1>2. /\ Len(Append(queue, top + 1)) = Len(queue) + 1
      /\ \A n \in 1 .. Len(queue) : Append(queue, top + 1)[n] = queue[n]
      /\ Append(queue, top + 1)[Len(queue) + 1] = top + 1
  <2>1. lines \cup {EndMark} \subseteq Int
    BY <1>1 DEF EndMark
  <2>2. queue \in Seq(Int)
    BY <2>1, SeqMonotonic
  <2>. QED BY <2>2, AppendProperties
<1>. DEFINE q == Append(queue, top + 1)
<1>3. \A n \in 1 .. Len(q) : n \in 1 .. Len(queue) \/ n = Len(queue) + 1
  BY <1>1, <1>2
<1>. HIDE DEF q
<1>4. Complete(lines, got, queue, lost \cup {top + 1}, from, top + 1)
  BY <1>1 DEF Complete
<1>5. Complete(lines, got, q, lost, from, top + 1)
  <2>1. \A x : (\E n \in 1 .. Len(q) : q[n] = x) <=> x = top + 1 \/ \E n \in 1 .. Len(queue) : queue[n] = x
    <3>1. Len(queue) + 1 \in 1 .. Len(q) /\ \A n \in 1 .. Len(queue) : n \in 1 .. Len(q)
      BY <1>1, <1>2 DEF q
    <3>. QED BY <3>1, <1>2, <1>3 DEF q
  <2>2. \A m, n \in 1 .. Len(q) : m < n /\ q[n] # EndMark => q[m] < q[n]
    BY <1>1, <1>2, <1>3 DEF q, Complete
  <2>3. \A m \in 1 .. Len(got), n \in 1 .. Len(q) : q[n] # EndMark => got[m] < q[n]
    BY <1>1, <1>2, <1>3 DEF q, Complete
  <2>4. \A n \in 1 .. Len(q) : q[n] <= top + 1
    BY <1>1, <1>2, <1>3 DEF q, Complete
  <2>5. /\ from <= top + 1 + 1
        /\ \A m, n \in 1 .. Len(got) : m < n => got[m] < got[n]
        /\ \A m \in 1 .. Len(got) : got[m] <= top + 1
    BY <1>1 DEF Complete
  <2>6. \A x \in lines :
          from <= x /\ x <= top + 1
            <=> \/ \E m \in 1 .. Len(got) : got[m] = x
                \/ \E n \in 1 .. Len(q) : q[n] = x
                \/ x \in lost
    <3>1. ASSUME NEW x \in lines
          PROVE  from <= x /\ x <= top + 1 <=> x = top + 1 \/ (from <= x /\ x <= top)
      BY <1>1 DEF Complete
    <3>. QED BY <2>1, <3>1 DEF Complete
  <2>. QED BY <2>2, <2>3, <2>4, <2>5, <2>6 DEF Complete
<1>. QED BY <1>4, <1>5 DEF q

\* The end goes into the queue, or is lost.
LEMMA SendingEnd ==
  ASSUME NEW lines \in SUBSET (Nat \ {0}), NEW got \in Seq(lines), NEW queue \in Seq(lines \cup {EndMark}), NEW lost, NEW from \in Int,
         NEW top \in Nat, Complete(lines, got, queue, lost, from, top)
  PROVE  /\ Complete(lines, got, Append(queue, EndMark), lost, from, top)
         /\ Complete(lines, got, queue, lost \cup {EndMark}, from, top)
<1>. DEFINE q == Append(queue, EndMark)
<1>1. /\ Len(queue) \in Nat /\ Len(q) = Len(queue) + 1
      /\ \A n \in 1 .. Len(queue) : q[n] = queue[n]
      /\ q[Len(queue) + 1] = EndMark
  BY LenProperties, AppendProperties
<1>2. \A n \in 1 .. Len(q) : n \in 1 .. Len(queue) \/ n = Len(queue) + 1
  BY <1>1
<1>3. \A x \in lines : x # EndMark
  BY DEF EndMark
<1>. HIDE DEF q
<1>4. Complete(lines, got, queue, lost \cup {EndMark}, from, top)
  BY <1>3 DEF Complete
<1>5. Complete(lines, got, q, lost, from, top)
  <2>1. \A x \in lines : (\E n \in 1 .. Len(q) : q[n] = x) <=> \E n \in 1 .. Len(queue) : queue[n] = x
    BY <1>1, <1>2, <1>3
  <2>2. \A m, n \in 1 .. Len(q) : m < n /\ q[n] # EndMark => q[m] < q[n]
    BY <1>1, <1>2 DEF Complete
  <2>3. \A m \in 1 .. Len(got), n \in 1 .. Len(q) : q[n] # EndMark => got[m] < q[n]
    BY <1>1, <1>2 DEF Complete
  <2>4. \A n \in 1 .. Len(q) : q[n] <= top
    BY <1>1, <1>2 DEF Complete, EndMark
  <2>. QED BY <2>1, <2>2, <2>3, <2>4 DEF Complete
<1>. QED BY <1>4, <1>5 DEF q

\* The head of the queue is given to the stream; the end is not a line.
LEMMA Receiving ==
  ASSUME NEW lines \in SUBSET (Nat \ {0}), NEW got \in Seq(lines), NEW queue \in Seq(lines \cup {EndMark}), NEW lost, NEW from, NEW top,
         queue # <<>>, Complete(lines, got, queue, lost, from, top)
  PROVE  /\ Head(queue) # EndMark => Complete(lines, Append(got, Head(queue)), Tail(queue), lost, from, top)
         /\ Head(queue) = EndMark => Complete(lines, got, Tail(queue), lost, from, top)
<1>. DEFINE line == Head(queue)
            q == Tail(queue)
            g == Append(got, line)
<1>1. /\ Len(queue) \in Nat \ {0} /\ line = queue[1] /\ line \in lines \cup {EndMark}
      /\ Len(q) = Len(queue) - 1
      /\ \A n \in 1 .. Len(q) : q[n] = queue[n + 1]
  <2>1. Len(queue) \in Nat /\ Len(queue) # 0
    BY LenProperties, EmptySeq
  <2>. QED BY <2>1, HeadTailProperties
<1>2. \A n \in 1 .. Len(q) : n + 1 \in 1 .. Len(queue) /\ 1 < n + 1
  BY <1>1
<1>3. \A n \in 1 .. Len(queue) : n = 1 \/ n - 1 \in 1 .. Len(q)
  BY <1>1
<1>4. Len(got) \in Nat
  BY LenProperties
<1>5. \A x : (\E n \in 1 .. Len(queue) : queue[n] = x) <=> x = line \/ \E n \in 1 .. Len(q) : q[n] = x
  <2>1. ASSUME NEW x, NEW n \in 1 .. Len(queue), queue[n] = x
        PROVE  x = line \/ \E m \in 1 .. Len(q) : q[m] = x
    <3>1. CASE n = 1
      BY <3>1, <2>1, <1>1
    <3>2. CASE n - 1 \in 1 .. Len(q)
      <4>1. q[n - 1] = queue[n]
        BY <3>2, <1>1
      <4>. QED BY <4>1, <3>2, <2>1
    <3>. QED BY <3>1, <3>2, <1>3
  <2>2. 1 \in 1 .. Len(queue)
    BY <1>1
  <2>. QED BY <2>1, <2>2, <1>1, <1>2
<1>6. CASE line # EndMark
  <2>1. /\ Len(g) = Len(got) + 1
        /\ \A m \in 1 .. Len(got) : g[m] = got[m]
        /\ g[Len(got) + 1] = line
    BY <1>1, <1>6, AppendProperties
  <2>2. \A m \in 1 .. Len(g) : m \in 1 .. Len(got) \/ m = Len(got) + 1
    BY <1>4, <2>1
  <2>3. \A x : (\E m \in 1 .. Len(g) : g[m] = x) <=> x = line \/ \E m \in 1 .. Len(got) : got[m] = x
    BY <2>1, <2>2, <1>4
  <2>. HIDE DEF line, g, q
  <2>4. 1 \in 1 .. Len(queue)
    BY <1>1
  <2>5. \A m, n \in 1 .. Len(g) : m < n => g[m] < g[n]
    BY <1>1, <1>4, <1>6, <2>1, <2>2, <2>4 DEF Complete
  <2>6. \A m, n \in 1 .. Len(q) : m < n /\ q[n] # EndMark => q[m] < q[n]
    BY <1>1, <1>2 DEF Complete
  <2>7. \A m \in 1 .. Len(g), n \in 1 .. Len(q) : q[n] # EndMark => g[m] < q[n]
    BY <1>1, <1>2, <2>1, <2>2, <2>4 DEF Complete
  <2>8. /\ \A m \in 1 .. Len(g) : g[m] <= top
        /\ \A n \in 1 .. Len(q) : q[n] <= top
    BY <1>1, <1>2, <2>1, <2>2, <2>4 DEF Complete
  <2>9. \A x \in lines :
          from <= x /\ x <= top
            <=> \/ \E m \in 1 .. Len(g) : g[m] = x
                \/ \E n \in 1 .. Len(q) : q[n] = x
                \/ x \in lost
    BY <1>5, <2>3 DEF Complete
  <2>10. Complete(lines, g, q, lost, from, top)
    BY <2>5, <2>6, <2>7, <2>8, <2>9 DEF Complete
  <2>. QED BY <2>10, <1>6 DEF g, q, line
<1>7. CASE line = EndMark
  <2>. HIDE DEF line, q
  <2>1. \A m, n \in 1 .. Len(q) : m < n /\ q[n] # EndMark => q[m] < q[n]
    BY <1>1, <1>2 DEF Complete
  <2>2. \A m \in 1 .. Len(got), n \in 1 .. Len(q) : q[n] # EndMark => got[m] < q[n]
    BY <1>1, <1>2 DEF Complete
  <2>3. \A n \in 1 .. Len(q) : q[n] <= top
    BY <1>1, <1>2 DEF Complete
  <2>4. \A x \in lines : x # EndMark
    BY DEF EndMark
  <2>5. Complete(lines, got, q, lost, from, top)
    BY <1>5, <1>7, <2>1, <2>2, <2>3, <2>4 DEF Complete
  <2>. QED BY <2>5, <1>7 DEF q, line
<1>. QED BY <1>6, <1>7

\* A channel's queue has the end once it was appended, until it is received.
LEMMA EndAppended ==
  ASSUME NEW lines \in SUBSET (Nat \ {0}), NEW queue \in Seq(lines \cup {EndMark}), NEW line \in lines \cup {EndMark}
  PROVE  HasEnd(Append(queue, line)) <=> line = EndMark \/ HasEnd(queue)
<1>1. /\ Len(queue) \in Nat /\ Len(Append(queue, line)) = Len(queue) + 1
      /\ \A n \in 1 .. Len(queue) : Append(queue, line)[n] = queue[n]
      /\ Append(queue, line)[Len(queue) + 1] = line
  BY LenProperties, AppendProperties
<1>2. \A n \in 1 .. Len(queue) + 1 : n \in 1 .. Len(queue) \/ n = Len(queue) + 1
  BY <1>1
<1>3. Len(queue) + 1 \in 1 .. Len(queue) + 1 /\ \A n \in 1 .. Len(queue) : n \in 1 .. Len(queue) + 1
  BY <1>1
<1>. QED BY <1>1, <1>2, <1>3 DEF HasEnd

LEMMA EndTaken ==
  ASSUME NEW lines \in SUBSET (Nat \ {0}), NEW queue \in Seq(lines \cup {EndMark}), queue # <<>>
  PROVE  /\ HasEnd(queue) => Head(queue) = EndMark \/ HasEnd(Tail(queue))
         /\ HasEnd(Tail(queue)) => HasEnd(queue)
<1>. DEFINE q == Tail(queue)
<1>1. /\ Len(queue) \in Nat \ {0} /\ Head(queue) = queue[1]
      /\ Len(q) = Len(queue) - 1
      /\ \A n \in 1 .. Len(q) : q[n] = queue[n + 1]
  <2>1. Len(queue) \in Nat /\ Len(queue) # 0
    BY LenProperties, EmptySeq
  <2>. QED BY <2>1, HeadTailProperties
<1>2. \A n \in 1 .. Len(q) : n + 1 \in 1 .. Len(queue)
  BY <1>1
<1>3. ASSUME NEW n \in 1 .. Len(queue), queue[n] = EndMark, n # 1
      PROVE  HasEnd(q)
  <2>1. n - 1 \in 1 .. Len(q) /\ n - 1 + 1 = n
    BY <1>1, <1>3
  <2>2. q[n - 1] = EndMark
    BY <2>1, <1>1, <1>3
  <2>. QED BY <2>1, <2>2 DEF HasEnd
<1>. HIDE DEF q
<1>4. HasEnd(queue) => Head(queue) = EndMark \/ HasEnd(q)
  BY <1>1, <1>3 DEF HasEnd
<1>5. HasEnd(q) => HasEnd(queue)
  BY <1>1, <1>2 DEF HasEnd
<1>. QED BY <1>4, <1>5 DEF q

\* The last lines of an output that grows by one are its last lines.
LEMMA KeepsTail ==
  ASSUME NEW lines \in SUBSET (Nat \ {0}), NEW replay \in Seq(lines), NEW size \in Nat, size + 1 \in lines,
         NEW limit \in Nat \ {0},
         \A n \in 1 .. Len(replay) : replay[n] = size - Len(replay) + n
  PROVE  LET kept == KeepLast(Append(replay, size + 1), limit)
         IN  /\ kept \in Seq(lines) /\ Len(kept) <= Len(replay) + 1
             /\ \A n \in 1 .. Len(kept) : kept[n] = size + 1 - Len(kept) + n
<1>. DEFINE all == Append(replay, size + 1)
            first == IF Len(all) > limit THEN Len(all) - limit + 1 ELSE 1
            kept == SubSeq(all, first, Len(all))
<1>1. /\ Len(replay) \in Nat /\ limit \in Nat \ {0}
      /\ all \in Seq(lines) /\ Len(all) = Len(replay) + 1
      /\ \A n \in 1 .. Len(replay) : all[n] = replay[n]
      /\ all[Len(replay) + 1] = size + 1
  BY LenProperties, AppendProperties
<1>. HIDE DEF all
<1>2. first \in 1 .. Len(all)
  BY <1>1
<1>3. \A n \in 1 .. Len(all) : all[n] = size + 1 - Len(all) + n
  <2>1. ASSUME NEW n \in 1 .. Len(all)
        PROVE  all[n] = size + 1 - Len(all) + n
    <3>1. CASE n \in 1 .. Len(replay)
      BY <3>1, <1>1
    <3>2. CASE n = Len(replay) + 1
      BY <3>2, <1>1
    <3>. QED BY <3>1, <3>2, <2>1, <1>1
  <2>. QED BY <2>1
<1>4. KeepLast(all, limit) = kept
  BY DEF KeepLast
<1>. HIDE DEF first
<1>5. /\ kept \in Seq(lines) /\ Len(kept) = Len(all) - first + 1
      /\ \A n \in 1 .. Len(all) - first + 1 : kept[n] = all[first + n - 1]
  <2>1. \A n \in first .. Len(all) : all[n] \in lines
    BY <1>1, <1>2, ElementOfSeq
  <2>. QED BY <1>1, <1>2, <2>1, SubSeqProperties
<1>6. \A n \in 1 .. Len(kept) : kept[n] = size + 1 - Len(kept) + n
  <2>1. ASSUME NEW n \in 1 .. Len(kept)
        PROVE  kept[n] = size + 1 - Len(kept) + n
    <3>1. first + n - 1 \in 1 .. Len(all) /\ kept[n] = all[first + n - 1]
      BY <1>1, <1>2, <1>5
    <3>2. all[first + n - 1] = size + 1 - Len(all) + (first + n - 1)
      BY <3>1, <1>3
    <3>. HIDE DEF kept
    <3>. QED BY <3>1, <3>2, <1>1, <1>2, <1>5
  <2>. QED BY <2>1
<1>7. kept \in Seq(lines) /\ Len(kept) <= Len(replay) + 1
  BY <1>1, <1>2, <1>5
<1>. HIDE DEF kept
<1>8. KeepLast(all, limit) \in Seq(lines) /\ Len(KeepLast(all, limit)) <= Len(replay) + 1
  BY <1>4, <1>7
<1>9. \A n \in 1 .. Len(KeepLast(all, limit)) :
        KeepLast(all, limit)[n] = size + 1 - Len(KeepLast(all, limit)) + n
  BY <1>4, <1>6
<1>. QED BY <1>8, <1>9 DEF all

=============================================================================
