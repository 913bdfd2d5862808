-------------------------- MODULE WriteBatchProofs --------------------------
(***************************************************************************)
(* Proofs about WriteBatch, for every set of writes, every length, every   *)
(* size of the two queues, and any number of short writes, EAGAINs,        *)
(* errors, interrupts and overflows.                                       *)
(***************************************************************************)
EXTENDS WriteBatchLemmas

-----------------------------------------------------------------------------
(* The initial state.                                                      *)

\* A function on 1..n is a sequence.
LEMMA SeqOfFunction ==
    ASSUME NEW S, NEW n \in Nat, NEW f \in [1..n -> S]
    PROVE  f \in Seq(S) /\ Len(f) = n
  BY SeqDef

\* The batch starts with every write waiting.
LEMMA BatchInit == Init => BatchInv
<1> SUFFICES ASSUME Init PROVE BatchInv
  BY Zenon
<1> DEFINE N == Cardinality(Offsets)
           zero == [o \in Offsets |-> 0]
<1>0. PICK order \in Bijection(1..N, Offsets) : entries = [i \in DOMAIN order |-> NewEntry(order[i])]
  BY Zenon DEF Init
<1>1. /\ order \in [1..N -> Offsets] /\ N \in Nat
      /\ \A i, j \in 1..N : order[i] = order[j] => i = j
      /\ \A o \in Offsets : \E i \in 1..N : order[i] = o
  BY <1>0, SizesAssumption, FS_CardinalityType, Zenon DEF Bijection, Injection, Surjection, IsInjective
<1> HIDE DEF N
<1>2. entries = [i \in 1..N |-> NewEntry(order[i])]
  BY <1>0, <1>1, Zenon
<1>3. \A o \in Offsets : NewEntry(o) \in Entry /\ NewEntry(o).original = o
                         /\ NewEntry(o).offset = 0 /\ NewEntry(o).skip = 0
  BY SizesAssumption DEF NewEntry, Entry
<1>4. entries \in [1..N -> Entry]
  BY <1>1, <1>2, <1>3, Zenon
<1>5. entries \in Seq(Entry)
  BY <1>1, <1>4, SeqOfFunction, Zenon
<1>6. /\ pc = "seed" /\ backlog = <<>> /\ outstanding = {} /\ written = 0 /\ errors = {}
      /\ result = "none" /\ sq = <<>> /\ inflight = {} /\ cq = <<>> /\ overflow = <<>>
      /\ file = [o \in Offsets |-> <<>>]
  BY Zenon DEF Init
<1>7. Waiting = entries /\ Completions = <<>>
  BY <1>5, <1>6 DEF Waiting, Completions
<1>8. TypeOK
  BY <1>5, <1>6, SizesAssumption DEF TypeOK
<1>9. NothingForgotten /\ Returned
  BY <1>6, Zenon DEF NothingForgotten, Returned
<1>10. zero \in [Offsets -> 0..Length] /\ \A o \in Offsets : zero[o] = 0
  BY SizesAssumption
<1> HIDE DEF zero
<1>11. Held(entries, {}, {}, zero)
  <2>1. \A i \in DOMAIN entries : i \in 1..N /\ entries[i] = NewEntry(order[i]) /\ order[i] \in Offsets
    BY <1>1, <1>2, Zenon
  <2>2. Distinct(entries)
    BY <1>1, <1>3, <2>1 DEF Distinct
  <2>3. \A i \in DOMAIN entries : AtProgress(entries[i], zero)
    BY <1>3, <1>10, <2>1 DEF AtProgress
  <2>4. \A o \in Offsets : \E i \in DOMAIN entries : entries[i].original = o
    BY <1>1, <1>2, <1>3, <1>4
  <2>. QED
    BY <2>2, <2>3, <2>4, Zenon DEF Held, Unique, Apart
<1>12. Placed({}, <<>>, {}, <<>>)
  BY DEF Placed, Distinct
<1>13. Stored(file, <<>>, zero)
  <2>1. Prefix(0) = <<>>
    BY DEF Prefix
  <2>. QED
    BY <1>6, <1>10, <2>1, SizesAssumption DEF Stored
<1>14. Acknowledged(zero) = {}
  <2>1. SUFFICES ASSUME NEW x \in Acknowledged(zero) PROVE FALSE
    BY Zenon
  <2>2. PICK y \in Offsets, z \in 1..Length : x = <<y, z>> /\ z <= zero[y]
    BY DEF Acknowledged
  <2>. QED
    BY <1>10, <2>2, SizesAssumption
<1>15. Accounted(zero)
  BY <1>6, <1>7, <1>11, <1>12, <1>13, <1>14, FS_EmptySet, Zenon DEF Accounted
<1>. QED
  BY <1>8, <1>9, <1>10, <1>15, Zenon DEF BatchInv

-----------------------------------------------------------------------------
(* The steps.                                                              *)

\* Of the thread's steps, what a fill does to the invariant.
LEMMA FillStep ==
    ASSUME BatchInv, Fill
    PROVE  /\ backlog' \in Seq(Entry) /\ entries' \in Seq(Entry) /\ outstanding' \subseteq Entry
           /\ sq' \in Seq(Entry) /\ Len(sq') <= SqSize
           /\ entries' # <<>> => backlog' # <<>>
           /\ \A acked : /\ Held(Waiting, outstanding, errors, acked)
                         /\ Placed(outstanding, sq, inflight, Completions)
                  => /\ Held(backlog' \o entries', outstanding', errors, acked)
                     /\ Placed(outstanding', sq', inflight, Completions)
<1> DEFINE w == backlog \o entries
           room == SqSize - Len(sq)
           n == Min({Len(w), room})
           pre == SubSeq(w, 1, n)
<1>1. /\ backlog \in Seq(Entry) /\ entries \in Seq(Entry) /\ outstanding \subseteq Entry
      /\ sq \in Seq(Entry) /\ Len(sq) <= SqSize
  BY Zenon DEF BatchInv, TypeOK
<1>2. w \in Seq(Entry) /\ Len(w) \in Nat
  BY <1>1, Joined, Zenon
<1>3. room \in Nat /\ Len(sq) \in Nat
  BY <1>1, SizesAssumption
<1> HIDE DEF w, room
<1>4. n \in 0..Len(w) /\ n <= room
  <2>1. n = IF Len(w) <= room THEN Len(w) ELSE room
    BY <1>2, <1>3, SmallerOf, Zenon
  <2>. QED
    BY <1>2, <1>3, <2>1
<1>5. /\ sq' = sq \o pre /\ outstanding' = outstanding \cup Range(pre)
      /\ Leftover(backlog, entries, n, backlog', entries')
  BY Zenon DEF Fill, Leftover, w, room
<1> HIDE DEF n
<1>6. pre \in Seq(Entry) /\ Len(pre) = n
  BY <1>2, <1>4, Pieces
<1>7. sq' \in Seq(Entry) /\ Len(sq') <= SqSize
  <2>1. sq' \in Seq(Entry) /\ Len(sq') = Len(sq) + n
    BY <1>1, <1>5, <1>6, Joined, Zenon
  <2>. QED
    BY <1>3, <1>4, <2>1, SizesAssumption DEF room
<1>8. outstanding' \subseteq Entry
  <2>1. Range(pre) = {w[i] : i \in 1..n}
    BY <1>2, <1>4, Submitted, Zenon
  <2>2. \A i \in 1..n : w[i] \in Entry
    BY <1>2, <1>4
  <2>. QED
    BY <1>1, <1>5, <2>1, <2>2, Zenon
<1>9. /\ backlog' \in Seq(Entry) /\ entries' \in Seq(Entry)
      /\ entries' # <<>> => backlog' # <<>>
      /\ \E f : Shuffled(w, n, backlog' \o entries', f)
  BY <1>1, <1>4, <1>5, FillLeaves DEF w
<1>10. ASSUME NEW acked, Held(Waiting, outstanding, errors, acked),
              Placed(outstanding, sq, inflight, Completions)
       PROVE  /\ Held(backlog' \o entries', outstanding', errors, acked)
              /\ Placed(outstanding', sq', inflight, Completions)
  <2>1. Held(w, outstanding, errors, acked)
    BY <1>10, Zenon DEF Waiting, w
  <2>2. PICK f : Shuffled(w, n, backlog' \o entries', f)
    BY <1>9, Zenon
  <2>3. backlog' \o entries' \in Seq(Entry)
    BY <1>9, Joined, Zenon
  <2>4. Held(backlog' \o entries', outstanding', errors, acked)
    BY <1>1, <1>2, <1>4, <1>5, <2>1, <2>2, <2>3, FillHeld, Zenon
  <2>5. Distinct(w) /\ Apart(w, outstanding)
    BY <2>1, Zenon DEF Held
  <2>6. Placed(outstanding', sq', inflight, Completions)
    BY <1>1, <1>2, <1>4, <1>5, <1>10, <2>5, FillPlaced, Zenon
  <2>. QED
    BY <2>4, <2>6, Zenon
<1>. QED
  BY <1>7, <1>8, <1>9, <1>10, Zenon

\* seed_submission_queue and flush_submission_queue: one fill, and nothing else
\* of what the invariant is about.
LEMMA FillingKeeps ==
    ASSUME BatchInv, Fill, pc # "done", pc' \in {"top", "flush"},
           UNCHANGED <<written, errors, result, inflight, cq, overflow, file>>
    PROVE  BatchInv'
<1>1. /\ backlog' \in Seq(Entry) /\ entries' \in Seq(Entry) /\ outstanding' \subseteq Entry
      /\ sq' \in Seq(Entry) /\ Len(sq') <= SqSize
      /\ entries' # <<>> => backlog' # <<>>
  BY FillStep, Zenon
<1>2. TypeOK'
  BY <1>1, Zenon DEF BatchInv, TypeOK
<1>3. NothingForgotten'
  BY <1>1, Zenon DEF NothingForgotten
<1>4. Returned'
  BY Zenon DEF BatchInv, Returned
<1>5. PICK acked \in [Offsets -> 0..Length] : Accounted(acked)
  BY Zenon DEF BatchInv
<1>6. /\ Held(backlog' \o entries', outstanding', errors, acked)
      /\ Placed(outstanding', sq', inflight, Completions)
  BY <1>5, FillStep, Zenon DEF Accounted
<1>7. Waiting' = backlog' \o entries' /\ Completions' = Completions
  BY Zenon DEF Waiting, Completions
<1>8. Accounted(acked)'
  BY <1>5, <1>6, <1>7, Zenon DEF Accounted
<1>. QED
  BY <1>2, <1>3, <1>4, <1>5, <1>8, Zenon DEF BatchInv

\* Steps that touch nothing the invariant counts, except the place of the
\* thread, keep it, unless the batch returns.
LEMMA MovingKeeps ==
    ASSUME BatchInv, pc # "seed", pc # "done", pc' \in {"top", "drain", "flush", "done"},
           result' \notin {"Ok", "Err"},
           result' \in {"none", "Ok", "Err", "panic", "incurable"},
           Completions' = Completions, cq' \in Seq(Event), overflow' \in Seq(Event),
           Len(cq') <= CqSize,
           UNCHANGED <<entries, backlog, outstanding, written, errors, sq, inflight, file>>
    PROVE  BatchInv'
<1>1. TypeOK'
  BY Zenon DEF BatchInv, TypeOK
<1>2. NothingForgotten' /\ Returned'
  BY Zenon DEF BatchInv, NothingForgotten, Returned
<1>3. PICK acked \in [Offsets -> 0..Length] : Accounted(acked)
  BY Zenon DEF BatchInv
<1>4. Waiting' = Waiting
  BY Zenon DEF Waiting
<1>5. Accounted(acked)'
  BY <1>3, <1>4, Zenon DEF Accounted
<1>. QED
  BY <1>1, <1>2, <1>3, <1>5, Zenon DEF BatchInv

\* What the kernel kept back comes after what is in the completion queue, also
\* when some of it moves.
LEMMA FlushKeepsOrder ==
    ASSUME TypeOK, FlushOverflow
    PROVE  /\ cq' \in Seq(Event) /\ overflow' \in Seq(Event) /\ Len(cq') <= CqSize
           /\ Completions' = Completions
<1> DEFINE room == CqSize - Len(cq)
           n == Min({Len(overflow), room})
           pre == SubSeq(overflow, 1, n)
           post == SubSeq(overflow, n + 1, Len(overflow))
<1>1. cq \in Seq(Event) /\ overflow \in Seq(Event) /\ Len(cq) <= CqSize
  BY Zenon DEF TypeOK
<1>2. Len(cq) \in Nat /\ room \in Nat /\ Len(overflow) \in Nat
  BY <1>1, SizesAssumption
<1> HIDE DEF room
<1>3. n \in 0..Len(overflow) /\ n <= room
  <2>1. n = IF Len(overflow) <= room THEN Len(overflow) ELSE room
    BY <1>2, SmallerOf, Zenon
  <2>. QED
    BY <1>2, <2>1
<1>4. cq' = cq \o pre /\ overflow' = post
  BY Zenon DEF FlushOverflow, room
<1> HIDE DEF n
<1>5. pre \in Seq(Event) /\ Len(pre) = n /\ post \in Seq(Event)
  BY <1>1, <1>3, Pieces
<1>6. pre \o post = overflow
  <2>1. pre \o post = SubSeq(overflow, 1, Len(overflow))
    <3>1. 1 \in 1..(Len(overflow) + 1) /\ n \in (1 - 1)..Len(overflow) /\ Len(overflow) \in n..Len(overflow)
      BY <1>2, <1>3
    <3>. QED
      BY <1>1, <3>1, ConcatAdjacentSubSeq, Zenon
  <2>. QED
    BY <1>1, <2>1, SubSeqFull, Zenon
<1> HIDE DEF pre, post
<1>7. (cq \o pre) \o post = cq \o (pre \o post)
  BY <1>1, <1>5, ConcatAssociative, SMTT(20)
<1>8. cq' \in Seq(Event) /\ Len(cq') = Len(cq) + n
  BY <1>1, <1>4, <1>5, Joined, Zenon
<1>9. Len(cq') <= CqSize
  BY <1>2, <1>3, <1>8, SizesAssumption DEF room
<1>. QED
  BY <1>4, <1>5, <1>6, <1>7, <1>8, <1>9, Zenon DEF Completions

\* Nothing overtakes: a completion comes after the ones on their way.
LEMMA PostAppends ==
    ASSUME TypeOK, NEW ev \in Event, Post(ev)
    PROVE  /\ cq' \in Seq(Event) /\ overflow' \in Seq(Event) /\ Len(cq') <= CqSize
           /\ Completions' = Append(Completions, ev)
<1>1. cq \in Seq(Event) /\ overflow \in Seq(Event) /\ Len(cq) <= CqSize /\ Len(cq) \in Nat
  BY DEF TypeOK
<1>2. CASE Len(cq) < CqSize /\ overflow = <<>>
  <2>1. cq' = Append(cq, ev) /\ overflow' = <<>>
    BY <1>2, Zenon DEF Post
  <2>2. cq' \in Seq(Event) /\ Len(cq') = Len(cq) + 1
    BY <1>1, <2>1, AppendProperties, Zenon
  <2>3. Len(cq') <= CqSize
    BY <1>1, <1>2, <2>2, SizesAssumption
  <2>4. cq' \o <<>> = cq' /\ cq \o <<>> = cq
    BY <1>1, <2>2, ConcatEmptySeq, Zenon
  <2>. QED
    BY <1>1, <1>2, <2>1, <2>2, <2>3, <2>4, Zenon DEF Completions
<1>3. CASE ~(Len(cq) < CqSize /\ overflow = <<>>)
  <2>1. overflow' = Append(overflow, ev) /\ cq' = cq
    BY <1>3, Zenon DEF Post
  <2>2. <<ev>> \in Seq(Event) /\ cq \o overflow \in Seq(Event)
    BY <1>1, Joined
  <2>3. Append(overflow, ev) = overflow \o <<ev>> /\ overflow' \in Seq(Event)
    BY <1>1, <2>1, AppendIsConcat, AppendProperties, Zenon
  <2>4. Append(cq \o overflow, ev) = (cq \o overflow) \o <<ev>>
    BY <2>2, AppendIsConcat, Zenon
  <2>5. (cq \o overflow) \o <<ev>> = cq \o (overflow \o <<ev>>)
    BY <1>1, <2>2, ConcatAssociative
  <2>. QED
    BY <1>1, <2>1, <2>3, <2>4, <2>5, Zenon DEF Completions
<1>. QED
  BY <1>2, <1>3, Zenon

\* The first of the completions is the first in the queue.
LEMMA FirstOfQueue ==
    ASSUME NEW S, NEW s \in Seq(S), NEW t \in Seq(S), s # <<>>
    PROVE  /\ s \o t \in Seq(S) /\ s \o t # <<>> /\ Head(s \o t) = Head(s) /\ Head(s) \in S
           /\ Tail(s \o t) = Tail(s) \o t /\ Tail(s) \in Seq(S) /\ Len(Tail(s)) <= Len(s)
<1> DEFINE u == s \o t
           r == Tail(s)
           Ls == Len(s)
           Lt == Len(t)
<1>1. /\ u \in Seq(S) /\ Len(u) = Ls + Lt /\ Ls \in Nat \ {0} /\ Lt \in Nat
      /\ \A i \in 1..Ls : u[i] = s[i]
      /\ \A i \in (Ls + 1)..(Ls + Lt) : u[i] = t[i - Ls]
  BY Joined, EmptySeq
<1>2. r \in Seq(S) /\ Len(r) = Ls - 1 /\ \A i \in 1..(Ls - 1) : r[i] = s[i + 1]
  BY HeadTailProperties, Zenon
<1>3. Head(s) = s[1] /\ Head(s) \in S
  BY Rest
<1>r. r \in Seq(S)
  BY <1>2, Zenon
<1> HIDE DEF r
<1>4. /\ r \o t \in Seq(S) /\ Len(r \o t) = Len(r) + Lt
      /\ \A i \in 1..Len(r) : (r \o t)[i] = r[i]
      /\ \A i \in (Len(r) + 1)..(Len(r) + Lt) : (r \o t)[i] = t[i - Len(r)]
  BY <1>r, Joined, ZenonT(30)
<1> HIDE DEF u, Ls, Lt
<1>5. u # <<>>
  BY <1>1
<1>6. /\ Head(u) = u[1] /\ Tail(u) \in Seq(S) /\ Len(Tail(u)) = Len(u) - 1
      /\ \A i \in 1..(Len(u) - 1) : Tail(u)[i] = u[i + 1]
  BY <1>1, <1>5, Rest, HeadTailProperties
<1>7. Len(Tail(u)) = Ls + Lt - 1 /\ Len(r \o t) = Ls + Lt - 1 /\ Len(u) - 1 = Ls + Lt - 1
  BY <1>1, <1>2, <1>4, <1>6
<1>8. ASSUME NEW i \in 1..(Ls + Lt - 1) PROVE Tail(u)[i] = (r \o t)[i]
  <2>1. Tail(u)[i] = u[i + 1]
    BY <1>6, <1>7, Zenon
  <2>2. CASE i <= Ls - 1
    <3>1. i \in 1..(Ls - 1) /\ i + 1 \in 1..Ls /\ i \in 1..Len(r)
      BY <1>1, <1>2, <2>2
    <3>. QED
      BY <1>1, <1>2, <1>4, <2>1, <3>1, Zenon
  <2>3. CASE i > Ls - 1
    <3>1. /\ i + 1 \in (Ls + 1)..(Ls + Lt) /\ i \in (Len(r) + 1)..(Len(r) + Lt)
          /\ (i + 1) - Ls = i - Len(r)
      BY <1>1, <1>2, <2>3
    <3>2. u[i + 1] = t[(i + 1) - Ls] /\ (r \o t)[i] = t[i - Len(r)]
      BY <1>1, <1>4, <3>1, Zenon
    <3>. QED
      BY <2>1, <3>1, <3>2, Zenon
  <2>4. i <= Ls - 1 \/ i > Ls - 1
    BY <1>1
  <2>. QED
    BY <2>2, <2>3, <2>4, Zenon
<1>9. Tail(u) = r \o t
  <2>1. Len(Tail(u)) = Len(r \o t) /\ \A i \in 1..Len(Tail(u)) : Tail(u)[i] = (r \o t)[i]
    BY <1>7, <1>8, Zenon
  <2>. QED
    BY <1>4, <1>6, <2>1, SeqEqual, Zenon
<1>10. u[1] = s[1] /\ Len(r) <= Ls
  BY <1>1, <1>2
<1>. QED
  BY <1>1, <1>2, <1>3, <1>5, <1>6, <1>9, <1>10, Zenon DEF u, r, Ls

\* handle_result moves position and buffer on together.
LEMMA ResultOf ==
    ASSUME NEW e \in Entry, NEW n
    PROVE  HandleResult(e, n) = [original |-> e.original, offset |-> e.offset + n, skip |-> e.skip + n]
<1>1. e = [original |-> e.original, offset |-> e.offset, skip |-> e.skip]
  BY Zenon DEF Entry
<1>2. HandleResult(e, n) = [x \in DOMAIN e |-> IF x = "skip" THEN e.skip + n
                                              ELSE IF x = "offset" THEN e.offset + n ELSE e[x]]
  BY <1>1, Zenon DEF HandleResult
<1>. QED
  BY <1>1, <1>2, Zenon

\* handle_completion_event: the write it is for is found, and is then finished,
\* failed, or waits from where the kernel stopped.
LEMMA HandleKeeps ==
    ASSUME BatchInv, HandleCompletionEvent
    PROVE  BatchInv'
<1> DEFINE ev == Head(cq)
           e == CHOOSE x \in outstanding : x.original = ev.original
           o == e.original
           n == ev.bytes
           rest == HandleResult(e, n)
<1>0. TypeOK
  BY Zenon DEF BatchInv
<1>1. /\ pc = "drain" /\ cq # <<>> /\ cq' = Tail(cq)
      /\ pc' = pc /\ entries' = entries /\ result' = result /\ sq' = sq /\ inflight' = inflight
      /\ overflow' = overflow /\ file' = file
  BY Zenon DEF HandleCompletionEvent
<1>2. PICK acked \in [Offsets -> 0..Length] : Accounted(acked)
  BY Zenon DEF BatchInv
<1>3. /\ Completions \in Seq(Event) /\ Completions # <<>> /\ Head(Completions) = ev /\ ev \in Event
      /\ Completions' = Tail(Completions) /\ cq' \in Seq(Event) /\ Len(cq') <= Len(cq)
  BY <1>0, <1>1, FirstOfQueue, ZenonT(30) DEF TypeOK, Completions
<1>c. Len(cq') <= CqSize
  <2>1. Len(cq') \in Nat /\ Len(cq) \in Nat /\ Len(cq) <= CqSize
    BY <1>0, <1>3 DEF TypeOK
  <2>. QED
    BY <1>3, <2>1, SizesAssumption
<1>4. /\ outstanding \in SUBSET Entry /\ Unique(outstanding)
      /\ Placed(outstanding, sq, inflight, Completions) /\ Distinct(Completions)
      /\ Held(Waiting, outstanding, errors, acked) /\ Stored(file, Completions, acked)
  BY <1>0, <1>2, Zenon DEF TypeOK, Accounted, Held, Placed
<1>5. /\ \E x \in outstanding : x.original = ev.original
      /\ \A x \in outstanding : x.original = ev.original =>
            Placed(outstanding \ {x}, sq, inflight, Tail(Completions))
  BY <1>3, <1>4, TakeEvent, Zenon
<1>6. e \in outstanding /\ o = ev.original
  BY <1>5, Zenon
<1>7. /\ outstanding' = outstanding \ {e}
      /\ \/ /\ ev.res = "error" /\ errors' = errors \cup {o}
            /\ backlog' = backlog /\ written' = written
         \/ /\ ev.res # "error" /\ errors' = errors /\ written' = written + n
            /\ backlog' = IF Remaining(rest) = 0 THEN backlog ELSE AddEntryToBacklog(backlog, rest)
  BY <1>5, Zenon DEF HandleCompletionEvent
<1> HIDE DEF ev, e
<1>8. /\ e \in Entry /\ o \in Offsets /\ n \in Nat /\ e.offset = acked[o] /\ e.skip = acked[o]
      /\ acked[o] \in 0..Length
  <2>1. e \in Entry /\ AtProgress(e, acked)
    BY <1>4, <1>6, Zenon DEF Held
  <2>2. n \in Nat
    BY <1>3 DEF Event
  <2>. QED
    BY <2>1, <2>2, Zenon DEF Entry, AtProgress
<1>9. Placed(outstanding', sq', inflight', Completions')
  BY <1>1, <1>3, <1>5, <1>6, <1>7, Zenon
<1>10. /\ Stored(file, Tail(Completions), acked)
       /\ Advance(acked, o, n) \in [Offsets -> 0..Length]
       /\ Stored(file, Tail(Completions), Advance(acked, o, n))
  BY <1>3, <1>4, <1>6, StoredTaken, Zenon
<1>11. outstanding' \subseteq Entry /\ Waiting' = backlog' \o entries /\ Waiting = backlog \o entries
  BY <1>1, <1>4, <1>7, Zenon DEF Waiting
<1>12. Returned'
  BY <1>1, Zenon DEF BatchInv, Returned
<1>13. CASE ev.res = "error"
  <2>1. errors' = errors \cup {o} /\ backlog' = backlog /\ written' = written
    BY <1>7, <1>13, Zenon
  <2>2. TypeOK'
    BY <1>0, <1>1, <1>3, <1>c, <1>8, <1>11, <2>1, Zenon DEF TypeOK
  <2>3. NothingForgotten'
    BY <1>1, <2>1, Zenon DEF BatchInv, NothingForgotten
  <2>4. Held(Waiting', outstanding', errors', acked)
    BY <1>4, <1>6, <1>7, <1>11, <2>1, HeldFailed, Zenon
  <2>5. Accounted(acked)'
    BY <1>1, <1>2, <1>3, <1>9, <1>10, <2>1, <2>4, Zenon DEF Accounted
  <2>. QED
    BY <1>2, <1>12, <2>2, <2>3, <2>5, Zenon DEF BatchInv
<1>14. CASE ev.res # "error"
  <2> DEFINE a2 == Advance(acked, o, n)
  <2>1. errors' = errors /\ written' = written + n
    BY <1>7, <1>14, Zenon
  <2>2. acked[o] + n \in 0..Length
    <3>1. a2[o] = acked[o] + n
      BY <1>8, Zenon DEF Advance
    <3>. QED
      BY <1>8, <1>10, <3>1, Zenon
  <2>3. /\ rest = [original |-> o, offset |-> acked[o] + n, skip |-> acked[o] + n]
        /\ rest \in Entry /\ rest.original = o
        /\ rest.offset = acked[o] + n /\ rest.skip = acked[o] + n
    <3>1. rest = [original |-> o, offset |-> acked[o] + n, skip |-> acked[o] + n]
      BY <1>8, ResultOf, Zenon
    <3>. QED
      BY <1>8, <2>2, <3>1 DEF Entry
  <2>4. Remaining(rest) = 0 <=> acked[o] + n = Length
    BY <2>2, <2>3, SizesAssumption DEF Remaining
  <2>5. written' = Cardinality(Acknowledged(a2)) /\ written' \in Nat
    <3>1. acked[o] + n <= Length
      BY <2>2, SizesAssumption
    <3>2. Cardinality(Acknowledged(a2)) = Cardinality(Acknowledged(acked)) + n
      BY <1>8, <3>1, CountGrows, Zenon
    <3>3. written = Cardinality(Acknowledged(acked)) /\ written \in Nat
      BY <1>0, <1>2, Zenon DEF Accounted, TypeOK
    <3>. QED
      BY <1>8, <2>1, <3>2, <3>3
  <2>6. /\ \A i \in DOMAIN Waiting : Waiting[i].original \in Offsets
        /\ \A x \in outstanding : x.original \in Offsets
    <3>1. Waiting \in Seq(Entry)
      BY <1>0, <1>11, Joined, Zenon DEF TypeOK
    <3>2. \A i \in DOMAIN Waiting : Waiting[i] \in Entry
      BY <3>1
    <3>3. \A x \in Entry : x.original \in Offsets
      BY Zenon DEF Entry
    <3>. QED
      BY <1>4, <3>2, <3>3, Zenon
  <2> HIDE DEF rest, a2
  <2>7. /\ backlog' \in Seq(Entry)
        /\ entries' # <<>> => backlog' # <<>>
        /\ Held(Waiting', outstanding', errors', a2)
    <3>b. /\ backlog \in Seq(Entry) /\ entries \in Seq(Entry)
          /\ entries # <<>> => backlog # <<>>
      BY <1>0, <1>1, Zenon DEF BatchInv, TypeOK, NothingForgotten
    <3>1. CASE Remaining(rest) = 0
      <4>1. backlog' = backlog /\ Waiting' = Waiting
        BY <1>7, <1>11, <1>14, <3>1, Zenon
      <4>2. Held(Waiting, outstanding \ {e}, errors, a2)
        BY <1>4, <1>6, <1>8, <2>4, <2>6, <3>1, HeldFinished, Zenon DEF a2
      <4>. QED
        BY <1>1, <1>7, <2>1, <3>b, <4>1, <4>2, Zenon
    <3>2. CASE Remaining(rest) # 0
      <4>1. backlog' = AddEntryToBacklog(backlog, rest)
        BY <1>7, <1>14, <3>2, Zenon
      <4>2. /\ backlog' \in Seq(Entry) /\ backlog' # <<>>
            /\ \E p, f : Inserted(backlog \o entries, rest, backlog' \o entries, p, f)
        BY <2>3, <3>b, <4>1, AddInserts, Zenon
      <4>3. PICK p, f : Inserted(Waiting, rest, Waiting', p, f)
        BY <1>11, <4>2, Zenon
      <4>4. Held(Waiting', outstanding \ {e}, errors, a2)
        BY <1>4, <1>6, <1>8, <2>3, <2>6, <4>3, HeldAgain, Zenon DEF a2
      <4>. QED
        BY <1>7, <2>1, <4>2, <4>4, Zenon
    <3>. QED
      BY <3>1, <3>2, Zenon
  <2>8. TypeOK'
    BY <1>0, <1>1, <1>3, <1>c, <1>11, <2>1, <2>5, <2>7, Zenon DEF TypeOK
  <2>9. NothingForgotten'
    BY <2>7, Zenon DEF NothingForgotten
  <2>10. PICK now \in [Offsets -> 0..Length] : now = a2
    BY <1>10, Zenon DEF a2
  <2>11. Stored(file', Completions', now)
    BY <1>1, <1>3, <1>10, <2>10, Zenon DEF a2
  <2>12. Accounted(now)'
    BY <1>9, <2>5, <2>7, <2>10, <2>11, Zenon DEF Accounted
  <2>. QED
    BY <1>12, <2>8, <2>9, <2>10, <2>12, Zenon DEF BatchInv
<1>. QED
  BY <1>13, <1>14, Zenon

\* The polling thread takes a submission: the write is in another place.
LEMMA ConsumeKeeps ==
    ASSUME BatchInv, Consume
    PROVE  BatchInv'
<1>1. /\ sq # <<>> /\ sq' = Tail(sq) /\ inflight' = inflight \cup {Head(sq)}
      /\ pc' = pc /\ entries' = entries /\ backlog' = backlog /\ outstanding' = outstanding
      /\ written' = written /\ errors' = errors /\ result' = result
      /\ cq' = cq /\ overflow' = overflow /\ file' = file
  BY Zenon DEF Consume, thread
<1>2. TypeOK
  BY Zenon DEF BatchInv
<1>3. sq' \in Seq(Entry) /\ inflight' \subseteq Entry /\ Len(sq') <= SqSize
  <2>1. sq \in Seq(Entry) /\ Len(sq) <= SqSize /\ inflight \subseteq Entry /\ Len(sq) \in Nat
    BY <1>2 DEF TypeOK
  <2>2. Head(sq) \in Entry /\ Tail(sq) \in Seq(Entry) /\ Len(Tail(sq)) = Len(sq) - 1
    BY <1>1, <2>1, HeadTailProperties, Zenon
  <2>. QED
    BY <1>1, <2>1, <2>2, SizesAssumption
<1>4. TypeOK'
  BY <1>1, <1>2, <1>3, Zenon DEF TypeOK
<1>5. NothingForgotten' /\ Returned'
  BY <1>1, Zenon DEF BatchInv, NothingForgotten, Returned
<1>6. PICK acked \in [Offsets -> 0..Length] : Accounted(acked)
  BY Zenon DEF BatchInv
<1>7. Waiting' = Waiting /\ Completions' = Completions
  BY <1>1, Zenon DEF Waiting, Completions
<1>8. Placed(outstanding, sq', inflight', Completions)
  BY <1>1, <1>2, <1>6, ConsumePlaced, Zenon DEF Accounted, TypeOK
<1>9. Accounted(acked)'
  BY <1>1, <1>6, <1>7, <1>8, Zenon DEF Accounted
<1>. QED
  BY <1>4, <1>5, <1>6, <1>9, Zenon DEF BatchInv

\* A completion is posted with what it reports in the file.
LEMMA StoredPosted ==
    ASSUME NEW f1, NEW f2, NEW evs \in Seq(Event), NEW ev \in Event, NEW acked,
           Stored(f1, evs, acked),
           \A o \in Offsets : o # ev.original => f2[o] = f1[o],
           \A i \in DOMAIN evs : evs[i].original # ev.original,
           \E k \in (acked[ev.original] + ev.bytes)..Length : f2[ev.original] = Prefix(k),
           acked[ev.original] \in Nat
    PROVE  Stored(f2, Append(evs, ev), acked)
<1> DEFINE evs2 == Append(evs, ev)
           N == Len(evs) + 1
<1>1. /\ DOMAIN evs2 = DOMAIN evs \cup {N}
      /\ \A i \in DOMAIN evs : evs2[i] = evs[i]
      /\ evs2[N] = ev
  BY Longer
<1>2. \A i \in DOMAIN evs : evs[i].original \in Offsets
  <2>1. \A i \in DOMAIN evs : evs[i] \in Event
    OBVIOUS
  <2>2. \A x \in Event : x.original \in Offsets
    BY Zenon DEF Event
  <2>. QED
    BY <2>1, <2>2, Zenon
<1> HIDE DEF evs2, N
<1>3. ASSUME NEW o \in Offsets PROVE \E k \in acked[o]..Length : f2[o] = Prefix(k)
  <2>1. CASE o = ev.original
    <3>1. PICK k \in (acked[o] + ev.bytes)..Length : f2[o] = Prefix(k)
      BY <2>1, Zenon
    <3>2. ev.bytes \in Nat
      BY DEF Event
    <3>3. k \in acked[o]..Length
      BY <2>1, <3>1, <3>2
    <3>. QED
      BY <3>1, <3>3, Zenon
  <2>2. CASE o # ev.original
    BY <2>2, Zenon DEF Stored
  <2>. QED
    BY <2>1, <2>2, Zenon
<1>4. ASSUME NEW i \in DOMAIN evs2
      PROVE  \E k \in (acked[evs2[i].original] + evs2[i].bytes)..Length :
                 f2[evs2[i].original] = Prefix(k)
  <2>1. CASE i \in DOMAIN evs
    BY <1>1, <1>2, <2>1, SMTT(20) DEF Stored
  <2>2. CASE i = N
    BY <1>1, <2>2, Zenon
  <2>. QED
    BY <1>1, <2>1, <2>2, Zenon
<1>. QED
  BY <1>3, <1>4, Zenon DEF Stored, evs2

\* The kernel completes a write, in part, not now, or with an error.
LEMMA CompleteKeeps ==
    ASSUME BatchInv, Complete
    PROVE  BatchInv'
<1>1. /\ pc' = pc /\ entries' = entries /\ backlog' = backlog /\ outstanding' = outstanding
      /\ written' = written /\ errors' = errors /\ result' = result /\ sq' = sq
  BY Zenon DEF Complete, thread
<1>2. PICK e \in inflight :
         /\ inflight' = inflight \ {e}
         /\ (\E n \in 1..Remaining(e) : CompleteWrite(e, n)) \/ CompleteAgain(e) \/ CompleteError(e)
  BY Zenon DEF Complete
<1>3. PICK acked \in [Offsets -> 0..Length] : Accounted(acked)
  BY Zenon DEF BatchInv
<1>4. TypeOK
  BY Zenon DEF BatchInv
<1>5. /\ Unique(outstanding) /\ Placed(outstanding, sq, inflight, Completions)
      /\ Stored(file, Completions, acked) /\ Held(Waiting, outstanding, errors, acked)
  BY <1>3, Zenon DEF Accounted, Held
<1> DEFINE o == e.original
<1>6. /\ e \in Entry /\ o \in Offsets /\ acked[o] \in 0..Length
      /\ e.offset = acked[o] /\ e.skip = acked[o]
  <2>1. e \in Entry /\ e \in outstanding
    BY <1>4, <1>5, Zenon DEF TypeOK, Placed
  <2>2. AtProgress(e, acked)
    BY <1>5, <2>1, Zenon DEF Held
  <2>. QED
    BY <2>1, <2>2, Zenon DEF Entry, AtProgress
<1>7. PICK k0 \in acked[o]..Length : file[o] = Prefix(k0)
  BY <1>5, <1>6, Zenon DEF Stored
<1> SUFFICES \E ev \in Event :
                /\ ev.original = o /\ Post(ev) /\ DOMAIN file' = Offsets
                /\ \A x \in Offsets : x # o => file'[x] = file[x]
                /\ \E k \in (acked[o] + ev.bytes)..Length : file'[o] = Prefix(k)
  <2>1. PICK ev \in Event :
                /\ ev.original = o /\ Post(ev) /\ DOMAIN file' = Offsets
                /\ \A x \in Offsets : x # o => file'[x] = file[x]
                /\ \E k \in (acked[o] + ev.bytes)..Length : file'[o] = Prefix(k)
    BY Zenon
  <2>2. /\ cq' \in Seq(Event) /\ overflow' \in Seq(Event) /\ Len(cq') <= CqSize
        /\ Completions' = Append(Completions, ev)
    BY <1>4, <2>1, PostAppends, Zenon
  <2>3. Completions \in Seq(Event)
    BY <1>4, Joined, Zenon DEF TypeOK, Completions
  <2>4. TypeOK'
    <3>1. inflight' \subseteq Entry
      BY <1>2, <1>4, Zenon DEF TypeOK
    <3>. QED
      BY <1>1, <1>4, <2>1, <2>2, <3>1, Zenon DEF TypeOK
  <2>5. NothingForgotten' /\ Returned'
    BY <1>1, Zenon DEF BatchInv, NothingForgotten, Returned
  <2>6. /\ Placed(outstanding, sq, inflight \ {e}, Append(Completions, ev))
        /\ \A i \in DOMAIN Completions : Completions[i].original # o
    BY <1>5, <2>1, <2>3, CompletePlaced
  <2>7. Stored(file', Append(Completions, ev), acked)
    <3>1. acked[ev.original] \in Nat
      BY <1>6, <2>1
    <3>. QED
      BY <1>5, <2>1, <2>3, <2>6, <3>1, StoredPosted, ZenonT(30)
  <2>8. Waiting' = Waiting
    BY <1>1, Zenon DEF Waiting
  <2>9. Accounted(acked)'
    BY <1>1, <1>2, <1>3, <2>2, <2>6, <2>7, <2>8, Zenon DEF Accounted
  <2>. QED
    BY <1>3, <2>4, <2>5, <2>9, Zenon DEF BatchInv
<1>8. \A r \in {"ok", "again", "error"}, b \in 0..Length :
         LET ev == [original |-> o, res |-> r, bytes |-> b]
         IN  ev \in Event /\ ev.original = o /\ ev.bytes = b
  BY <1>6, Zenon DEF Event
<1>9. ASSUME NEW r \in {"ok", "again", "error"},
             Post([original |-> o, res |-> r, bytes |-> 0]), file' = file
      PROVE  \E ev \in Event :
                /\ ev.original = o /\ Post(ev) /\ DOMAIN file' = Offsets
                /\ \A x \in Offsets : x # o => file'[x] = file[x]
                /\ \E k \in (acked[o] + ev.bytes)..Length : file'[o] = Prefix(k)
  <2> DEFINE ev == [original |-> o, res |-> r, bytes |-> 0]
  <2>1. ev \in Event /\ ev.original = o /\ ev.bytes = 0
    BY <1>8, SizesAssumption
  <2>2. Post(ev)
    BY <1>9, Zenon
  <2> HIDE DEF ev
  <2>3. k0 \in (acked[o] + ev.bytes)..Length
    BY <1>6, <1>7, <2>1
  <2>4. DOMAIN file' = Offsets
    BY <1>4, <1>9, Zenon DEF TypeOK
  <2>. QED
    BY <1>7, <1>9, <2>1, <2>2, <2>3, <2>4, Zenon
<1>10. CASE CompleteAgain(e)
  <2>1. Post([original |-> o, res |-> "again", bytes |-> 0]) /\ file' = file
    BY <1>10, Zenon DEF CompleteAgain
  <2>. QED
    BY <1>9, <2>1, Zenon
<1>11. CASE CompleteError(e)
  <2>1. Post([original |-> o, res |-> "error", bytes |-> 0]) /\ file' = file
    BY <1>11, Zenon DEF CompleteError
  <2>. QED
    BY <1>9, <2>1, Zenon
<1>12. ASSUME NEW n \in 1..Remaining(e), CompleteWrite(e, n)
       PROVE  \E ev \in Event :
                /\ ev.original = o /\ Post(ev) /\ DOMAIN file' = Offsets
                /\ \A x \in Offsets : x # o => file'[x] = file[x]
                /\ \E k \in (acked[o] + ev.bytes)..Length : file'[o] = Prefix(k)
  <2> DEFINE ev == [original |-> o, res |-> "ok", bytes |-> n]
             a == acked[o]
             g == file[o]
             m == IF k0 <= a + n THEN a + n ELSE k0
  <2>1. n \in 0..Length /\ n \in Nat /\ a \in Nat /\ k0 \in Nat /\ a <= k0 /\ m \in (a + n)..Length
    <3>1. n \in Int /\ n >= 1 /\ n <= Length - a
      BY <1>6, <1>12, SizesAssumption DEF Remaining
    <3>. QED
      BY <1>6, <1>7, <3>1, SizesAssumption
  <2>2. ev \in Event /\ ev.original = o /\ ev.bytes = n
    BY <1>8, <2>1, Zenon
  <2>3. Post(ev)
    BY <1>12, Zenon DEF CompleteWrite
  <2>4. file' = [file EXCEPT ![o] = Overlaid(g, a, n)]
    BY <1>6, <1>12, Zenon DEF CompleteWrite, Overlaid
  <2>5. DOMAIN file = Offsets
    BY <1>4, Zenon DEF TypeOK
  <2>6. Overlaid(g, a, n) = Prefix(m)
    <3>1. k0 \in Nat /\ a \in Nat /\ a <= k0 /\ n \in Nat /\ g = Prefix(k0)
      BY <1>7, <2>1, Zenon
    <3> HIDE DEF a, g
    <3>. QED
      BY <3>1, PrefixGrows, Zenon
  <2>7. file' = [file EXCEPT ![o] = Prefix(m)]
    BY <2>4, <2>6, Zenon
  <2> HIDE DEF ev, m
  <2>8. /\ DOMAIN file' = Offsets /\ file'[o] = Prefix(m)
        /\ \A x \in Offsets : x # o => file'[x] = file[x]
    BY <1>6, <2>5, <2>7, ZenonT(30)
  <2>. QED
    BY <2>1, <2>2, <2>3, <2>8, Zenon
<1>. QED
  BY <1>2, <1>10, <1>11, <1>12, Zenon

\* The batch returns when nothing waits and nothing is outstanding; nothing is
\* then left in the iterator either.
LEMMA ReturnKeeps ==
    ASSUME BatchInv, ReturnFromBatch
    PROVE  BatchInv'
<1>1. /\ pc = "top" /\ backlog = <<>> /\ outstanding = {} /\ pc' = "done"
      /\ result' = IF errors = {} THEN "Ok" ELSE "Err"
      /\ entries' = entries /\ backlog' = backlog /\ outstanding' = outstanding
      /\ written' = written /\ errors' = errors
      /\ sq' = sq /\ inflight' = inflight /\ cq' = cq /\ overflow' = overflow /\ file' = file
  BY Zenon DEF ReturnFromBatch, IsFinished, kernel
<1>2. entries = <<>>
  BY <1>1, Zenon DEF BatchInv, NothingForgotten
<1>3. TypeOK'
  BY <1>1, Zenon DEF BatchInv, TypeOK
<1>4. NothingForgotten' /\ Returned'
  BY <1>1, <1>2, Zenon DEF NothingForgotten, Returned
<1>5. PICK acked \in [Offsets -> 0..Length] : Accounted(acked)
  BY Zenon DEF BatchInv
<1>6. Waiting' = Waiting /\ Completions' = Completions
  BY <1>1, Zenon DEF Waiting, Completions
<1>7. Accounted(acked)'
  BY <1>1, <1>5, <1>6, Zenon DEF Accounted
<1>. QED
  BY <1>3, <1>4, <1>5, <1>7, Zenon DEF BatchInv

\* Every step of the thread and of the kernel keeps the invariant.
LEMMA BatchStep == BatchInv /\ [Next]_vars => BatchInv'
<1> SUFFICES ASSUME BatchInv, [Next]_vars PROVE BatchInv'
  BY Zenon
<1>0. /\ TypeOK /\ cq \in Seq(Event) /\ overflow \in Seq(Event) /\ Len(cq) <= CqSize
      /\ result \in {"none", "Ok", "Err", "panic", "incurable"}
      /\ pc # "done" => result \notin {"Ok", "Err"}
  BY Zenon DEF BatchInv, TypeOK, Returned
<1>1. CASE Seed
  <2>1. /\ Fill /\ pc # "done" /\ pc' \in {"top", "flush"}
        /\ UNCHANGED <<written, errors, result, inflight, cq, overflow, file>>
    BY <1>1, Zenon DEF Seed
  <2>. QED
    BY <2>1, FillingKeeps, Zenon
<1>2. CASE FlushSubmissionQueue
  <2>1. /\ Fill /\ pc # "done" /\ pc' \in {"top", "flush"}
        /\ UNCHANGED <<written, errors, result, inflight, cq, overflow, file>>
    BY <1>2, Zenon DEF FlushSubmissionQueue
  <2>. QED
    BY <2>1, FillingKeeps, Zenon
<1>3. CASE SyncCompletionQueue
  <2>1. FlushOverflow /\ pc = "top" /\ pc' = "drain" /\ result' = result
        /\ UNCHANGED <<entries, backlog, outstanding, written, errors, sq, inflight, file>>
    BY <1>3, Zenon DEF SyncCompletionQueue
  <2>2. /\ cq' \in Seq(Event) /\ overflow' \in Seq(Event) /\ Len(cq') <= CqSize
        /\ Completions' = Completions
    BY <1>0, <2>1, FlushKeepsOrder, Zenon
  <2>. QED
    BY <1>0, <2>1, <2>2, MovingKeeps, Zenon
<1>4. ASSUME pc \in {"top", "drain", "flush"}, pc' \in {"top", "drain", "flush", "done"},
             result' = result \/ result' \in {"panic", "incurable"},
             UNCHANGED <<entries, backlog, outstanding, written, errors, kernel>>
      PROVE  BatchInv'
  <2>1. /\ cq' = cq /\ overflow' = overflow /\ Completions' = Completions
        /\ UNCHANGED <<entries, backlog, outstanding, written, errors, sq, inflight, file>>
    BY <1>4, Zenon DEF kernel, Completions
  <2>2. result' \notin {"Ok", "Err"} /\ result' \in {"none", "Ok", "Err", "panic", "incurable"}
    BY <1>0, <1>4, Zenon
  <2>. QED
    BY <1>0, <1>4, <2>1, <2>2, MovingKeeps, Zenon
<1>5. CASE DrainDone
  BY <1>4, <1>5, Zenon DEF DrainDone
<1>6. CASE SyncInterrupted
  BY <1>4, <1>6, Zenon DEF SyncInterrupted
<1>7. CASE FlushInterrupted
  BY <1>4, <1>7, Zenon DEF FlushInterrupted
<1>8. CASE Bail
  <2>1. /\ pc \in {"top", "drain", "flush"} /\ pc' = "done" /\ result' \in {"panic", "incurable"}
        /\ UNCHANGED <<entries, backlog, outstanding, written, errors, kernel>>
    BY <1>8, Zenon DEF Bail
  <2>. QED
    BY <1>4, <2>1, Zenon
<1>9. CASE HandleCompletionEvent
  BY <1>9, HandleKeeps, Zenon
<1>10. CASE ReturnFromBatch
  BY <1>10, ReturnKeeps, Zenon
<1>11. CASE Consume
  BY <1>11, ConsumeKeeps, Zenon
<1>12. CASE Complete
  BY <1>12, CompleteKeeps, Zenon
<1>13. CASE UNCHANGED vars
  <2>1. /\ UNCHANGED <<pc, entries, backlog, outstanding, written, errors, result>>
        /\ UNCHANGED <<sq, inflight, cq, overflow, file>>
    BY <1>13, Zenon DEF vars, thread, kernel
  <2>2. TypeOK' /\ NothingForgotten' /\ Returned'
    BY <2>1, Zenon DEF BatchInv, TypeOK, NothingForgotten, Returned
  <2>3. \A acked : Accounted(acked) => Accounted(acked)'
    BY <2>1, Zenon DEF Accounted, Waiting, Completions
  <2>. QED
    BY <2>2, <2>3, Zenon DEF BatchInv
<1>. QED
  BY <1>1, <1>2, <1>3, <1>5, <1>6, <1>7, <1>8, <1>9, <1>10, <1>11, <1>12, <1>13, ZenonT(30) DEF Next, Proceed

\* The bookkeeping of a batch is right in every state, whatever the kernel does:
\* every write is waiting, with the kernel, failed or finished, in one place, and
\* `written` counts the bytes acknowledged.
THEOREM BatchInvHolds == Spec => []BatchInv
  BY BatchInit, BatchStep, PTL DEF Spec

\* A completion always finds its write: the branch of handle_completion_event
\* for an unknown offset is never taken, and no two completions are of one write.
NoUnknownCompletion ==
    /\ cq # <<>> => \E x \in outstanding : x.original = Head(cq).original
    /\ Distinct(Completions)

\* NoUnknownCompletion holds: while a completion is on its way its write is
\* outstanding, and it is the only one of that write.
THEOREM CompletionsKnown == Spec => []NoUnknownCompletion
<1>1. BatchInv => NoUnknownCompletion
  <2> SUFFICES ASSUME BatchInv PROVE NoUnknownCompletion
    BY Zenon
  <2>1. PICK acked \in [Offsets -> 0..Length] : Accounted(acked)
    BY Zenon DEF BatchInv
  <2>2. Placed(outstanding, sq, inflight, Completions) /\ Unique(outstanding)
    BY <2>1, Zenon DEF Accounted, Held
  <2>3. ASSUME cq # <<>> PROVE \E x \in outstanding : x.original = Head(cq).original
    <3>1. cq \in Seq(Event) /\ overflow \in Seq(Event) /\ outstanding \subseteq Entry
      BY Zenon DEF BatchInv, TypeOK
    <3>2. Completions \in Seq(Event) /\ Completions # <<>> /\ Head(Completions) = Head(cq)
      BY <2>3, <3>1, FirstOfQueue DEF Completions
    <3>. QED
      BY <2>2, <3>1, <3>2, TakeEvent, Zenon
  <2>. QED
    BY <2>2, <2>3, Zenon DEF NoUnknownCompletion, Placed
<1>. QED
  BY <1>1, BatchInvHolds, PTL

\* OutcomeTrue: what the batch returns is true of the file.  When nothing waits
\* and nothing is outstanding, a write without an error is acknowledged in full,
\* and then its whole buffer is in the file; without errors the bytes counted
\* are those of all buffers.
THEOREM OutcomeHolds == Spec => []OutcomeTrue
<1>1. BatchInv => OutcomeTrue
  <2> SUFFICES ASSUME BatchInv PROVE OutcomeTrue
    BY Zenon
  <2>1. PICK acked \in [Offsets -> 0..Length] : Accounted(acked)
    BY Zenon DEF BatchInv
  <2>2. ASSUME result \in {"Ok", "Err"}, NEW o \in Offsets
        PROVE  o \in errors \/ (acked[o] = Length /\ file[o] = [p \in 1..Length |-> p])
    <3>1. backlog = <<>> /\ entries = <<>> /\ outstanding = {}
      BY <2>2, Zenon DEF BatchInv, Returned
    <3>2. Waiting = <<>>
      BY <3>1 DEF Waiting
    <3>3. acked[o] = Length \/ o \in errors
      <4>1. Held(<<>>, {}, errors, acked)
        BY <2>1, <3>1, <3>2, Zenon DEF Accounted
      <4>. QED
        BY <4>1 DEF Held
    <3>4. PICK k \in acked[o]..Length : file[o] = Prefix(k)
      BY <2>1, Zenon DEF Accounted, Stored
    <3>5. acked[o] = Length => k = Length
      BY <3>4, SizesAssumption
    <3>. QED
      BY <3>3, <3>4, <3>5, Zenon DEF Prefix
  <2>3. ASSUME result = "Ok"
        PROVE  /\ \A o \in Offsets : file[o] = [p \in 1..Length |-> p]
               /\ written = Length * Cardinality(Offsets)
    <3>1. errors = {}
      BY <2>3, Zenon DEF BatchInv, Returned
    <3>2. \A o \in Offsets : acked[o] = Length /\ file[o] = [p \in 1..Length |-> p]
      BY <2>2, <2>3, <3>1, Zenon
    <3>3. Acknowledged(acked) = Offsets \X (1..Length)
      <4>1. ASSUME NEW x \in Offsets \X (1..Length) PROVE x \in Acknowledged(acked)
        <5>1. PICK y \in Offsets, z \in 1..Length : x = <<y, z>>
          OBVIOUS
        <5>2. acked[y] = Length
          BY <3>2, Zenon
        <5>3. z <= acked[y]
          BY <5>2, SizesAssumption
        <5>. QED
          BY <5>1, <5>3, Zenon DEF Acknowledged
      <4>. QED
        BY <4>1, Zenon DEF Acknowledged
    <3>4. IsFiniteSet(1..Length) /\ Cardinality(1..Length) = Length
      BY SizesAssumption, FS_Interval
    <3>5. /\ Cardinality(Offsets \X (1..Length)) = Cardinality(Offsets) * Cardinality(1..Length)
          /\ Cardinality(Offsets) \in Nat
      BY <3>4, SizesAssumption, FS_Product, FS_CardinalityType, Zenon
    <3>6. written = Cardinality(Acknowledged(acked))
      BY <2>1, Zenon DEF Accounted
    <3>7. Cardinality(Offsets) * Length = Length * Cardinality(Offsets)
      BY <3>5, SizesAssumption
    <3>. QED
      BY <3>2, <3>3, <3>4, <3>5, <3>6, <3>7, Zenon
  <2>. QED
    BY <2>2, <2>3, Zenon DEF OutcomeTrue
<1>. QED
  BY <1>1, BatchInvHolds, PTL
=============================================================================
