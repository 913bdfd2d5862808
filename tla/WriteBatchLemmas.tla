-------------------------- MODULE WriteBatchLemmas --------------------------
(***************************************************************************)
(* The inductive invariant of WriteBatch, and the lemmas its proof rests   *)
(* on (module WriteBatchProofs).                                           *)
(*                                                                         *)
(* The argument: a write is at all times in one place, waiting (taken from *)
(* the iterator or not), with the kernel, failed, or finished; while it is *)
(* with the kernel its entry is in the submission queue, in flight, or has *)
(* one completion on its way.  So a completion always finds the entry it   *)
(* belongs to, the rest of a short write is submitted from where the       *)
(* kernel stopped, and every byte is counted once.                         *)
(***************************************************************************)
EXTENDS WriteBatch, FiniteSetTheorems, SequenceTheorems, TLAPS

Entry == [original : Offsets, offset : 0..Length, skip : 0..Length]
Event == [original : Offsets, res : {"ok", "again", "error"}, bytes : 0..Length]

\* The writes that wait, in the order they are submitted in, and the completions
\* that are on their way.
Waiting == backlog \o entries
Completions == cq \o overflow

\* The first k bytes of a buffer at their places.
Prefix(k) == [p \in 1..k |-> p]

\* The bytes that completions have acknowledged; acked[o] of write o.
Acknowledged(acked) == {x \in Offsets \X (1..Length) : x[2] <= acked[x[1]]}

Distinct(s) == \A i, j \in DOMAIN s : s[i].original = s[j].original => i = j
Apart(s, S) == \A i \in DOMAIN s, e \in S : s[i].original # e.original
Unique(S) == \A e, f \in S : e.original = f.original => e = f
AtProgress(e, acked) == e.offset = acked[e.original] /\ e.skip = acked[e.original]

\* The thread's side: one entry per write, and it says how much is acknowledged.
\* A write without an entry has failed or is acknowledged in full.
Held(w, out, failed, acked) ==
    /\ Distinct(w) /\ Unique(out) /\ Apart(w, out)
    /\ \A i \in DOMAIN w : AtProgress(w[i], acked)
    /\ \A e \in out : AtProgress(e, acked)
    /\ \A o \in Offsets :
          \/ acked[o] = Length \/ o \in failed
          \/ \E i \in DOMAIN w : w[i].original = o
          \/ \E e \in out : e.original = o

\* The kernel's side: everything it has is outstanding, in one place.
Placed(out, sub, fly, evs) ==
    /\ Distinct(sub) /\ Distinct(evs) /\ fly \subseteq out
    /\ \A i \in DOMAIN sub : sub[i] \in out \ fly
    /\ \A k \in DOMAIN evs :
          \E e \in out : /\ e.original = evs[k].original /\ e \notin fly
                         /\ \A i \in DOMAIN sub : sub[i] # e

\* The file: a prefix of every buffer, at least what is acknowledged or is in a
\* completion.
Stored(f, evs, acked) ==
    /\ \A o \in Offsets : \E k \in acked[o]..Length : f[o] = Prefix(k)
    /\ \A i \in DOMAIN evs :
          \E k \in (acked[evs[i].original] + evs[i].bytes)..Length :
              f[evs[i].original] = Prefix(k)

TypeOK ==
    /\ pc \in {"seed", "top", "drain", "flush", "done"}
    /\ entries \in Seq(Entry) /\ backlog \in Seq(Entry) /\ outstanding \subseteq Entry
    /\ written \in Nat /\ errors \subseteq Offsets
    /\ result \in {"none", "Ok", "Err", "panic", "incurable"}
    /\ sq \in Seq(Entry) /\ inflight \subseteq Entry
    /\ cq \in Seq(Event) /\ overflow \in Seq(Event)
    /\ Len(sq) <= SqSize /\ Len(cq) <= CqSize
    /\ DOMAIN file = Offsets

\* The iterator is not forgotten, although is_finished does not look at it.
NothingForgotten == pc # "seed" /\ entries # <<>> => backlog # <<>>

Returned ==
    result \in {"Ok", "Err"} =>
        /\ pc = "done" /\ entries = <<>> /\ backlog = <<>> /\ outstanding = {}
        /\ result = "Ok" => errors = {}

Accounted(acked) ==
    /\ Held(Waiting, outstanding, errors, acked)
    /\ Placed(outstanding, sq, inflight, Completions)
    /\ Stored(file, Completions, acked)
    /\ written = Cardinality(Acknowledged(acked))

BatchInv ==
    /\ TypeOK /\ NothingForgotten /\ Returned
    /\ \E acked \in [Offsets -> 0..Length] : Accounted(acked)

-----------------------------------------------------------------------------
(* Lemmas on the sequences.                                                *)

\* The smaller of two numbers, as the fill computes it.
LEMMA SmallerOf ==
    ASSUME NEW a \in Nat, NEW b \in Nat
    PROVE  Min({a, b}) = IF a <= b THEN a ELSE b
<1>1. \E x \in {a, b} : \A y \in {a, b} : x =< y
  OBVIOUS
<1>. QED
  BY <1>1 DEF Min

\* A prefix and a suffix of a sequence, element by element.
LEMMA Pieces ==
    ASSUME NEW S, NEW s \in Seq(S), NEW n \in 0..Len(s)
    PROVE  /\ SubSeq(s, 1, n) \in Seq(S) /\ Len(SubSeq(s, 1, n)) = n
           /\ \A i \in 1..n : SubSeq(s, 1, n)[i] = s[i]
           /\ SubSeq(s, n + 1, Len(s)) \in Seq(S)
           /\ Len(SubSeq(s, n + 1, Len(s))) = Len(s) - n
           /\ \A i \in 1..(Len(s) - n) : SubSeq(s, n + 1, Len(s))[i] = s[n + i]
  OBVIOUS

\* A concatenation, element by element.
LEMMA Joined ==
    ASSUME NEW S, NEW s \in Seq(S), NEW t \in Seq(S)
    PROVE  /\ s \o t \in Seq(S) /\ Len(s \o t) = Len(s) + Len(t)
           /\ Len(s) \in Nat /\ Len(t) \in Nat
           /\ DOMAIN (s \o t) = 1..(Len(s) + Len(t))
           /\ \A i \in 1..Len(s) : (s \o t)[i] = s[i]
           /\ \A i \in (Len(s) + 1)..(Len(s) + Len(t)) : (s \o t)[i] = t[i - Len(s)]
  OBVIOUS

\* What a fill that submits n writes leaves of the backlog b and the iterator t.
Leftover(b, t, n, b2, t2) ==
    LET all == b \o t
        full == n < Len(all)
        fromBacklog == Min({Len(b), Taken(n, full)})
        left == SubSeq(b, fromBacklog + 1, Len(b))
    IN  /\ b2 = IF full THEN AddEntryToBacklog(left, all[n + 1]) ELSE left
        /\ t2 = SubSeq(t, Taken(n, full) - fromBacklog + 1, Len(t))

\* w2 is w without its first n, in some order: what was the f[i]-th is the i-th.
Shuffled(w, n, w2, f) ==
    /\ f \in [DOMAIN w2 -> (n + 1)..Len(w)]
    /\ \A i \in DOMAIN w2 : w2[i] = w[f[i]]
    /\ \A i, j \in DOMAIN w2 : f[i] = f[j] => i = j
    /\ \A k \in (n + 1)..Len(w) : \E i \in DOMAIN w2 : f[i] = k

\* What a fill leaves waiting is what it did not submit, in some order, and it
\* leaves nothing in the iterator with an empty backlog.
LEMMA FillLeaves ==
    ASSUME NEW b \in Seq(Entry), NEW t \in Seq(Entry), NEW n \in 0..Len(b \o t),
           NEW b2, NEW t2, Leftover(b, t, n, b2, t2)
    PROVE  /\ b2 \in Seq(Entry) /\ t2 \in Seq(Entry)
           /\ t2 # <<>> => b2 # <<>>
           /\ \E f : Shuffled(b \o t, n, b2 \o t2, f)
<1> DEFINE all == b \o t
           w2 == b2 \o t2
           Lb == Len(b)
           Lt == Len(t)
<1>1. /\ all \in Seq(Entry) /\ Len(all) = Lb + Lt /\ Lb \in Nat /\ Lt \in Nat /\ n \in 0..(Lb + Lt)
      /\ \A i \in 1..Lb : all[i] = b[i]
      /\ \A i \in (Lb + 1)..(Lb + Lt) : all[i] = t[i - Lb]
  BY Joined
<1>2. ASSUME n < Len(all)
      PROVE  /\ b2 = AddEntryToBacklog(SubSeq(b, Min({Lb, n + 1}) + 1, Lb), all[n + 1])
             /\ t2 = SubSeq(t, (n + 1) - Min({Lb, n + 1}) + 1, Lt)
  BY <1>2, Zenon DEF Leftover, Taken
<1>3. ASSUME ~(n < Len(all))
      PROVE  /\ b2 = SubSeq(b, Min({Lb, n}) + 1, Lb)
             /\ t2 = SubSeq(t, n - Min({Lb, n}) + 1, Lt)
  BY <1>3, Zenon DEF Leftover, Taken
<1>4. n < Len(all) => all[n + 1] \in Entry
  BY <1>1
<1>5. n \in Nat /\ n + 1 \in Nat /\ Lb \in Nat /\ Lt \in Nat /\ Len(all) = Lb + Lt /\ n <= Lb + Lt
  BY <1>1
<1>6. ASSUME b2 \in Seq(Entry), t2 \in Seq(Entry)
      PROVE  /\ w2 \in Seq(Entry) /\ DOMAIN w2 = 1..(Len(b2) + Len(t2))
             /\ Len(b2) \in Nat /\ Len(t2) \in Nat
             /\ \A i \in 1..Len(b2) : w2[i] = b2[i]
             /\ \A i \in (Len(b2) + 1)..(Len(b2) + Len(t2)) : w2[i] = t2[i - Len(b2)]
  BY <1>6, Joined
<1> SUFFICES /\ b2 \in Seq(Entry) /\ t2 \in Seq(Entry)
             /\ t2 # <<>> => b2 # <<>>
             /\ \E f : Shuffled(all, n, w2, f)
  BY Zenon
<1> HIDE DEF all, w2, Lb, Lt
\* The rest of the writes in their order.
<1>7. ASSUME DOMAIN w2 = 1..(Lb + Lt - n),
             \A i \in 1..(Lb + Lt - n) : w2[i] = all[n + i]
      PROVE  \E f : Shuffled(all, n, w2, f)
  <2> DEFINE f == [i \in DOMAIN w2 |-> n + i]
  <2>1. f \in [DOMAIN w2 -> (n + 1)..Len(all)]
    BY <1>1, <1>7
  <2>2. \A i \in DOMAIN w2 : f[i] = n + i
    BY Zenon
  <2> HIDE DEF f
  <2>3. \A i \in DOMAIN w2 : w2[i] = all[f[i]]
    BY <1>7, <2>2, Zenon
  <2>4. \A i, j \in DOMAIN w2 : f[i] = f[j] => i = j
    BY <1>1, <1>7, <2>2
  <2>5. \A k \in (n + 1)..Len(all) : \E i \in DOMAIN w2 : f[i] = k
    <3> TAKE k \in (n + 1)..Len(all)
    <3>1. k - n \in DOMAIN w2 /\ n + (k - n) = k
      BY <1>1, <1>7
    <3>. QED
      BY <3>1, <2>2, Zenon
  <2>. QED
    BY <2>1, <2>3, <2>4, <2>5, Zenon DEF Shuffled
<1>8. CASE ~(n < Len(all))
  <2>1. n = Lb + Lt /\ Min({Lb, n}) = Lb
    BY <1>1, <1>5, <1>8, SmallerOf
  <2>2. b2 = SubSeq(b, Lb + 1, Lb) /\ t2 = SubSeq(t, n - Lb + 1, Lt)
    BY <1>3, <1>8, <2>1, Zenon
  <2>3. n - Lb + 1 = Lt + 1
    BY <1>1, <2>1
  <2>4. b2 = <<>> /\ t2 = <<>>
    BY <1>1, <2>2, <2>3 DEF Lb, Lt
  <2>5. b2 \in Seq(Entry) /\ t2 \in Seq(Entry) /\ Len(b2) = 0 /\ Len(t2) = 0
    BY <2>4
  <2>6. DOMAIN w2 = 1..0
    BY <1>6, <2>5
  <2>7. DOMAIN w2 = 1..(Lb + Lt - n) /\ \A i \in 1..(Lb + Lt - n) : w2[i] = all[n + i]
    BY <1>1, <2>1, <2>6
  <2>. QED
    BY <1>7, <2>4, <2>5, <2>7, Zenon
<1>9. CASE n < Len(all) /\ n >= Lb
  <2>1. Min({Lb, n + 1}) = Lb
    BY <1>1, <1>5, <1>9, SmallerOf
  <2>2. /\ b2 = AddEntryToBacklog(SubSeq(b, Lb + 1, Lb), all[n + 1])
        /\ t2 = SubSeq(t, (n + 1) - Lb + 1, Lt)
    BY <1>2, <1>9, <2>1, Zenon
  <2>3. SubSeq(b, Lb + 1, Lb) = <<>>
    BY DEF Lb
  <2>4. b2 = <<all[n + 1]>>
    <3>1. b2 = AddEntryToBacklog(<<>>, all[n + 1]) /\ all[n + 1] \in Entry
      BY <1>4, <1>9, <2>2, <2>3, Zenon
    <3>2. ASSUME NEW e \in Entry PROVE AddEntryToBacklog(<<>>, e) = <<e>>
      BY DEF AddEntryToBacklog
    <3>. QED
      BY <3>1, <3>2, Zenon
  <2>5. b2 \in Seq(Entry) /\ Len(b2) = 1 /\ b2[1] = all[n + 1] /\ b2 # <<>>
    BY <1>4, <1>9, <2>4
  <2> DEFINE m == (n + 1) - Lb
  <2>6. m \in 0..Lt /\ t2 = SubSeq(t, m + 1, Lt)
    BY <1>5, <1>9, <2>2
  <2> HIDE DEF m
  <2>7. /\ t2 \in Seq(Entry) /\ Len(t2) = Lt - m
        /\ \A i \in 1..(Lt - m) : t2[i] = t[m + i]
    BY <2>6, Pieces, Zenon DEF Lt
  <2>8. /\ DOMAIN w2 = 1..(1 + Len(t2)) /\ w2[1] = b2[1]
        /\ \A i \in 2..(1 + Len(t2)) : w2[i] = t2[i - 1]
    BY <1>6, <2>5, <2>7
  <2>9. 1 + Len(t2) = Lb + Lt - n
    BY <1>5, <2>6, <2>7 DEF m
  <2>10. ASSUME NEW i \in 1..(Lb + Lt - n) PROVE w2[i] = all[n + i]
    <3>1. CASE i = 1
      BY <2>5, <2>8, <3>1, Zenon
    <3>2. CASE i # 1
      <4>1. i \in 2..(1 + Len(t2)) /\ i - 1 \in 1..(Lt - m) /\ n + i \in (Lb + 1)..(Lb + Lt)
        BY <1>5, <1>9, <2>6, <2>9, <3>2 DEF m
      <4>2. w2[i] = t[m + (i - 1)]
        BY <2>7, <2>8, <4>1, Zenon
      <4>3. PICK k \in (Lb + 1)..(Lb + Lt) : k = n + i
        BY <4>1, Zenon
      <4>4. all[k] = t[k - Lb] /\ m + (i - 1) = k - Lb
        BY <1>1, <1>5, <4>3 DEF m
      <4>. QED
        BY <4>2, <4>3, <4>4, Zenon
    <3>. QED
      BY <3>1, <3>2, Zenon
  <2>. QED
    BY <1>7, <2>5, <2>7, <2>8, <2>9, <2>10, Zenon
<1>10. CASE n < Lb
  <2> DEFINE left == SubSeq(b, (n + 1) + 1, Lb)
  <2>1. Min({Lb, n + 1}) = n + 1 /\ n < Len(all) /\ n + 1 \in 1..Lb
    <3>1. n < Len(all) /\ n + 1 \in 1..Lb
      BY <1>5, <1>10
    <3>2. Min({Lb, n + 1}) = IF Lb <= n + 1 THEN Lb ELSE n + 1
      BY <1>5, SmallerOf, Zenon
    <3>. QED
      BY <1>5, <3>1, <3>2
  <2>2. b2 = AddEntryToBacklog(left, all[n + 1]) /\ t2 = SubSeq(t, (n + 1) - (n + 1) + 1, Lt)
    BY <1>2, <2>1, Zenon
  <2>3. (n + 1) - (n + 1) + 1 = 1 /\ all[n + 1] = b[n + 1]
    BY <1>1, <2>1
  <2>4. t2 = t
    BY <2>2, <2>3 DEF Lt
  <2>5. /\ left \in Seq(Entry) /\ Len(left) = Lb - (n + 1)
        /\ \A i \in 1..(Lb - (n + 1)) : left[i] = b[(n + 1) + i]
    BY <2>1, Pieces DEF Lb
  <2>6. b2 = AddEntryToBacklog(left, b[n + 1]) /\ b[n + 1] \in Entry
    BY <1>4, <2>1, <2>2, <2>3, Zenon
  <2> HIDE DEF left
  <2>7. ASSUME b2 \in Seq(Entry), Len(b2) = Lb - n
        PROVE  /\ DOMAIN w2 = 1..(Lb + Lt - n)
               /\ \A i \in 1..(Lb - n) : w2[i] = b2[i]
               /\ \A i \in (Lb - n + 1)..(Lb + Lt - n) : w2[i] = all[n + i]
    <3>1. t2 \in Seq(Entry) /\ Len(t2) = Lt
      BY <2>4, Zenon DEF Lt
    <3>2. /\ DOMAIN w2 = 1..((Lb - n) + Lt)
          /\ \A i \in 1..(Lb - n) : w2[i] = b2[i]
          /\ \A i \in ((Lb - n) + 1)..((Lb - n) + Lt) : w2[i] = t[i - (Lb - n)]
      BY <1>6, <2>4, <2>7, <3>1, Zenon
    <3>3. (Lb - n) + Lt = Lb + Lt - n /\ Lb - n \in Nat
      BY <1>1, <1>10
    <3>4. ASSUME NEW i \in (Lb - n + 1)..(Lb + Lt - n) PROVE w2[i] = all[n + i]
      <4>1. n + i \in (Lb + 1)..(Lb + Lt) /\ n + i - Lb = i - (Lb - n)
        BY <1>5, <1>10
      <4>2. w2[i] = t[i - (Lb - n)]
        BY <3>2, <3>3, Zenon
      <4>3. PICK k \in (Lb + 1)..(Lb + Lt) : k = n + i
        BY <4>1, Zenon
      <4>4. all[k] = t[k - Lb] /\ i - (Lb - n) = k - Lb
        BY <1>1, <1>5, <1>10, <4>3
      <4>. QED
        BY <4>2, <4>3, <4>4, Zenon
    <3>. QED
      BY <3>2, <3>3, <3>4, Zenon
  <2>8. CASE b[n + 1].offset = 0
    <3>1. b2 = Append(left, b[n + 1])
      BY <2>6, <2>8, Zenon DEF AddEntryToBacklog
    <3>2. /\ b2 \in Seq(Entry) /\ Len(b2) = Len(left) + 1 /\ b2 # <<>>
          /\ \A i \in 1..Len(left) : b2[i] = left[i]
          /\ b2[Len(left) + 1] = b[n + 1]
      BY <2>5, <2>6, <3>1
    <3>3. Len(left) + 1 = Lb - n /\ Len(left) = Lb - n - 1 /\ Lb - (n + 1) = Lb - n - 1
      BY <1>1, <1>10, <2>5
    <3>4. /\ \A i \in 1..(Lb - n - 1) : b2[i] = b[(n + 1) + i]
          /\ b2[Lb - n] = b[n + 1] /\ Len(b2) = Lb - n
      BY <2>5, <3>2, <3>3, Zenon
    <3> DEFINE g(i) == IF i < Lb - n THEN n + 1 + i ELSE IF i = Lb - n THEN n + 1 ELSE n + i
               f == [i \in DOMAIN w2 |-> g(i)]
    <3>5. /\ DOMAIN w2 = 1..(Lb + Lt - n)
          /\ \A i \in 1..(Lb - n) : w2[i] = b2[i]
          /\ \A i \in (Lb - n + 1)..(Lb + Lt - n) : w2[i] = all[n + i]
      BY <2>7, <3>2, <3>4, Zenon
    <3>6. \A i \in DOMAIN w2 : g(i) \in (n + 1)..Len(all)
      BY <1>1, <1>10, <3>5
    <3>7. ASSUME NEW i \in DOMAIN w2 PROVE w2[i] = all[g(i)]
      <4>1. CASE i < Lb - n
        <5>1. /\ i \in 1..(Lb - n) /\ i \in 1..(Lb - n - 1)
              /\ n + 1 + i \in 1..Lb /\ g(i) = n + 1 + i
          BY <1>1, <1>10, <3>5, <4>1
        <5>. QED
          BY <1>1, <3>4, <3>5, <5>1
      <4>2. CASE i = Lb - n
        <5>1. i \in 1..(Lb - n) /\ g(i) = n + 1
          BY <1>1, <1>10, <4>2
        <5>. QED
          BY <2>3, <3>4, <3>5, <4>2, <5>1, Zenon
      <4>3. CASE ~(i < Lb - n) /\ i # Lb - n
        <5>0. i \in 1..(Lb + Lt - n)
          BY <3>5, Zenon
        <5>1. i \in (Lb - n + 1)..(Lb + Lt - n)
          <6>1. PICK d \in Nat, z \in Int : d = Lb - n /\ z = Lb + Lt - n
            BY <1>5, <1>10
          <6>2. i \in 1..z /\ ~(i < d) /\ i # d
            BY <4>3, <5>0, <6>1, Zenon
          <6>3. i \in (d + 1)..z
            BY <6>2
          <6>. QED
            BY <6>1, <6>3, Zenon
        <5>2. g(i) = n + i
          BY <4>3, Zenon
        <5>. QED
          BY <3>5, <5>1, <5>2, Zenon
      <4>. QED
        BY <4>1, <4>2, <4>3, Zenon
    <3>8. \A i, j \in DOMAIN w2 : g(i) = g(j) => i = j
      BY <1>5, <1>10, <3>5, SMTT(20)
    <3>9. \A k \in (n + 1)..Len(all) : \E i \in DOMAIN w2 : g(i) = k
      <4> TAKE k \in (n + 1)..Len(all)
      <4>1. CASE k = n + 1
        <5>1. Lb - n \in DOMAIN w2 /\ g(Lb - n) = k
          BY <1>1, <1>10, <3>5, <4>1
        <5>. QED
          BY <5>1, Zenon
      <4>2. CASE k # n + 1 /\ k <= Lb
        <5>1. k - n - 1 \in DOMAIN w2 /\ g(k - n - 1) = k
          BY <1>1, <1>10, <3>5, <4>2
        <5>. QED
          BY <5>1, Zenon
      <4>3. CASE k > Lb
        <5>1. k - n \in DOMAIN w2 /\ g(k - n) = k
          BY <1>1, <1>10, <3>5, <4>3
        <5>. QED
          BY <5>1, Zenon
      <4>. QED
        BY <1>1, <4>1, <4>2, <4>3
    <3> HIDE DEF g
    <3>10. f \in [DOMAIN w2 -> (n + 1)..Len(all)] /\ \A i \in DOMAIN w2 : f[i] = g(i)
      BY <3>6, Zenon
    <3> HIDE DEF f
    <3>11. Shuffled(all, n, w2, f)
      BY <3>7, <3>8, <3>9, <3>10, Zenon DEF Shuffled
    <3>. QED
      BY <2>4, <3>2, <3>11, Zenon
  <2>9. CASE b[n + 1].offset # 0
    <3>1. b2 = <<b[n + 1]>> \o left
      BY <2>6, <2>9, Zenon DEF AddEntryToBacklog
    <3>2. /\ b2 \in Seq(Entry) /\ Len(b2) = 1 + Len(left) /\ b2 # <<>>
          /\ b2[1] = b[n + 1]
          /\ \A i \in 2..(1 + Len(left)) : b2[i] = left[i - 1]
      BY <2>5, <2>6, <3>1
    <3>3. Len(b2) = Lb - n /\ Len(left) = Lb - n - 1 /\ Lb - (n + 1) = Lb - n - 1
      BY <1>1, <1>10, <2>5, <3>2
    <3>4. /\ DOMAIN w2 = 1..(Lb + Lt - n)
          /\ \A i \in 1..(Lb - n) : w2[i] = b2[i]
          /\ \A i \in (Lb - n + 1)..(Lb + Lt - n) : w2[i] = all[n + i]
      BY <2>7, <3>2, <3>3, Zenon
    <3>5. ASSUME NEW i \in 1..(Lb + Lt - n) PROVE w2[i] = all[n + i]
      <4>1. CASE i = 1
        <5>1. 1 \in 1..(Lb - n)
          BY <1>1, <1>10
        <5>. QED
          BY <2>3, <3>2, <3>4, <4>1, <5>1, Zenon
      <4>2. CASE i # 1 /\ i <= Lb - n
        <5>1. /\ i \in 1..(Lb - n) /\ i \in 2..(1 + Len(left)) /\ i - 1 \in 1..(Lb - (n + 1))
              /\ n + i \in 1..Lb /\ (n + 1) + (i - 1) = n + i
          BY <1>5, <1>10, <3>3, <4>2
        <5>. QED
          BY <1>1, <2>5, <3>2, <3>4, <5>1
      <4>3. CASE i > Lb - n
        <5>1. i \in (Lb - n + 1)..(Lb + Lt - n)
          BY <1>1, <1>10, <4>3
        <5>. QED
          BY <3>4, <5>1, Zenon
      <4>. QED
        BY <1>1, <1>10, <4>1, <4>2, <4>3
    <3>. QED
      BY <1>7, <2>4, <3>2, <3>4, <3>5, Zenon
  <2>. QED
    BY <2>8, <2>9, Zenon
<1>. QED
  BY <1>1, <1>8, <1>9, <1>10

\* The writes a fill submits.
LEMMA Submitted ==
    ASSUME NEW w \in Seq(Entry), NEW n \in 0..Len(w)
    PROVE  Range(SubSeq(w, 1, n)) = {w[i] : i \in 1..n}
<1>1. DOMAIN SubSeq(w, 1, n) = 1..n /\ \A i \in 1..n : SubSeq(w, 1, n)[i] = w[i]
  BY Pieces
<1>. QED
  BY <1>1, Zenon DEF Range

\* A fill moves writes from waiting to outstanding, and loses none.
LEMMA FillHeld ==
    ASSUME NEW w \in Seq(Entry), NEW n \in 0..Len(w), NEW w2 \in Seq(Entry), NEW f,
           Shuffled(w, n, w2, f), NEW out \in SUBSET Entry, NEW failed, NEW acked,
           Held(w, out, failed, acked)
    PROVE  Held(w2, out \cup Range(SubSeq(w, 1, n)), failed, acked)
<1> DEFINE new == {w[i] : i \in 1..n}
<1>1. Range(SubSeq(w, 1, n)) = new
  BY Submitted, Zenon
<1>2. DOMAIN w = 1..Len(w) /\ Len(w) \in Nat /\ n \in Nat /\ n <= Len(w)
  OBVIOUS
<1>3. /\ \A i \in DOMAIN w2 : f[i] \in (n + 1)..Len(w) /\ w2[i] = w[f[i]]
      /\ \A i, j \in DOMAIN w2 : f[i] = f[j] => i = j
      /\ \A k \in (n + 1)..Len(w) : \E i \in DOMAIN w2 : f[i] = k
  BY Zenon DEF Shuffled
<1>4. \A i \in DOMAIN w2 : f[i] \in DOMAIN w /\ ~(f[i] \in 1..n)
  BY <1>2, <1>3
<1>5. \A i \in 1..n : i \in DOMAIN w
  BY <1>2
<1>6. \A k \in DOMAIN w : k \in 1..n \/ \E i \in DOMAIN w2 : f[i] = k
  BY <1>2, <1>3
<1>7. Distinct(w2)
  BY <1>3, <1>4, SMTT(20) DEF Held, Distinct
<1>8. Unique(out \cup new)
  <2>1. \A e, e2 \in out : e.original = e2.original => e = e2
    BY Zenon DEF Held, Unique
  <2>2. \A i \in 1..n, e \in out : w[i].original # e.original
    BY <1>5, Zenon DEF Held, Apart
  <2>3. \A i, j \in 1..n : w[i].original = w[j].original => w[i] = w[j]
    BY <1>5, Zenon DEF Held, Distinct
  <2>. QED
    BY <2>1, <2>2, <2>3 DEF Unique
<1>9. Apart(w2, out \cup new)
  <2>1. SUFFICES ASSUME NEW i \in DOMAIN w2, NEW e \in out \cup new PROVE w2[i].original # e.original
    BY Zenon DEF Apart
  <2>2. CASE e \in out
    BY <1>3, <1>4, <2>2 DEF Held, Apart
  <2>3. CASE e \in new
    <3>1. PICK j \in 1..n : e = w[j]
      BY <2>3, Zenon
    <3>. QED
      BY <1>3, <1>4, <1>5, <3>1, SMTT(20) DEF Held, Distinct
  <2>. QED
    BY <2>2, <2>3, Zenon
<1>10. /\ \A i \in DOMAIN w2 : AtProgress(w2[i], acked)
       /\ \A e \in out \cup new : AtProgress(e, acked)
  BY <1>3, <1>4, <1>5 DEF Held
<1>11. ASSUME NEW o \in Offsets
       PROVE  \/ acked[o] = Length \/ o \in failed
              \/ \E i \in DOMAIN w2 : w2[i].original = o
              \/ \E e \in out \cup new : e.original = o
  <2>1. ASSUME NEW k \in DOMAIN w, w[k].original = o
        PROVE  \/ \E i \in DOMAIN w2 : w2[i].original = o
               \/ \E e \in out \cup new : e.original = o
    BY <1>3, <1>6, <2>1
  <2>. QED
    BY <2>1, Zenon DEF Held
<1>. QED
  BY <1>1, <1>7, <1>8, <1>9, <1>10, <1>11, Zenon DEF Held

\* A fill gives the kernel only what it does not have.
LEMMA FillPlaced ==
    ASSUME NEW w \in Seq(Entry), NEW n \in 0..Len(w), NEW out \in SUBSET Entry,
           Distinct(w), Apart(w, out),
           NEW sub \in Seq(Entry), NEW fly, NEW evs, Placed(out, sub, fly, evs)
    PROVE  Placed(out \cup Range(SubSeq(w, 1, n)), sub \o SubSeq(w, 1, n), fly, evs)
<1> DEFINE new == {w[i] : i \in 1..n}
           pre == SubSeq(w, 1, n)
           sub2 == sub \o pre
           L == Len(sub)
<1>1. Range(SubSeq(w, 1, n)) = new
  BY Submitted, Zenon
<1>2. pre \in Seq(Entry) /\ Len(pre) = n /\ \A i \in 1..n : pre[i] = w[i]
  BY Pieces
<1>p. pre \in Seq(Entry)
  BY <1>2, Zenon
<1> HIDE DEF pre
<1>3. /\ L \in Nat /\ DOMAIN sub2 = 1..(L + n) /\ DOMAIN sub = 1..L
      /\ \A i \in 1..L : sub2[i] = sub[i]
      /\ \A i \in (L + 1)..(L + n) : sub2[i] = pre[i - L]
  <2>1. /\ L \in Nat /\ DOMAIN sub2 = 1..(L + Len(pre))
        /\ \A i \in 1..L : sub2[i] = sub[i]
        /\ \A i \in (L + 1)..(L + Len(pre)) : sub2[i] = pre[i - L]
    BY <1>p, Joined
  <2>2. DOMAIN sub = 1..L
    OBVIOUS
  <2> HIDE DEF L, sub2
  <2>. QED
    BY <1>2, <2>1, <2>2, Zenon
<1>4. \A i \in 1..n : i \in DOMAIN w
  OBVIOUS
<1> HIDE DEF sub2, L
<1>5. \A i \in DOMAIN sub2 : \/ i \in 1..L /\ sub2[i] = sub[i]
                             \/ i - L \in 1..n /\ sub2[i] = w[i - L]
  <2> TAKE i \in DOMAIN sub2
  <2>1. i \in 1..(L + n)
    BY <1>3, Zenon
  <2>2. CASE i \in 1..L
    <3>1. sub2[i] = sub[i]
      BY <1>3, <2>2, Zenon
    <3>. QED
      BY <2>2, <3>1, Zenon
  <2>3. CASE i \in (L + 1)..(L + n)
    <3>1. i - L \in 1..n
      BY <1>3, <2>3
    <3>. QED
      BY <1>2, <1>3, <2>3, <3>1, Zenon
  <2>. QED
    BY <1>3, <2>1, <2>2, <2>3
<1>6. Distinct(sub2)
  <2>1. SUFFICES ASSUME NEW i \in DOMAIN sub2, NEW j \in DOMAIN sub2,
                        sub2[i].original = sub2[j].original
                 PROVE  i = j
    BY Zenon DEF Distinct
  <2>2. \A k \in 1..L, m \in 1..n : sub[k].original # w[m].original
    BY <1>3, <1>4, Zenon DEF Placed, Apart
  <2>3. \A k, m \in 1..L : sub[k].original = sub[m].original => k = m
    BY <1>3, Zenon DEF Placed, Distinct
  <2>4. \A k, m \in 1..n : w[k].original = w[m].original => k = m
    BY <1>4, Zenon DEF Distinct
  <2>5. i \in Int /\ j \in Int /\ (i - L = j - L => i = j)
    BY <1>3
  <2>. QED
    BY <1>5, <2>1, <2>2, <2>3, <2>4, <2>5, SMTT(20)
<1>7. fly \subseteq out \cup new
  BY Zenon DEF Placed
<1>8. ASSUME NEW i \in DOMAIN sub2 PROVE sub2[i] \in (out \cup new) \ fly
  <2>1. \A m \in 1..n : w[m] \notin out
    BY <1>4, Zenon DEF Apart
  <2>. QED
    BY <1>3, <1>5, <2>1, Zenon DEF Placed
<1>9. ASSUME NEW k \in DOMAIN evs
      PROVE  \E e \in out \cup new : /\ e.original = evs[k].original /\ e \notin fly
                                     /\ \A i \in DOMAIN sub2 : sub2[i] # e
  <2>1. PICK e \in out : /\ e.original = evs[k].original /\ e \notin fly
                         /\ \A i \in DOMAIN sub : sub[i] # e
    BY Zenon DEF Placed
  <2>2. \A m \in 1..n : w[m] # e
    BY <1>4, Zenon DEF Apart
  <2>. QED
    BY <1>3, <1>5, <2>1, <2>2
<1>. QED
  BY <1>1, <1>6, <1>7, <1>8, <1>9, Zenon DEF Placed, sub2, pre

-----------------------------------------------------------------------------
(* A completion.                                                           *)

\* A sequence without its first element.
LEMMA Rest ==
    ASSUME NEW S, NEW s \in Seq(S), s # <<>>
    PROVE  /\ Head(s) = s[1] /\ 1 \in DOMAIN s /\ s[1] \in S /\ Tail(s) \in Seq(S)
           /\ DOMAIN Tail(s) = 1..(Len(s) - 1)
           /\ \A i \in DOMAIN Tail(s) : i + 1 \in DOMAIN s /\ i + 1 # 1 /\ Tail(s)[i] = s[i + 1]
           /\ \A i, j \in DOMAIN Tail(s) : i + 1 = j + 1 => i = j
  OBVIOUS

\* The first completion belongs to the outstanding write with its offset; when
\* both are gone, the others still have theirs.
LEMMA TakeEvent ==
    ASSUME NEW out \in SUBSET Entry, NEW sub, NEW fly, NEW evs \in Seq(Event), evs # <<>>,
           Unique(out), Placed(out, sub, fly, evs)
    PROVE  /\ \E x \in out : x.original = Head(evs).original
           /\ \A e \in out : e.original = Head(evs).original =>
                 Placed(out \ {e}, sub, fly, Tail(evs))
<1> DEFINE rest == Tail(evs)
<1>1. /\ Head(evs) = evs[1] /\ 1 \in DOMAIN evs
      /\ \A i \in DOMAIN rest : i + 1 \in DOMAIN evs /\ i + 1 # 1 /\ rest[i] = evs[i + 1]
      /\ \A i, j \in DOMAIN rest : i + 1 = j + 1 => i = j
  BY Rest, Zenon
<1> HIDE DEF rest
<1>2. PICK x \in out : /\ x.original = evs[1].original /\ x \notin fly
                       /\ \A i \in DOMAIN sub : sub[i] # x
  BY <1>1, Zenon DEF Placed
<1>3. ASSUME NEW e \in out, e.original = Head(evs).original
      PROVE  Placed(out \ {e}, sub, fly, rest)
  <2>1. e = x
    BY <1>1, <1>2, <1>3 DEF Unique
  <2>2. Distinct(sub) /\ fly \subseteq out \ {e} /\ \A i \in DOMAIN sub : sub[i] \in (out \ {e}) \ fly
    BY <1>2, <2>1, Zenon DEF Placed
  <2>3. Distinct(rest)
    BY <1>1 DEF Placed, Distinct
  <2>4. ASSUME NEW k \in DOMAIN rest
        PROVE  \E y \in out \ {e} : /\ y.original = rest[k].original /\ y \notin fly
                                    /\ \A i \in DOMAIN sub : sub[i] # y
    <3>1. rest[k] = evs[k + 1] /\ k + 1 \in DOMAIN evs /\ evs[k + 1].original # evs[1].original
      BY <1>1, Zenon DEF Placed, Distinct
    <3>2. PICK y \in out : /\ y.original = evs[k + 1].original /\ y \notin fly
                           /\ \A i \in DOMAIN sub : sub[i] # y
      BY <3>1, Zenon DEF Placed
    <3>3. y # e
      BY <1>2, <2>1, <3>1, <3>2, Zenon
    <3>. QED
      BY <3>1, <3>2, <3>3, Zenon
  <2>. QED
    BY <2>2, <2>3, <2>4, Zenon DEF Placed
<1>. QED
  BY <1>1, <1>2, <1>3, Zenon DEF rest

\* w2 is w with x inserted at p: what is the i-th now was the f[i]-th.
Inserted(w, x, w2, p, f) ==
    /\ p \in DOMAIN w2 /\ w2[p] = x
    /\ \A i \in DOMAIN w2 \ {p} : f[i] \in DOMAIN w /\ w2[i] = w[f[i]]
    /\ \A i, j \in DOMAIN w2 \ {p} : f[i] = f[j] => i = j
    /\ \A k \in DOMAIN w : \E i \in DOMAIN w2 \ {p} : f[i] = k

\* add_entry_to_backlog loses nothing of what waits, wherever it puts the entry.
LEMMA AddInserts ==
    ASSUME NEW b \in Seq(Entry), NEW t \in Seq(Entry), NEW x \in Entry, NEW b2,
           b2 = AddEntryToBacklog(b, x)
    PROVE  /\ b2 \in Seq(Entry) /\ b2 # <<>>
           /\ \E p, f : Inserted(b \o t, x, b2 \o t, p, f)
<1> DEFINE w == b \o t
           w2 == b2 \o t
           Lb == Len(b)
           Lt == Len(t)
           q == IF x.offset = 0 THEN Lb + 1 ELSE 1
           g(i) == IF i < q THEN i ELSE i - 1
           f == [i \in DOMAIN w2 |-> g(i)]
<1>1. /\ Lb \in Nat /\ Lt \in Nat /\ DOMAIN w = 1..(Lb + Lt)
      /\ \A i \in 1..Lb : w[i] = b[i]
      /\ \A i \in (Lb + 1)..(Lb + Lt) : w[i] = t[i - Lb]
  BY Joined, Zenon
<1>2. /\ b2 \in Seq(Entry) /\ b2 # <<>> /\ Len(b2) = Lb + 1 /\ b2[q] = x
      /\ \A i \in (1..(Lb + 1)) \ {q} : b2[i] = b[g(i)]
  <2>1. CASE x.offset = 0
    BY <2>1 DEF AddEntryToBacklog
  <2>2. CASE x.offset # 0
    BY <2>2 DEF AddEntryToBacklog
  <2>. QED
    BY <2>1, <2>2, Zenon
<1>b. b2 \in Seq(Entry)
  BY <1>2, Zenon
<1>3. /\ DOMAIN w2 = 1..(Len(b2) + Lt)
      /\ \A i \in 1..Len(b2) : w2[i] = b2[i]
      /\ \A i \in (Len(b2) + 1)..(Len(b2) + Lt) : w2[i] = t[i - Len(b2)]
  BY <1>b, Joined
<1>4. q \in 1..(Lb + 1)
  BY <1>1
<1> HIDE DEF w, w2, Lb, Lt, q
<1>5. /\ DOMAIN w2 = 1..(Lb + 1 + Lt)
      /\ \A i \in 1..(Lb + 1) : w2[i] = b2[i]
      /\ \A i \in (Lb + 2)..(Lb + 1 + Lt) : w2[i] = t[i - (Lb + 1)]
  BY <1>1, <1>2, <1>3
<1>6. q \in DOMAIN w2 /\ w2[q] = x
  BY <1>1, <1>2, <1>4, <1>5
<1>7. ASSUME NEW i \in DOMAIN w2 \ {q} PROVE g(i) \in DOMAIN w /\ w2[i] = w[g(i)]
  <2>1. i \in 1..(Lb + 1 + Lt) /\ i # q
    BY <1>5, Zenon
  <2>2. g(i) \in 1..(Lb + Lt)
    BY <1>1, <1>4, <2>1, SMTT(20)
  <2>3. CASE i <= Lb + 1
    <3>1. i \in (1..(Lb + 1)) \ {q} /\ g(i) \in 1..Lb
      BY <1>1, <1>4, <2>1, <2>3
    <3> HIDE DEF g
    <3>2. w2[i] = b[g(i)] /\ w[g(i)] = b[g(i)]
      BY <1>1, <1>2, <1>5, <3>1, Zenon
    <3>. QED
      BY <1>1, <2>2, <3>2, Zenon
  <2>4. CASE i > Lb + 1
    <3>1. /\ i \in (Lb + 2)..(Lb + 1 + Lt) /\ g(i) \in (Lb + 1)..(Lb + Lt)
          /\ g(i) - Lb = i - (Lb + 1)
      BY <1>1, <1>4, <2>1, <2>4, SMTT(20)
    <3> HIDE DEF g
    <3>2. w2[i] = t[i - (Lb + 1)] /\ w[g(i)] = t[g(i) - Lb]
      BY <1>1, <1>5, <3>1, Zenon
    <3>. QED
      BY <1>1, <2>2, <3>1, <3>2, Zenon
  <2>. QED
    BY <1>1, <2>1, <2>3, <2>4
<1>8. \A i, j \in DOMAIN w2 \ {q} : g(i) = g(j) => i = j
  <2>1. \A i, j \in (1..(Lb + 1 + Lt)) \ {q} : g(i) = g(j) => i = j
    BY <1>1, <1>4
  <2>. QED
    BY <1>5, <2>1, Zenon
<1>9. ASSUME NEW k \in DOMAIN w PROVE \E i \in DOMAIN w2 \ {q} : g(i) = k
  <2>1. k \in 1..(Lb + Lt)
    BY <1>1, Zenon
  <2>2. CASE k < q
    <3>1. k \in (1..(Lb + 1 + Lt)) \ {q} /\ g(k) = k
      BY <1>1, <1>4, <2>1, <2>2
    <3>. QED
      BY <1>5, <3>1, Zenon
  <2>3. CASE k >= q
    <3>1. k + 1 \in (1..(Lb + 1 + Lt)) \ {q} /\ g(k + 1) = k
      BY <1>1, <1>4, <2>1, <2>3
    <3>. QED
      BY <1>5, <3>1, Zenon
  <2>. QED
    BY <1>1, <1>4, <2>1, <2>2, <2>3
<1> HIDE DEF g
<1>10. \A i \in DOMAIN w2 : f[i] = g(i)
  BY Zenon
<1> HIDE DEF f
<1>11. Inserted(w, x, w2, q, f)
  BY <1>6, <1>7, <1>8, <1>9, <1>10 DEF Inserted
<1>. QED
  BY <1>2, <1>11, Zenon DEF w, w2

\* The progress of write o after n more bytes.
Advance(acked, o, n) == [acked EXCEPT ![o] = @ + n]

\* A write that failed is in the errors.
LEMMA HeldFailed ==
    ASSUME NEW w, NEW out, NEW failed, NEW acked, Held(w, out, failed, acked), NEW e \in out
    PROVE  Held(w, out \ {e}, failed \cup {e.original}, acked)
<1>1. Distinct(w) /\ Unique(out \ {e}) /\ Apart(w, out \ {e})
  BY Zenon DEF Held, Unique, Apart
<1>2. /\ \A i \in DOMAIN w : AtProgress(w[i], acked)
      /\ \A x \in out \ {e} : AtProgress(x, acked)
  BY Zenon DEF Held
<1>3. ASSUME NEW o \in Offsets
      PROVE  \/ acked[o] = Length \/ o \in failed \cup {e.original}
             \/ \E i \in DOMAIN w : w[i].original = o
             \/ \E x \in out \ {e} : x.original = o
  BY Zenon DEF Held
<1>. QED
  BY <1>1, <1>2, <1>3, Zenon DEF Held

\* A write that advances to its end is no longer held.
LEMMA HeldFinished ==
    ASSUME NEW w, NEW out, NEW failed, NEW acked \in [Offsets -> 0..Length],
           Held(w, out, failed, acked), NEW e \in out, e.original \in Offsets,
           NEW n, acked[e.original] + n = Length,
           \A i \in DOMAIN w : w[i].original \in Offsets, \A x \in out : x.original \in Offsets
    PROVE  Held(w, out \ {e}, failed, Advance(acked, e.original, n))
<1> DEFINE a2 == Advance(acked, e.original, n)
<1>1. \A o \in Offsets : a2[o] = IF o = e.original THEN Length ELSE acked[o]
  BY Zenon DEF Advance
<1> HIDE DEF a2
<1>2. /\ \A i \in DOMAIN w : w[i].original # e.original
      /\ \A x \in out \ {e} : x.original # e.original
  BY Zenon DEF Held, Apart, Unique
<1>3. Distinct(w) /\ Unique(out \ {e}) /\ Apart(w, out \ {e})
  BY Zenon DEF Held, Unique, Apart
<1>4. /\ \A i \in DOMAIN w : AtProgress(w[i], a2)
      /\ \A x \in out \ {e} : AtProgress(x, a2)
  BY <1>1, <1>2, Zenon DEF Held, AtProgress
<1>5. ASSUME NEW o \in Offsets
      PROVE  \/ a2[o] = Length \/ o \in failed
             \/ \E i \in DOMAIN w : w[i].original = o
             \/ \E x \in out \ {e} : x.original = o
  BY <1>1, Zenon DEF Held
<1>. QED
  BY <1>3, <1>4, <1>5, Zenon DEF Held, a2

\* A write that advances, and not to its end, waits again.
LEMMA HeldAgain ==
    ASSUME NEW w, NEW out, NEW failed, NEW acked \in [Offsets -> 0..Length],
           Held(w, out, failed, acked), NEW e \in out, e.original \in Offsets,
           NEW n, NEW x, NEW w2, NEW p, NEW f, Inserted(w, x, w2, p, f),
           x.original = e.original, x.offset = acked[e.original] + n, x.skip = acked[e.original] + n,
           \A i \in DOMAIN w : w[i].original \in Offsets, \A y \in out : y.original \in Offsets
    PROVE  Held(w2, out \ {e}, failed, Advance(acked, e.original, n))
<1> DEFINE a2 == Advance(acked, e.original, n)
<1>1. \A o \in Offsets : a2[o] = IF o = e.original THEN acked[o] + n ELSE acked[o]
  BY Zenon DEF Advance
<1> HIDE DEF a2
<1>2. /\ \A i \in DOMAIN w : w[i].original # e.original
      /\ \A y \in out \ {e} : y.original # e.original
  BY Zenon DEF Held, Apart, Unique
<1>3. /\ p \in DOMAIN w2 /\ w2[p] = x
      /\ \A i \in DOMAIN w2 : i # p => f[i] \in DOMAIN w /\ w2[i] = w[f[i]]
      /\ \A i, j \in DOMAIN w2 : i # p /\ j # p /\ f[i] = f[j] => i = j
      /\ \A k \in DOMAIN w : \E i \in DOMAIN w2 : i # p /\ f[i] = k
  BY Zenon DEF Inserted
<1>4. Distinct(w2)
  BY <1>2, <1>3 DEF Held, Distinct
<1>5. Unique(out \ {e}) /\ Apart(w2, out \ {e})
  BY <1>2, <1>3 DEF Held, Unique, Apart
<1>6. \A i \in DOMAIN w2 : AtProgress(w2[i], a2)
  <2> TAKE i \in DOMAIN w2
  <2>1. CASE i = p
    BY <1>1, <1>3, <2>1, Zenon DEF AtProgress
  <2>2. CASE i # p
    BY <1>1, <1>2, <1>3, <2>2 DEF Held, AtProgress
  <2>. QED
    BY <2>1, <2>2, Zenon
<1>7. \A y \in out \ {e} : AtProgress(y, a2)
  BY <1>1, <1>2, Zenon DEF Held, AtProgress
<1>8. ASSUME NEW o \in Offsets
      PROVE  \/ a2[o] = Length \/ o \in failed
             \/ \E i \in DOMAIN w2 : w2[i].original = o
             \/ \E y \in out \ {e} : y.original = o
  <2>1. CASE o = e.original
    BY <1>3, <2>1, Zenon
  <2>2. CASE o # e.original /\ \E i \in DOMAIN w : w[i].original = o
    BY <1>3, <2>2
  <2>3. CASE o # e.original /\ ~\E i \in DOMAIN w : w[i].original = o
    BY <1>1, <2>3, Zenon DEF Held
  <2>. QED
    BY <2>1, <2>2, <2>3, Zenon
<1>. QED
  BY <1>4, <1>5, <1>6, <1>7, <1>8, Zenon DEF Held, a2

\* What a completion reports is in the file, so the progress it makes is.
LEMMA StoredTaken ==
    ASSUME NEW file0, NEW evs \in Seq(Event), evs # <<>>, Distinct(evs),
           NEW acked \in [Offsets -> 0..Length], Stored(file0, evs, acked)
    PROVE  /\ Stored(file0, Tail(evs), acked)
           /\ Advance(acked, Head(evs).original, Head(evs).bytes) \in [Offsets -> 0..Length]
           /\ Stored(file0, Tail(evs), Advance(acked, Head(evs).original, Head(evs).bytes))
<1> DEFINE rest == Tail(evs)
           o0 == evs[1].original
           n == evs[1].bytes
           a2 == Advance(acked, o0, n)
<1>1. /\ Head(evs) = evs[1] /\ 1 \in DOMAIN evs /\ evs[1] \in Event /\ rest \in Seq(Event)
      /\ \A i \in DOMAIN rest : i + 1 \in DOMAIN evs /\ i + 1 # 1 /\ rest[i] = evs[i + 1]
  BY Rest, Zenon
<1>2. o0 \in Offsets /\ n \in Nat
  BY <1>1 DEF Event
<1> HIDE DEF rest
<1>3. \A i \in DOMAIN rest : rest[i].original # o0 /\ rest[i].original \in Offsets
  <2> TAKE i \in DOMAIN rest
  <2>1. rest[i].original # o0
    BY <1>1, Zenon DEF Distinct
  <2>2. rest[i] \in Event
    BY <1>1
  <2>. QED
    BY <2>1, <2>2, Zenon DEF Event
<1>4. Stored(file0, rest, acked)
  BY <1>1 DEF Stored
<1>5. PICK k \in (acked[o0] + n)..Length : file0[o0] = Prefix(k)
  BY <1>1, Zenon DEF Stored
<1> HIDE DEF o0, n
<1>6. /\ a2 \in [Offsets -> 0..Length]
      /\ \A o \in Offsets : a2[o] = IF o = o0 THEN acked[o] + n ELSE acked[o]
  <2>1. acked[o0] \in 0..Length
    BY <1>2, Zenon
  <2>2. acked[o0] + n \in 0..Length
    BY <1>2, <1>5, <2>1, SizesAssumption
  <2>. QED
    BY <1>2, <2>2, Zenon DEF Advance
<1> HIDE DEF a2
<1>7. \A o \in Offsets : \E j \in a2[o]..Length : file0[o] = Prefix(j)
  BY <1>5, <1>6, Zenon DEF Stored
<1>8. \A i \in DOMAIN rest : \E j \in (a2[rest[i].original] + rest[i].bytes)..Length :
                                file0[rest[i].original] = Prefix(j)
  BY <1>3, <1>4, <1>6, Zenon DEF Stored
<1>9. Stored(file0, rest, a2)
  BY <1>7, <1>8, Zenon DEF Stored
<1>. QED
  BY <1>1, <1>4, <1>6, <1>9, Zenon DEF a2, o0, n, rest

\* The bytes acknowledged are counted once.
LEMMA CountGrows ==
    ASSUME NEW acked \in [Offsets -> 0..Length], NEW o \in Offsets, NEW n \in Nat,
           acked[o] + n <= Length
    PROVE  Cardinality(Acknowledged(Advance(acked, o, n))) = Cardinality(Acknowledged(acked)) + n
<1> DEFINE a == acked[o]
           a2 == Advance(acked, o, n)
           new == {o} \X ((a + 1)..(a + n))
<1>1. \A x \in Offsets : a2[x] = IF x = o THEN a + n ELSE acked[x]
  BY Zenon DEF Advance
<1>2. a \in 0..Length /\ a + n \in 0..Length
  BY SizesAssumption
<1> HIDE DEF a2, a
<1>3. Acknowledged(a2) = Acknowledged(acked) \cup new
  <2>1. ASSUME NEW x \in Acknowledged(a2) PROVE x \in Acknowledged(acked) \cup new
    <3>1. PICK y \in Offsets, z \in 1..Length : x = <<y, z>> /\ z <= a2[y]
      BY DEF Acknowledged
    <3>2. CASE y # o
      BY <1>1, <3>1, <3>2, Zenon DEF Acknowledged
    <3>3. CASE y = o /\ z <= a
      BY <1>1, <3>1, <3>3, Zenon DEF Acknowledged, a
    <3>4. CASE y = o /\ ~(z <= a)
      <4>1. z \in (a + 1)..(a + n)
        BY <1>1, <1>2, <3>1, <3>4
      <4>. QED
        BY <3>1, <3>4, <4>1, Zenon
    <3>. QED
      BY <3>2, <3>3, <3>4, Zenon
  <2>2. ASSUME NEW x \in Acknowledged(acked) PROVE x \in Acknowledged(a2)
    <3>1. PICK y \in Offsets, z \in 1..Length : x = <<y, z>> /\ z <= acked[y]
      BY DEF Acknowledged
    <3>2. acked[y] \in Int /\ z <= a2[y]
      <4>1. CASE y = o
        BY <1>1, <1>2, <3>1, <4>1 DEF a
      <4>2. CASE y # o
        BY <1>1, <3>1, <4>2
      <4>. QED
        BY <4>1, <4>2, Zenon
    <3>. QED
      BY <3>1, <3>2, Zenon DEF Acknowledged
  <2>3. ASSUME NEW x \in new PROVE x \in Acknowledged(a2)
    <3>1. PICK z \in (a + 1)..(a + n) : x = <<o, z>>
      OBVIOUS
    <3>2. z \in 1..Length /\ z <= a2[o]
      BY <1>1, <1>2, SizesAssumption
    <3>. QED
      BY <3>1, <3>2, Zenon DEF Acknowledged
  <2>. QED
    BY <2>1, <2>2, <2>3, Zenon
<1>4. Acknowledged(acked) \cap new = {}
  <2>1. SUFFICES ASSUME NEW x \in Acknowledged(acked), x \in new PROVE FALSE
    BY Zenon
  <2>2. PICK z \in (a + 1)..(a + n) : x = <<o, z>>
    BY <2>1
  <2>3. z <= a
    BY <2>1, <2>2, Zenon DEF Acknowledged, a
  <2>. QED
    BY <1>2, <2>2, <2>3
<1>5. IsFiniteSet(new) /\ Cardinality(new) = n
  <2>1. IsFiniteSet((a + 1)..(a + n)) /\ Cardinality((a + 1)..(a + n)) = n
    <3>1. a + 1 \in Int /\ a + n \in Int /\ (a + 1 > a + n => n = 0) /\ (a + n) - (a + 1) + 1 = n
      BY <1>2
    <3>. QED
      BY <3>1, FS_Interval, Zenon
  <2>2. IsFiniteSet({o}) /\ Cardinality({o}) = 1
    BY FS_Singleton, Zenon
  <2>3. /\ IsFiniteSet(new)
        /\ Cardinality(new) = Cardinality({o}) * Cardinality((a + 1)..(a + n))
    BY <2>1, <2>2, FS_Product, Zenon
  <2>4. Cardinality(new) = 1 * n
    BY <2>1, <2>2, <2>3, Zenon
  <2>5. 1 * n = n
    OBVIOUS
  <2>. QED
    BY <2>3, <2>4, <2>5, Zenon
<1>6. IsFiniteSet(Acknowledged(acked))
  <2>1. IsFiniteSet(Offsets \X (1..Length))
    <3>1. IsFiniteSet(1..Length)
      BY SizesAssumption, FS_Interval
    <3>. QED
      BY <3>1, SizesAssumption, FS_Product, Zenon
  <2>2. Acknowledged(acked) \in SUBSET (Offsets \X (1..Length))
    BY Zenon DEF Acknowledged
  <2>. QED
    BY <2>1, <2>2, FS_Subset, Zenon
<1>7. /\ Cardinality(Acknowledged(acked) \cup new)
           = Cardinality(Acknowledged(acked)) + n - Cardinality({})
      /\ Cardinality({}) = 0 /\ Cardinality(Acknowledged(acked)) \in Nat
  <2>1. Cardinality(Acknowledged(acked) \cup new)
           = Cardinality(Acknowledged(acked)) + Cardinality(new) - Cardinality(Acknowledged(acked) \cap new)
    BY <1>5, <1>6, FS_Union, Zenon
  <2>. QED
    BY <1>4, <1>5, <1>6, <2>1, FS_EmptySet, FS_CardinalityType, Zenon
<1>. QED
  BY <1>3, <1>7 DEF a2

-----------------------------------------------------------------------------
(* The kernel.                                                             *)

\* A sequence with one more element, element by element.
LEMMA Longer ==
    ASSUME NEW S, NEW s \in Seq(S), NEW x \in S
    PROVE  /\ Append(s, x) \in Seq(S) /\ Len(s) + 1 \notin DOMAIN s
           /\ DOMAIN Append(s, x) = DOMAIN s \cup {Len(s) + 1}
           /\ \A i \in DOMAIN s : Append(s, x)[i] = s[i]
           /\ Append(s, x)[Len(s) + 1] = x
  OBVIOUS

\* A completion is of one write in flight, which had none on its way.
LEMMA CompletePlaced ==
    ASSUME NEW out, NEW sub, NEW fly, NEW evs \in Seq(Event), NEW e \in fly, NEW ev \in Event,
           ev.original = e.original, Unique(out), Placed(out, sub, fly, evs)
    PROVE  /\ Placed(out, sub, fly \ {e}, Append(evs, ev))
           /\ \A i \in DOMAIN evs : evs[i].original # e.original
<1> DEFINE evs2 == Append(evs, ev)
           N == Len(evs) + 1
<1>1. /\ N \notin DOMAIN evs /\ DOMAIN evs2 = DOMAIN evs \cup {N}
      /\ \A i \in DOMAIN evs : evs2[i] = evs[i]
      /\ evs2[N] = ev
  BY Longer
<1> HIDE DEF evs2, N
<1>2. \A i \in DOMAIN evs : evs[i].original # e.original
  BY Zenon DEF Placed, Unique
<1>3. Distinct(evs2)
  BY <1>1, <1>2 DEF Placed, Distinct
<1>4. Distinct(sub) /\ fly \ {e} \subseteq out /\ \A i \in DOMAIN sub : sub[i] \in out \ (fly \ {e})
  BY Zenon DEF Placed
<1>5. ASSUME NEW k \in DOMAIN evs2
      PROVE  \E x \in out : /\ x.original = evs2[k].original /\ x \notin fly \ {e}
                            /\ \A i \in DOMAIN sub : sub[i] # x
  <2>1. CASE k \in DOMAIN evs
    BY <1>1, <2>1, Zenon DEF Placed
  <2>2. CASE k = N
    BY <1>1, <2>2, Zenon DEF Placed
  <2>. QED
    BY <1>1, <2>1, <2>2, Zenon
<1>6. Placed(out, sub, fly \ {e}, evs2)
  BY <1>3, <1>4, <1>5, Zenon DEF Placed
<1>. QED
  BY <1>2, <1>6, Zenon DEF evs2

\* The polling thread takes the first submission.
LEMMA ConsumePlaced ==
    ASSUME NEW out, NEW sub \in Seq(Entry), sub # <<>>, NEW fly, NEW evs,
           Placed(out, sub, fly, evs)
    PROVE  Placed(out, Tail(sub), fly \cup {Head(sub)}, evs)
<1> DEFINE rest == Tail(sub)
<1>1. /\ Head(sub) = sub[1] /\ 1 \in DOMAIN sub
      /\ \A i \in DOMAIN rest : i + 1 \in DOMAIN sub /\ i + 1 # 1 /\ rest[i] = sub[i + 1]
      /\ \A i, j \in DOMAIN rest : i + 1 = j + 1 => i = j
  BY Rest, Zenon
<1> HIDE DEF rest
<1>2. Distinct(rest)
  BY <1>1 DEF Placed, Distinct
<1>3. fly \cup {sub[1]} \subseteq out
  BY <1>1, Zenon DEF Placed
<1>4. \A i \in DOMAIN rest : rest[i] \in out \ (fly \cup {sub[1]})
  BY <1>1 DEF Placed, Distinct
<1>5. \A k \in DOMAIN evs :
         \E e \in out : /\ e.original = evs[k].original /\ e \notin fly \cup {sub[1]}
                        /\ \A i \in DOMAIN rest : rest[i] # e
  BY <1>1 DEF Placed
<1>. QED
  BY <1>1, <1>2, <1>3, <1>4, <1>5, Zenon DEF Placed, rest

\* The bytes of a buffer in the file, after n more from progress a.
Overlaid(g, a, n) ==
    [q \in DOMAIN g \cup (a + 1)..(a + n) |->
        IF q \in (a + 1)..(a + n) THEN q - a + a ELSE g[q]]

\* A write at the progress of its entry extends the prefix that is in the file.
LEMMA PrefixGrows ==
    ASSUME NEW k \in Nat, NEW a \in Nat, a <= k, NEW n \in Nat, NEW g, g = Prefix(k)
    PROVE  Overlaid(g, a, n) = Prefix(IF k <= a + n THEN a + n ELSE k)
<1> DEFINE m == IF k <= a + n THEN a + n ELSE k
           h == [q \in DOMAIN g \cup (a + 1)..(a + n) |->
                    IF q \in (a + 1)..(a + n) THEN q - a + a ELSE g[q]]
<1>1. DOMAIN g = 1..k /\ \A q \in 1..k : g[q] = q
  BY Zenon DEF Prefix
<1>2. (1..k) \cup ((a + 1)..(a + n)) = 1..m
  OBVIOUS
<1>3. DOMAIN h = 1..m
  BY <1>1, <1>2, Zenon
<1>4. ASSUME NEW q \in 1..m PROVE h[q] = q
  <2>1. q \in DOMAIN g \cup (a + 1)..(a + n)
    BY <1>1, <1>2, Zenon
  <2>2. h[q] = IF q \in (a + 1)..(a + n) THEN q - a + a ELSE g[q]
    BY <2>1, Zenon
  <2>3. CASE q \in (a + 1)..(a + n)
    <3>1. q - a + a = q
      BY <2>3
    <3>. QED
      BY <2>2, <2>3, <3>1, Zenon
  <2>4. CASE q \notin (a + 1)..(a + n)
    BY <1>1, <2>1, <2>2, <2>4, Zenon
  <2>. QED
    BY <2>3, <2>4, Zenon
<1>5. h = [q \in DOMAIN h |-> h[q]]
  BY Zenon
<1> HIDE DEF h, m
<1>6. h = [q \in 1..m |-> q]
  BY <1>3, <1>4, <1>5, Zenon
<1>. QED
  BY <1>6, Zenon DEF h, m, Prefix, Overlaid
=============================================================================
