----------------------- MODULE RevisionManagerProofs ------------------------
(***************************************************************************)
(* The inductive invariant of RevisionManager, for every set of keys and   *)
(* values, every max_revisions of at least 2, any number of proposals and  *)
(* any faults of the persist worker; every step of a proposal and of a     *)
(* commit keeps it, and what every behaviour satisfies follows from it.    *)
(***************************************************************************)
EXTENDS RevisionManager, SequenceTheorems, TLAPS

Statuses == {"open", "dropped", "rebased", "reaping", "submitting", "cleanup", "committed"}
ParentType == [kind : {"committed", "proposed"}, content : Contents, id : Nat]
ProposalType == [content : Contents, base : Contents, builtOn : ParentType,
                 parent : ParentType, status : Statuses, onto : Nat]
RevisionType == [id : Nat, content : Contents, base : Contents, builtOn : ParentType]

TypeOK ==
  /\ revisions \in Seq(RevisionType) /\ revisions # <<>>
  /\ prop \in Seq(ProposalType) /\ proposals \subseteq DOMAIN prop
  /\ writer \in Nat /\ nextId \in Nat

-----------------------------------------------------------------------------
(* The inductive invariant                                                 *)

\* What r, a proposal or a revision, was built on is a revision by now, the one
\* with the id RootId(ps, r).
Grounded(ps, r) ==
  r.builtOn.kind # "committed" =>
    r.builtOn.id \in DOMAIN ps /\ ps[r.builtOn.id].status = "committed"
RootId(ps, r) == IF r.builtOn.kind = "committed" THEN r.builtOn.id ELSE ps[r.builtOn.id].onto

\* The id was given out before, and to no revision of another content.
Names(revs, fresh, id, c) ==
  /\ id < fresh
  /\ \A i \in DOMAIN revs : revs[i].id = id => revs[i].content = c

\* The ids in use are below this one: a commit in progress has taken an id that
\* nothing refers to yet.
Fresh == IF writer = None THEN nextId ELSE nextId - 1

\* A parent pointer to a revision, original or the result of reparenting.
OnRevision(r) ==
  r.parent.kind = "committed" =>
    /\ Grounded(prop, r) /\ RootId(prop, r) = r.parent.id /\ r.base = r.parent.content
    /\ Names(revisions, Fresh, r.parent.id, r.parent.content)

\* A parent pointer to a proposal is the original one.
OnProposal(r) ==
  r.parent.kind = "proposed" =>
    /\ r.parent.id \in DOMAIN prop /\ r.parent = Proposed(r.parent.id)
    /\ r.builtOn = r.parent /\ r.base = prop[r.parent.id].content

Parents == \A p \in DOMAIN prop : OnRevision(prop[p]) /\ OnProposal(prop[p])

\* A proposal whose revision is in the queue, or equals the current one, has the
\* revision's id; an open one is listed.
Outcomes ==
  \A p \in DOMAIN prop :
    /\ prop[p].status \in {"cleanup", "committed"} =>
         Names(revisions, Fresh, prop[p].onto, prop[p].content)
    /\ prop[p].status = "open" => p \in proposals

\* The commit that holds the write lock is based on the current revision.
Writer ==
  writer # None =>
    /\ writer \in DOMAIN prop
    /\ prop[writer].parent.kind = "committed" /\ prop[writer].parent.id = Current.id
    /\ prop[writer].onto = nextId - 1

History ==
  \A i \in DOMAIN revisions :
    /\ Names(revisions, Fresh, revisions[i].id, revisions[i].content)
    /\ Grounded(prop, revisions[i])

RevisionInv ==
  /\ TypeOK /\ Parents /\ Outcomes /\ Writer /\ History
  /\ HistoryIsChain /\ ChildrenReparented

-----------------------------------------------------------------------------
(* Facts about sequences of proposals, and about the operators above       *)

\* A function on 1..n with values in S is a sequence over S of length n.
LEMMA SeqOfFunction ==
  ASSUME NEW S, NEW n \in Nat, NEW f \in [1..n -> S]
  PROVE  f \in Seq(S) /\ Len(f) = n
BY SeqDef, LenProperties

\* Closing a proposal, or giving it its id, changes its status and its id only.
SetTo(ps, qs, p, s, o) ==
  /\ qs \in Seq(ProposalType) /\ Len(qs) = Len(ps) /\ DOMAIN qs = DOMAIN ps
  /\ \A q \in DOMAIN ps : q # p => qs[q] = ps[q]
  /\ qs[p].content = ps[p].content /\ qs[p].base = ps[p].base
  /\ qs[p].builtOn = ps[p].builtOn /\ qs[p].parent = ps[p].parent
  /\ qs[p].status = s /\ qs[p].onto = o

\* A commit that enters gives its proposal a status and an id.
LEMMA StatusSet ==
  ASSUME NEW ps \in Seq(ProposalType), NEW p \in DOMAIN ps, NEW s \in Statuses, NEW o \in Nat
  PROVE  SetTo(ps, [ps EXCEPT ![p].status = s, ![p].onto = o], p, s, o)
<1>1. /\ ps \in [1..Len(ps) -> ProposalType] /\ Len(ps) \in Nat /\ DOMAIN ps = 1..Len(ps)
  BY LenProperties, Zenon
<1> DEFINE r == [ps[p] EXCEPT !.status = s, !.onto = o]
           qs == [ps EXCEPT ![p].status = s, ![p].onto = o]
<1>0. ps[p] \in ProposalType
  BY <1>1, Zenon
<1>2. /\ r \in ProposalType /\ r.content = ps[p].content /\ r.base = ps[p].base
      /\ r.builtOn = ps[p].builtOn /\ r.parent = ps[p].parent /\ r.status = s /\ r.onto = o
  BY <1>0, Zenon DEF ProposalType
<1>3. qs = [ps EXCEPT ![p] = r]
  BY <1>1, Zenon
<1> HIDE DEF r, qs
<1>4. qs \in [1..Len(ps) -> ProposalType]
  BY <1>1, <1>2, <1>3, Zenon
<1>5. qs \in Seq(ProposalType) /\ Len(qs) = Len(ps)
  BY <1>1, <1>4, SeqOfFunction, Zenon
<1>6. SetTo(ps, qs, p, s, o)
  BY <1>1, <1>2, <1>3, <1>5, Zenon DEF SetTo
<1>. QED
  BY <1>6, Zenon DEF qs

\* The other operations set the status and leave the id.
LEMMA StatusOnly ==
  ASSUME NEW ps \in Seq(ProposalType), NEW p \in DOMAIN ps, NEW s \in Statuses
  PROVE  SetTo(ps, [ps EXCEPT ![p].status = s], p, s, ps[p].onto)
<1>1. /\ ps \in [1..Len(ps) -> ProposalType] /\ Len(ps) \in Nat /\ DOMAIN ps = 1..Len(ps)
  BY LenProperties, Zenon
<1> DEFINE r == [ps[p] EXCEPT !.status = s]
           qs == [ps EXCEPT ![p].status = s]
<1>0. ps[p] \in ProposalType
  BY <1>1, Zenon
<1>2. /\ r \in ProposalType /\ r.content = ps[p].content /\ r.base = ps[p].base
      /\ r.builtOn = ps[p].builtOn /\ r.parent = ps[p].parent /\ r.status = s
      /\ r.onto = ps[p].onto
  BY <1>0, Zenon DEF ProposalType
<1>3. qs = [ps EXCEPT ![p] = r]
  BY <1>1, Zenon
<1> HIDE DEF r, qs
<1>4. qs \in [1..Len(ps) -> ProposalType]
  BY <1>1, <1>2, <1>3, Zenon
<1>5. qs \in Seq(ProposalType) /\ Len(qs) = Len(ps)
  BY <1>1, <1>4, SeqOfFunction, Zenon
<1>6. SetTo(ps, qs, p, s, ps[p].onto)
  BY <1>1, <1>2, <1>3, <1>5, Zenon DEF SetTo
<1>. QED
  BY <1>6, Zenon DEF qs

\* A step leaves what the proposals were built on and what committed ones have
\* become, and an id that names a content goes on naming it.
Extended(ps, qs) ==
  /\ DOMAIN ps \subseteq DOMAIN qs
  /\ \A q \in DOMAIN ps :
       /\ qs[q].content = ps[q].content /\ qs[q].base = ps[q].base
       /\ qs[q].builtOn = ps[q].builtOn
       /\ ps[q].status = "committed" => qs[q].status = "committed" /\ qs[q].onto = ps[q].onto
Kept ==
  /\ Extended(prop, prop')
  /\ \A id \in Nat, c \in Contents :
       Names(revisions, Fresh, id, c) => Names(revisions', Fresh', id, c)

\* The facts about types, in the form the proofs use.
LEMMA Typed ==
  ASSUME RevisionInv
  PROVE  /\ prop \in Seq(ProposalType) /\ DOMAIN prop = 1..Len(prop) /\ Len(prop) \in Nat
         /\ \A q \in DOMAIN prop : prop[q] \in ProposalType /\ q # None
         /\ revisions \in Seq(RevisionType) /\ DOMAIN revisions = 1..Len(revisions)
         /\ Len(revisions) \in Nat \ {0} /\ Current = revisions[Len(revisions)]
         /\ \A i \in DOMAIN revisions : revisions[i] \in RevisionType
         /\ writer \in Nat /\ nextId \in Nat /\ Fresh \in Int
<1>1. TypeOK
  BY Zenon DEF RevisionInv
<1>2. /\ DOMAIN prop = 1..Len(prop) /\ Len(prop) \in Nat
      /\ \A q \in DOMAIN prop : prop[q] \in ProposalType
  BY <1>1, LenProperties, Zenon DEF TypeOK
<1>3. /\ DOMAIN revisions = 1..Len(revisions) /\ Len(revisions) \in Nat
      /\ \A i \in DOMAIN revisions : revisions[i] \in RevisionType
  BY <1>1, LenProperties, Zenon DEF TypeOK
<1>4. Len(revisions) # 0
  BY <1>1, EmptySeq, Zenon DEF TypeOK
<1>. QED
  BY <1>1, <1>2, <1>3, <1>4 DEF TypeOK, Current, None, Fresh

\* What something was built on stays a revision, with the same id.
LEMMA GroundedKept ==
  ASSUME NEW ps, NEW qs, NEW r, Extended(ps, qs), Grounded(ps, r)
  PROVE  Grounded(qs, r) /\ RootId(qs, r) = RootId(ps, r)
BY Zenon DEF Extended, Grounded, RootId

\* Ids stay below a bound that grows.
LEMMA NamesKept ==
  ASSUME NEW revs, NEW f \in Int, NEW g \in Int, f <= g, NEW id \in Nat, NEW c, Names(revs, f, id, c)
  PROVE  Names(revs, g, id, c)
BY DEF Names

\* A parent pointer that a step does not change stays right.
LEMMA ParentKept ==
  ASSUME RevisionInv, Kept, NEW q \in DOMAIN prop, prop'[q].parent = prop[q].parent
  PROVE  (OnRevision(prop[q]) /\ OnProposal(prop[q]))'
<1>1. prop[q] \in ProposalType
  BY LenProperties, Zenon DEF RevisionInv, TypeOK
<1>2. /\ prop'[q].builtOn = prop[q].builtOn /\ prop'[q].base = prop[q].base
  BY Zenon DEF Kept, Extended
<1>3. OnRevision(prop[q]) /\ OnProposal(prop[q])
  BY Zenon DEF RevisionInv, Parents
<1>4. OnProposal(prop[q])'
  BY <1>2, <1>3, Zenon DEF OnProposal, Kept, Extended
<1>5. ASSUME prop[q].parent.kind = "committed" PROVE OnRevision(prop[q])'
  <2>1. /\ Grounded(prop, prop[q]) /\ RootId(prop, prop[q]) = prop[q].parent.id
        /\ prop[q].base = prop[q].parent.content
        /\ Names(revisions, Fresh, prop[q].parent.id, prop[q].parent.content)
    BY <1>3, <1>5, Zenon DEF OnRevision
  <2>2. Names(revisions', Fresh', prop[q].parent.id, prop[q].parent.content)
    BY <1>1, <2>1, Zenon DEF Kept, ProposalType, ParentType
  <2>3. Grounded(prop', prop[q]) /\ RootId(prop', prop[q]) = prop[q].parent.id
    BY <2>1, GroundedKept, Zenon DEF Kept
  <2>4. Grounded(prop', prop'[q]) /\ RootId(prop', prop'[q]) = prop[q].parent.id
    BY <1>2, <2>3, Zenon DEF Grounded, RootId
  <2>. QED
    BY <1>2, <2>1, <2>2, <2>4, Zenon DEF OnRevision
<1>. QED
  BY <1>4, <1>5, Zenon DEF OnRevision

\* When the queue does not change, neither does its history.
LEMMA HistoryKept ==
  ASSUME RevisionInv, Kept, revisions' = revisions
  PROVE  History' /\ HistoryIsChain'
<1>1. /\ \A i \in DOMAIN revisions : revisions[i] \in RevisionType
      /\ DOMAIN revisions = 1..Len(revisions) /\ Len(revisions) \in Nat
  BY LenProperties, Zenon DEF RevisionInv, TypeOK
<1>2. \A i \in DOMAIN revisions :
        /\ Grounded(prop', revisions[i])
        /\ RootId(prop', revisions[i]) = RootId(prop, revisions[i])
  BY GroundedKept, Zenon DEF RevisionInv, History, Kept
<1>3. History'
  BY <1>1, <1>2, Zenon DEF RevisionInv, History, Kept, RevisionType
<1>4. HistoryIsChain'
  BY <1>1, <1>2 DEF RevisionInv, HistoryIsChain, RootId
<1>. QED
  BY <1>3, <1>4, Zenon

-----------------------------------------------------------------------------
(* Steps of the proposals                                                  *)

\* What the steps that leave the parent pointers alone have in common: each then
\* shows what it does to the queue, to statuses and to new proposals.
LEMMA ProposalsStep ==
  ASSUME RevisionInv, TypeOK', Kept, History', HistoryIsChain',
         \A q \in DOMAIN prop :
           /\ prop'[q].parent = prop[q].parent
           /\ prop'[q].status # prop[q].status => prop'[q].status \notin {"open", "committed"}
           /\ prop'[q].status = "open" => (q \in proposals => q \in proposals')
           /\ prop'[q].status = "cleanup" =>
                \/ prop[q].status = "cleanup" /\ prop'[q].onto = prop[q].onto
                \/ Names(revisions', Fresh', prop'[q].onto, prop'[q].content),
         \A q \in DOMAIN prop' \ DOMAIN prop :
           /\ (OnRevision(prop[q]) /\ OnProposal(prop[q]))'
           /\ q \in proposals' /\ prop'[q].status # "committed"
           /\ prop'[q].parent.kind = "proposed" =>
                prop'[prop'[q].parent.id].status # "committed"
           /\ prop'[q].status = "cleanup" =>
                Names(revisions', Fresh', prop'[q].onto, prop'[q].content),
         Writer'
  PROVE  RevisionInv'
<1>2. Parents'
  BY ParentKept, Zenon DEF Parents
<1>3. ASSUME NEW q \in DOMAIN prop PROVE prop[q] \in ProposalType
  BY LenProperties, Zenon DEF RevisionInv, TypeOK
<1>4. Outcomes'
  <2>1. ASSUME NEW q \in DOMAIN prop, prop'[q].status \in {"cleanup", "committed"}
        PROVE  Names(revisions', Fresh', prop'[q].onto, prop'[q].content)
    <3>1. CASE prop'[q].onto = prop[q].onto /\ prop[q].status \in {"cleanup", "committed"}
      <4>1. Names(revisions, Fresh, prop[q].onto, prop[q].content)
        BY <3>1, Zenon DEF RevisionInv, Outcomes
      <4>. QED
        BY <1>3, <3>1, <4>1, Zenon DEF Kept, Extended, ProposalType
    <3>. QED
      BY <2>1, <3>1, Zenon DEF Kept, Extended
  <2>2. ASSUME NEW q \in DOMAIN prop, prop'[q].status = "open" PROVE q \in proposals'
    BY <2>2, Zenon DEF RevisionInv, Outcomes
  <2>. QED
    BY <2>1, <2>2, Zenon DEF Outcomes
<1>5. ChildrenReparented'
  <2> SUFFICES ASSUME NEW q \in proposals', prop'[q].status = "open",
                      prop'[q].parent.kind = "proposed"
               PROVE  prop'[prop'[q].parent.id].status # "committed"
    BY Zenon DEF ChildrenReparented
  <2>1. q \in DOMAIN prop'
    BY Zenon DEF TypeOK
  <2>2. CASE q \in DOMAIN prop
    <3>1. prop[q].status = "open" /\ q \in proposals /\ prop[q].parent.kind = "proposed"
      BY <2>2, Zenon DEF RevisionInv, Outcomes
    <3>2. prop[q].parent.id \in DOMAIN prop /\ prop[prop[q].parent.id].status # "committed"
      BY <2>2, <3>1, Zenon DEF RevisionInv, Parents, OnProposal, ChildrenReparented
    <3>. QED
      BY <2>2, <3>2, Zenon
  <2>. QED
    BY <2>1, <2>2, Zenon
<1>. QED
  BY <1>2, <1>4, <1>5, Zenon DEF RevisionInv

\* Readers and failures of the persist worker do not disturb the invariant.
LEMMA OtherSteps ==
  ASSUME RevisionInv,
         UNCHANGED <<revisions, byHash, prop, proposals, writer, nextId>>,
         persistError' = persistError \/ persistError' = TRUE
  PROVE  RevisionInv'
BY Zenon DEF RevisionInv, TypeOK, Parents, OnRevision, OnProposal, Outcomes, Writer, History,
       HistoryIsChain, ChildrenReparented, Fresh, Current

\* An open proposal is dropped: by its caller, or by a commit that is refused.
LEMMA DroppedStep ==
  ASSUME RevisionInv, NEW p \in DOMAIN prop, prop[p].status = "open",
         prop' = [prop EXCEPT ![p].status = "dropped"],
         proposals' = proposals \/ proposals' = proposals \ {p},
         UNCHANGED <<revisions, byHash, writer, nextId, persistError>>
  PROVE  RevisionInv'
<1>1. prop \in Seq(ProposalType) /\ "dropped" \in Statuses
  BY Typed, Zenon DEF Statuses
<1>0. SetTo(prop, prop', p, "dropped", prop[p].onto)
  BY <1>1, StatusOnly, Zenon
<1>2. /\ prop' \in Seq(ProposalType) /\ DOMAIN prop' = DOMAIN prop
      /\ \A q \in DOMAIN prop : q # p => prop'[q] = prop[q]
      /\ prop'[p].content = prop[p].content /\ prop'[p].base = prop[p].base
      /\ prop'[p].builtOn = prop[p].builtOn /\ prop'[p].parent = prop[p].parent
      /\ prop'[p].status = "dropped" /\ prop'[p].onto = prop[p].onto
  BY <1>0, Zenon DEF SetTo
<1>3. TypeOK'
  BY <1>2, Zenon DEF RevisionInv, TypeOK
<1>4. Fresh' = Fresh
  BY Zenon DEF Fresh
<1>5. Kept
  BY <1>2, <1>4, Zenon DEF Kept, Extended
<1>6. Writer'
  BY <1>2 DEF RevisionInv, Writer, Current
<1>. QED
  BY <1>2, <1>3, <1>5, <1>6, HistoryKept, ProposalsStep, Zenon
\* EmptyTrie and what a rebase makes are contents.
LEMMA ContentsTyped ==
  /\ EmptyTrie \in Contents
  /\ \A p : prop[p].content \in Contents /\ Current.content \in Contents => Rebased(p) \in Contents
BY Zenon DEF EmptyTrie, Contents, Rebased

\* A database opened with what was stored.
LEMMA InitInv == Init => RevisionInv
<1> SUFFICES ASSUME Init PROVE RevisionInv
  BY Zenon
<1>0. PICK c \in Stored :
        revisions = <<[id |-> 1, content |-> c, base |-> c, builtOn |-> Committed(c, None)]>>
  BY Zenon DEF Init
<1> DEFINE r == [id |-> 1, content |-> c, base |-> c, builtOn |-> Committed(c, None)]
<1>1. r \in RevisionType
  <2>1. c \in Contents
    BY ContentsAssumption, Zenon DEF Contents
  <2>. QED
    BY <2>1, Zenon DEF RevisionType, ParentType, Committed, None
<1>2. /\ revisions = <<r>> /\ prop = <<>> /\ proposals = {} /\ writer = None /\ nextId = 2
  BY <1>0, Zenon DEF Init
<1>3. r.id = 1 /\ r.content = c /\ r.builtOn.kind = "committed"
  BY Zenon DEF Committed
<1> HIDE DEF r
<1>4. revisions \in Seq(RevisionType) /\ Len(revisions) = 1 /\ revisions[1] = r
  BY <1>1, <1>2
<1>5. TypeOK
  BY <1>2, <1>4, EmptySeq, Zenon DEF TypeOK, None
<1>6. DOMAIN prop = {} /\ DOMAIN revisions = {1}
  BY <1>2, <1>4
<1>7. Parents /\ Outcomes /\ Writer /\ ChildrenReparented
  BY <1>2, <1>6, Zenon DEF Parents, Outcomes, Writer, ChildrenReparented
<1>8. History /\ HistoryIsChain
  BY <1>2, <1>3, <1>4, <1>6 DEF History, HistoryIsChain, Names, Grounded, Fresh
<1>. QED
  BY <1>5, <1>7, <1>8, Zenon DEF RevisionInv

\* A new proposal is well-typed, and points where the invariant wants it to.
LEMMA NewProposalTyped ==
  ASSUME NEW c \in Contents, NEW base \in Contents, NEW parent \in ParentType
  PROVE  LET r == NewProposal(c, base, parent) IN
         /\ r \in ProposalType /\ r.content = c /\ r.base = base /\ r.builtOn = parent
         /\ r.parent = parent /\ r.status = "open" /\ r.onto = None
BY Zenon DEF NewProposal, ProposalType, Statuses, None

\* The current revision, as a parent.
LEMMA CurrentParent ==
  ASSUME RevisionInv
  PROVE  /\ Current \in RevisionType /\ Current.content \in Contents /\ Current.id \in Nat
         /\ Committed(Current.content, Current.id) \in ParentType
         /\ Names(revisions, Fresh, Current.id, Current.content)
<1>1. Current \in RevisionType
  BY Typed
<1>2. Names(revisions, Fresh, Current.id, Current.content)
  BY Typed DEF RevisionInv, History
<1>. QED
  BY <1>1, <1>2, Zenon DEF RevisionType, ParentType, Committed

\* A proposal made on the current revision starts out as the invariant demands.
LEMMA OnCurrent ==
  ASSUME RevisionInv, revisions' = revisions, Fresh' = Fresh, NEW r,
         r.parent = Committed(Current.content, Current.id), r.builtOn = r.parent,
         r.base = Current.content, NEW q, prop'[q] = r
  PROVE  (OnRevision(prop[q]) /\ OnProposal(prop[q]))' /\ r.parent.kind # "proposed"
<1>1. r.parent.kind = "committed" /\ r.parent.id = Current.id /\ r.parent.content = Current.content
  BY DEF Committed
<1>2. Names(revisions', Fresh', r.parent.id, r.parent.content)
  BY <1>1, CurrentParent, Zenon
<1>3. Grounded(prop', r) /\ RootId(prop', r) = r.parent.id
  BY <1>1, Zenon DEF Grounded, RootId
<1>. QED
  BY <1>1, <1>2, <1>3, Zenon DEF OnRevision, OnProposal

\* Appending an open proposal: Db::propose and Proposal::propose.
LEMMA AppendStep ==
  ASSUME RevisionInv, NEW r \in ProposalType, prop' = Append(prop, r), r.status = "open",
         proposals' = proposals \cup {Len(prop')},
         UNCHANGED <<revisions, byHash, writer, nextId, persistError>>,
         (OnRevision(prop[Len(prop)]) /\ OnProposal(prop[Len(prop)]))',
         r.parent.kind = "proposed" =>
           r.parent.id \in DOMAIN prop /\ prop[r.parent.id].status # "committed"
  PROVE  RevisionInv'
<1>1. /\ prop \in Seq(ProposalType) /\ DOMAIN prop = 1..Len(prop) /\ Len(prop) \in Nat
  BY Typed, Zenon
<1>2. /\ prop' \in Seq(ProposalType) /\ Len(prop') = Len(prop) + 1
      /\ \A q \in 1..Len(prop) : prop'[q] = prop[q]
      /\ prop'[Len(prop) + 1] = r
  BY <1>1, AppendProperties
<1>3. DOMAIN prop' = 1..(Len(prop) + 1)
  BY <1>2, LenProperties, Zenon
<1>4. DOMAIN prop' \ DOMAIN prop = {Len(prop')} /\ DOMAIN prop \subseteq DOMAIN prop'
  BY <1>1, <1>2, <1>3
<1>5. TypeOK'
  BY <1>1, <1>2, <1>3 DEF RevisionInv, TypeOK
<1>6. Fresh' = Fresh
  BY Zenon DEF Fresh
<1>7. Kept
  BY <1>1, <1>2, <1>4, <1>6, Zenon DEF Kept, Extended
<1>8. Writer'
  BY <1>1, <1>2, <1>4, Zenon DEF RevisionInv, Writer, Current
<1>10. prop'[Len(prop')] = r
  BY <1>2, Zenon
<1>11. \A q \in DOMAIN prop : prop'[q] = prop[q]
  BY <1>1, <1>2, Zenon
<1>. QED
  BY <1>4, <1>5, <1>7, <1>8, <1>10, <1>11, HistoryKept, ProposalsStep, Zenon

\* Db::propose keeps the invariant: the parent is the current revision.
LEMMA ProposeStep == ASSUME RevisionInv, NEW c \in Contents, Propose(c) PROVE RevisionInv'
<1> DEFINE r == NewProposal(c, Current.content, Committed(Current.content, Current.id))
<1>1. /\ r \in ProposalType /\ r.base = Current.content /\ r.builtOn = r.parent
      /\ r.parent = Committed(Current.content, Current.id) /\ r.status = "open"
  BY CurrentParent, NewProposalTyped
<1>2. /\ prop' = Append(prop, r) /\ proposals' = proposals \cup {Len(prop')}
      /\ UNCHANGED <<revisions, byHash, writer, nextId, persistError>>
  BY Zenon DEF Propose
<1> HIDE DEF r
<1>3. prop'[Len(prop')] = r
  BY <1>1, <1>2, Typed, AppendProperties
<1>4. Fresh' = Fresh
  BY <1>2, Zenon DEF Fresh
<1>5. (OnRevision(prop[Len(prop)]) /\ OnProposal(prop[Len(prop)]))' /\ r.parent.kind # "proposed"
  BY <1>1, <1>2, <1>3, <1>4, OnCurrent, Zenon
<1>. QED
  BY <1>1, <1>2, <1>5, AppendStep, Zenon

\* Proposal::propose keeps the invariant: the borrowed parent is open, hence not
\* committed yet.
LEMMA ProposeOnStep ==
  ASSUME RevisionInv, NEW p \in DOMAIN prop, NEW c \in Contents, ProposeOn(p, c)
  PROVE  RevisionInv'
<1> DEFINE r == NewProposal(c, prop[p].content, Proposed(p))
<1>1. prop[p].content \in Contents /\ p \in Nat
  BY Typed DEF ProposalType
<1>2. Proposed(p) \in ParentType /\ Proposed(p).kind = "proposed" /\ Proposed(p).id = p
  BY <1>1, ContentsTyped, Zenon DEF Proposed, ParentType
<1>3. /\ r \in ProposalType /\ r.base = prop[p].content /\ r.builtOn = Proposed(p)
      /\ r.parent = Proposed(p) /\ r.status = "open"
  BY <1>1, <1>2, NewProposalTyped
<1>4. /\ prop' = Append(prop, r) /\ proposals' = proposals \cup {Len(prop')}
      /\ prop[p].status = "open"
      /\ UNCHANGED <<revisions, byHash, writer, nextId, persistError>>
  BY Zenon DEF ProposeOn
<1> HIDE DEF r
<1>5. /\ prop'[Len(prop')] = r /\ prop'[p] = prop[p] /\ p \in DOMAIN prop'
  BY <1>3, <1>4, Typed, AppendProperties, LenProperties
<1>6. (OnRevision(prop[Len(prop)]) /\ OnProposal(prop[Len(prop)]))'
  BY <1>2, <1>3, <1>5, Zenon DEF OnRevision, OnProposal
<1>. QED
  BY <1>2, <1>3, <1>4, <1>6, AppendStep, Zenon

-----------------------------------------------------------------------------
(* Steps of a commit                                                       *)

\* A commit enters its critical section with the proposal q of ps: an open one,
\* or the one a rebase has just made.
LEMMA EnterStep ==
  ASSUME RevisionInv, writer = None, UNCHANGED <<revisions, byHash, persistError>>,
         NEW ps \in Seq(ProposalType), NEW q \in DOMAIN ps, Enter(ps, q),
         DOMAIN prop \subseteq DOMAIN ps, DOMAIN ps \subseteq DOMAIN prop \cup {q},
         \A x \in DOMAIN prop :
           /\ ps[x].content = prop[x].content /\ ps[x].base = prop[x].base
           /\ ps[x].builtOn = prop[x].builtOn /\ ps[x].parent = prop[x].parent
           /\ ps[x].onto = prop[x].onto
           /\ \/ ps[x].status = prop[x].status
              \/ prop[x].status = "open" /\ ps[x].status = "rebased",
         q \in DOMAIN prop => prop[q].status = "open",
         ps[q].parent.kind = "committed", ps[q].parent.id = Current.id,
         q \notin DOMAIN prop =>
           /\ q \in proposals' /\ ps[q].parent = Committed(Current.content, Current.id)
           /\ ps[q].builtOn = ps[q].parent /\ ps[q].base = Current.content,
         proposals' \subseteq DOMAIN ps,
         \A x \in proposals : ps[x].status = "open" => x \in proposals'
  PROVE  RevisionInv'
<1>1. /\ nextId \in Nat /\ Fresh = nextId /\ q # None /\ q \in Nat
      /\ DOMAIN ps = 1..Len(ps) /\ Len(ps) \in Nat
  BY Typed, LenProperties DEF Fresh, None
<1>2. PICK s \in {"cleanup", "reaping"}, o \in Nat :
        /\ SetTo(ps, prop', q, s, o)
        /\ s = "cleanup" =>
             ps[q].content = Current.content /\ o = Current.id /\ UNCHANGED <<writer, nextId>>
        /\ s = "reaping" => o = nextId /\ writer' = q /\ nextId' = nextId + 1
  <2>1. "cleanup" \in Statuses /\ "reaping" \in Statuses /\ Current.id \in Nat
    BY CurrentParent, Zenon DEF Statuses
  <2>2. CASE ps[q].content = Current.content
    <3>1. /\ prop' = [ps EXCEPT ![q].status = "cleanup", ![q].onto = Current.id]
          /\ UNCHANGED <<writer, nextId>>
      BY <2>2, Zenon DEF Enter
    <3>2. SetTo(ps, prop', q, "cleanup", Current.id)
      BY <2>1, <3>1, StatusSet, Zenon
    <3>. QED
      BY <2>1, <2>2, <3>1, <3>2, Zenon
  <2>3. CASE ps[q].content # Current.content
    <3>1. /\ prop' = [ps EXCEPT ![q].status = "reaping", ![q].onto = nextId]
          /\ writer' = q /\ nextId' = nextId + 1
      BY <2>3, Zenon DEF Enter
    <3>2. SetTo(ps, prop', q, "reaping", nextId)
      BY <1>1, <2>1, <3>1, StatusSet, Zenon
    <3>. QED
      BY <1>1, <3>1, <3>2, Zenon
  <2>. QED
    BY <2>2, <2>3, Zenon
<1>3. /\ prop' \in Seq(ProposalType) /\ DOMAIN prop' = DOMAIN ps
      /\ \A x \in DOMAIN ps : x # q => prop'[x] = ps[x]
      /\ prop'[q].content = ps[q].content /\ prop'[q].base = ps[q].base
      /\ prop'[q].builtOn = ps[q].builtOn /\ prop'[q].parent = ps[q].parent
      /\ prop'[q].status = s /\ prop'[q].onto = o
  BY <1>2, Zenon DEF SetTo
<1>4. Fresh' = Fresh /\ writer' \in Nat /\ nextId' \in Nat
  BY <1>1, <1>2 DEF Fresh, None
<1>5. TypeOK'
  BY <1>3, <1>4, Zenon DEF RevisionInv, TypeOK
<1>6. \A x \in DOMAIN prop :
        /\ prop'[x].content = prop[x].content /\ prop'[x].base = prop[x].base
        /\ prop'[x].builtOn = prop[x].builtOn /\ prop'[x].parent = prop[x].parent
        /\ \/ prop'[x].status = prop[x].status /\ prop'[x].onto = prop[x].onto
           \/ prop[x].status = "open" /\ prop'[x].status = "rebased"
           \/ prop[x].status = "open" /\ x = q
  BY <1>3
<1>7. Kept
  <2>1. Extended(prop, prop')
    BY <1>3, <1>6, Zenon DEF Extended
  <2>. QED
    BY <1>4, <2>1, Zenon DEF Kept
<1>8. Writer'
  <2>1. CASE s = "cleanup"
    BY <1>2, <2>1, Zenon DEF Writer
  <2>2. CASE s = "reaping"
    <3>1. Current' = Current /\ writer' = q /\ o = nextId' - 1
      BY <1>1, <1>2, <2>2 DEF Current
    <3>. QED
      BY <1>3, <3>1, Zenon DEF Writer
  <2>. QED
    BY <2>1, <2>2, Zenon
<1>10. s = "cleanup" => Names(revisions', Fresh', prop'[q].onto, prop'[q].content)
  BY <1>2, <1>3, <1>4, CurrentParent, Zenon
<1>11. q \notin DOMAIN prop =>
         (OnRevision(prop[q]) /\ OnProposal(prop[q]))' /\ prop'[q].parent.kind # "proposed"
  BY <1>3, <1>4, OnCurrent
<1>12. \A x \in DOMAIN prop :
        /\ prop'[x].parent = prop[x].parent
        /\ prop'[x].status # prop[x].status => prop'[x].status \notin {"open", "committed"}
        /\ prop'[x].status = "open" => (x \in proposals => x \in proposals')
        /\ prop'[x].status = "cleanup" =>
             \/ prop[x].status = "cleanup" /\ prop'[x].onto = prop[x].onto
             \/ Names(revisions', Fresh', prop'[x].onto, prop'[x].content)
  BY <1>3, <1>6, <1>10
<1>13. \A x \in DOMAIN prop' \ DOMAIN prop : x = q
  BY <1>3, Zenon
<1>. QED
  BY <1>3, <1>5, <1>7, <1>8, <1>10, <1>11, <1>12, <1>13, HistoryKept, ProposalsStep, Zenon

\* commit past its checks: the parent id is that of the current revision.
LEMMA BeginCommitStep ==
  ASSUME RevisionInv, NEW p \in DOMAIN prop, BeginCommit(p) PROVE RevisionInv'
<1>1. /\ prop[p].status = "open" /\ writer = None /\ Enter(prop, p)
      /\ prop[p].parent.kind = "committed" /\ prop[p].parent.id = Current.id
      /\ UNCHANGED <<revisions, byHash, proposals, persistError>>
  BY Zenon DEF BeginCommit, ParentIdIs
<1>2. prop \in Seq(ProposalType) /\ proposals \subseteq DOMAIN prop
  BY Zenon DEF RevisionInv, TypeOK
<1>. QED
  BY <1>1, <1>2, EnterStep, Zenon

\* commit_with_rebase: refused by a failed worker, or entering with the proposal
\* it makes on the current revision.
LEMMA RebaseStep == ASSUME RevisionInv, NEW p \in DOMAIN prop, Rebase(p) PROVE RevisionInv'
<1>1. CASE persistError
  BY <1>1, DroppedStep, Zenon DEF Rebase
<1>2. CASE ~persistError
  <2> DEFINE open == [prop EXCEPT ![p].status = "rebased"]
             r == NewProposal(Rebased(p), Current.content, Committed(Current.content, Current.id))
             ps == Append(open, r)
             q == Len(prop) + 1
  <2>1. /\ prop \in Seq(ProposalType) /\ DOMAIN prop = 1..Len(prop) /\ Len(prop) \in Nat
        /\ proposals \subseteq DOMAIN prop /\ prop[p] \in ProposalType /\ "rebased" \in Statuses
    BY Typed, Zenon DEF RevisionInv, TypeOK, Statuses
  <2>2. SetTo(prop, open, p, "rebased", prop[p].onto)
    BY <2>1, StatusOnly, Zenon
  <2>3. Rebased(p) \in Contents
    BY <2>1, CurrentParent, ContentsTyped, Zenon DEF ProposalType
  <2>4. /\ r \in ProposalType /\ r.base = Current.content /\ r.builtOn = r.parent
        /\ r.parent = Committed(Current.content, Current.id) /\ r.content = Rebased(p)
    BY <2>3, CurrentParent, NewProposalTyped
  <2>5. /\ prop[p].status = "open" /\ writer = None
        /\ proposals' = (proposals \ {p}) \cup {q} /\ Enter(ps, q)
        /\ UNCHANGED <<revisions, byHash, persistError>>
    BY <1>2, Zenon DEF Rebase
  <2>6. r.parent.kind = "committed" /\ r.parent.id = Current.id
    BY <2>4 DEF Committed
  <2> HIDE DEF open, r
  <2>7. /\ open \in Seq(ProposalType) /\ Len(open) = Len(prop)
        /\ \A x \in DOMAIN prop : x # p => open[x] = prop[x]
        /\ open[p].content = prop[p].content /\ open[p].base = prop[p].base
        /\ open[p].builtOn = prop[p].builtOn /\ open[p].parent = prop[p].parent
        /\ open[p].status = "rebased" /\ open[p].onto = prop[p].onto
    BY <2>2, Zenon DEF SetTo
  <2>8. /\ ps \in Seq(ProposalType) /\ Len(ps) = Len(prop) + 1 /\ ps[q] = r
        /\ \A x \in DOMAIN prop : ps[x] = open[x]
    BY <2>1, <2>4, <2>7, AppendProperties
  <2>9. DOMAIN ps = 1..q /\ q \notin DOMAIN prop
    BY <2>1, <2>8, LenProperties
  <2> HIDE DEF ps
  <2>10. /\ DOMAIN prop \subseteq DOMAIN ps /\ DOMAIN ps \subseteq DOMAIN prop \cup {q}
         /\ q \in DOMAIN ps /\ proposals' \subseteq DOMAIN ps
    BY <2>1, <2>5, <2>9
  <2>11. \A x \in DOMAIN prop :
           /\ ps[x].content = prop[x].content /\ ps[x].base = prop[x].base
           /\ ps[x].builtOn = prop[x].builtOn /\ ps[x].parent = prop[x].parent
           /\ ps[x].onto = prop[x].onto
           /\ \/ ps[x].status = prop[x].status
              \/ prop[x].status = "open" /\ ps[x].status = "rebased"
    BY <2>5, <2>7, <2>8, Zenon
  <2>12. \A x \in proposals : ps[x].status = "open" => x \in proposals'
    BY <2>1, <2>5, <2>7, <2>8, Zenon
  <2> HIDE DEF q
  <2>. QED
    BY <2>4, <2>5, <2>6, <2>8, <2>9, <2>10, <2>11, <2>12, EnterStep, Zenon DEF q
<1>. QED
  BY <1>1, <1>2, Zenon
\* When the oldest revision leaves, the rest of the history is what it was.
LEMMA TailKept ==
  ASSUME RevisionInv, revisions' = Tail(revisions), Len(revisions) >= 2
  PROVE  /\ revisions' \in Seq(RevisionType) /\ revisions' # <<>> /\ Current' = Current
         /\ \A f \in Int, id \in Nat, c \in Contents :
              Names(revisions, f, id, c) => Names(revisions', f, id, c)
         /\ Kept => History' /\ HistoryIsChain'
<1>1. /\ DOMAIN revisions = 1..Len(revisions) /\ Len(revisions) \in Nat /\ revisions # <<>>
      /\ revisions \in Seq(RevisionType) /\ Current = revisions[Len(revisions)]
      /\ \A i \in DOMAIN revisions : revisions[i] \in RevisionType
  BY Typed, Zenon DEF RevisionInv, TypeOK
<1>2. /\ revisions' \in Seq(RevisionType) /\ Len(revisions') = Len(revisions) - 1
      /\ \A i \in 1..(Len(revisions) - 1) : revisions'[i] = revisions[i + 1]
  BY <1>1, HeadTailProperties, Zenon
<1>3. DOMAIN revisions' = 1..(Len(revisions) - 1)
  BY <1>2, LenProperties, Zenon
<1>4. revisions' # <<>> /\ Current' = Current
  <2>1. Current' = revisions'[Len(revisions')]
    BY Zenon DEF Current
  <2>2. Len(revisions') \in 1..(Len(revisions) - 1) /\ Len(revisions') + 1 = Len(revisions)
    BY <1>1, <1>2
  <2>3. Current' = revisions[Len(revisions') + 1]
    BY <1>2, <2>1, <2>2, Zenon
  <2>4. revisions' # <<>>
    BY <1>2, <2>2, EmptySeq
  <2>. QED
    BY <1>1, <2>2, <2>3, <2>4, Zenon
<1>5. \A f \in Int, id \in Nat, c \in Contents :
        Names(revisions, f, id, c) => Names(revisions', f, id, c)
  BY <1>1, <1>2, <1>3 DEF Names
<1>6. ASSUME Kept PROVE History' /\ HistoryIsChain'
  <2>1. \A i \in DOMAIN revisions :
          /\ Grounded(prop', revisions[i])
          /\ RootId(prop', revisions[i]) = RootId(prop, revisions[i])
          /\ Names(revisions', Fresh', revisions[i].id, revisions[i].content)
    BY <1>1, <1>6, GroundedKept, Zenon DEF RevisionInv, History, Kept, RevisionType
  <2>2. History'
    BY <1>1, <1>2, <1>3, <2>1 DEF History
  <2>3. \A i \in 1..(Len(revisions) - 1) :
          /\ revisions[i].id = RootId(prop, revisions[i + 1])
          /\ revisions[i + 1].base = revisions[i].content
    BY Zenon DEF RevisionInv, HistoryIsChain, RootId
  <2>4. ASSUME NEW i \in 1..(Len(revisions') - 1)
        PROVE  /\ revisions'[i].id = RootId(prop', revisions'[i + 1])
               /\ revisions'[i + 1].base = revisions'[i].content
    <3>1. /\ i + 1 \in 1..(Len(revisions) - 1) /\ i + 2 \in DOMAIN revisions
          /\ revisions'[i] = revisions[i + 1] /\ revisions'[i + 1] = revisions[(i + 1) + 1]
          /\ i + 2 = (i + 1) + 1
      BY <1>1, <1>2
    <3>. QED
      BY <2>1, <2>3, <3>1, Zenon
  <2>. QED
    BY <2>2, <2>4, Zenon DEF HistoryIsChain, RootId
<1>. QED
  BY <1>2, <1>4, <1>5, <1>6, Zenon

\* The write lock is held and stays held, or the commit fails: the queue may
\* lose its oldest revision, never its newest.
LEMMA WriterStep ==
  ASSUME RevisionInv, writer # None, prop[writer].status \in {"reaping", "submitting"},
         \/ prop' = prop
         \/ \E s \in {"submitting", "dropped"} : prop' = [prop EXCEPT ![writer].status = s],
         \/ revisions' = revisions
         \/ revisions' = Tail(revisions) /\ Len(revisions) >= 2,
         \/ writer' = writer
         \/ writer' = None /\ persistError,
         UNCHANGED <<proposals, nextId, persistError>>
  PROVE  RevisionInv'
<1>1. /\ writer \in DOMAIN prop /\ prop \in Seq(ProposalType) /\ prop[writer] \in ProposalType
      /\ prop[writer].parent.kind = "committed" /\ prop[writer].parent.id = Current.id
      /\ prop[writer].onto = nextId - 1 /\ nextId \in Nat /\ Fresh = nextId - 1
      /\ revisions \in Seq(RevisionType) /\ revisions # <<>> /\ proposals \subseteq DOMAIN prop
  BY Typed, Zenon DEF RevisionInv, TypeOK, Writer, Fresh
<1>2. /\ prop' \in Seq(ProposalType) /\ DOMAIN prop' = DOMAIN prop
      /\ \A q \in DOMAIN prop :
           /\ prop'[q].content = prop[q].content /\ prop'[q].base = prop[q].base
           /\ prop'[q].builtOn = prop[q].builtOn /\ prop'[q].parent = prop[q].parent
           /\ prop'[q].onto = prop[q].onto
           /\ \/ prop'[q].status = prop[q].status
              \/ q = writer /\ prop'[q].status \in {"submitting", "dropped"}
  <2>1. CASE prop' = prop
    BY <1>1, <2>1, Zenon
  <2>2. CASE prop' # prop
    <3>0. PICK s \in {"submitting", "dropped"} : prop' = [prop EXCEPT ![writer].status = s]
      BY <2>2, Zenon
    <3>1. s \in Statuses
      BY Zenon DEF Statuses
    <3>2. SetTo(prop, prop', writer, s, prop[writer].onto)
      BY <1>1, <3>0, <3>1, StatusOnly, Zenon
    <3>. QED
      BY <1>1, <3>2, Zenon DEF SetTo
  <2>. QED
    BY <2>1, <2>2, Zenon
<1>3. /\ revisions' \in Seq(RevisionType) /\ revisions' # <<>> /\ Current' = Current
      /\ \A f \in Int, id \in Nat, c \in Contents :
           Names(revisions, f, id, c) => Names(revisions', f, id, c)
  BY <1>1, TailKept, Zenon DEF Current
<1>4. Fresh \in Int /\ Fresh' \in Int /\ Fresh <= Fresh' /\ writer' \in Nat
  BY <1>1, Typed DEF Fresh, None
<1>5. Kept
  <2>1. Extended(prop, prop')
    BY <1>2, Zenon DEF Extended
  <2>2. ASSUME NEW id \in Nat, NEW c \in Contents, Names(revisions, Fresh, id, c)
        PROVE  Names(revisions', Fresh', id, c)
    BY <1>3, <1>4, <2>2, NamesKept, Zenon
  <2>. QED
    BY <2>1, <2>2, Zenon DEF Kept
<1>6. TypeOK'
  BY <1>1, <1>2, <1>3, <1>4, Zenon DEF TypeOK
<1>7. History' /\ HistoryIsChain'
  BY <1>5, HistoryKept, TailKept, Zenon
<1>8. Writer'
  BY <1>1, <1>2, <1>3, Zenon DEF Writer
<1>10. \A q \in DOMAIN prop :
        /\ prop'[q].status # prop[q].status => prop'[q].status \notin {"open", "committed"}
        /\ prop'[q].status = "open" => (q \in proposals => q \in proposals')
        /\ prop'[q].status = "cleanup" =>
             prop[q].status = "cleanup" /\ prop'[q].onto = prop[q].onto
  BY <1>2, Zenon
<1>. QED
  BY <1>2, <1>5, <1>6, <1>7, <1>8, <1>10, ProposalsStep, Zenon
\* Reaping never empties the queue: max_revisions is at least 2.
LEMMA ReapOldestStep == ASSUME RevisionInv, ReapOldest PROVE RevisionInv'
<1>1. /\ writer # None /\ prop[writer].status \in {"reaping", "submitting"}
      /\ UNCHANGED <<proposals, nextId, persistError>>
  BY Zenon DEF ReapOldest
<1>2. Len(revisions) >= 2
  BY Typed, SizesAssumption DEF ReapOldest
<1>3. /\ \/ prop' = prop
         \/ \E s \in {"submitting", "dropped"} : prop' = [prop EXCEPT ![writer].status = s]
      /\ revisions' = revisions \/ revisions' = Tail(revisions)
      /\ writer' = writer \/ (writer' = None /\ persistError)
  BY Zenon DEF ReapOldest
<1>. QED
  BY <1>1, <1>2, <1>3, WriterStep, Zenon

\* The end of reaping, and a submit that fails.
LEMMA LockHeldStep == ASSUME RevisionInv, ReapDone \/ SubmitFails PROVE RevisionInv'
<1>1. /\ writer # None /\ prop[writer].status \in {"reaping", "submitting"}
      /\ UNCHANGED <<revisions, proposals, nextId, persistError>>
  BY Zenon DEF ReapDone, SubmitFails
<1>2. /\ \E s \in {"submitting", "dropped"} : prop' = [prop EXCEPT ![writer].status = s]
      /\ writer' = writer \/ (writer' = None /\ persistError)
  BY Zenon DEF ReapDone, SubmitFails
<1>. QED
  BY <1>1, <1>2, WriterStep, Zenon

\* The new revision enters the queue.  Its id is above all others; it was built
\* on the revision that is still the newest.
LEMMA InsertStep == ASSUME RevisionInv, Insert PROVE RevisionInv'
<1> DEFINE p == prop[writer]
           r == [id |-> p.onto, content |-> p.content, base |-> p.base, builtOn |-> p.builtOn]
           n == Len(revisions)
<1>1. /\ writer # None /\ p.status = "submitting" /\ revisions' = Append(revisions, r)
      /\ byHash' = [c \in DOMAIN byHash \cup {d \in {p.content} : HasHash(d)}
                      |-> IF c = p.content THEN p.onto ELSE byHash[c]]
      /\ prop' = [prop EXCEPT ![writer].status = "cleanup"] /\ writer' = None
      /\ UNCHANGED <<proposals, nextId, persistError>>
  BY Zenon DEF Insert
<1>2. /\ writer \in DOMAIN prop /\ p.parent.kind = "committed" /\ p.parent.id = Current.id
      /\ p.onto = nextId - 1
  BY <1>1, Zenon DEF RevisionInv, Writer
<1>3. /\ prop \in Seq(ProposalType) /\ p \in ProposalType /\ proposals \subseteq DOMAIN prop
      /\ revisions \in Seq(RevisionType) /\ DOMAIN revisions = 1..n /\ n \in Nat \ {0}
      /\ Current = revisions[n] /\ nextId \in Nat
      /\ \A i \in DOMAIN revisions : revisions[i] \in RevisionType
  BY <1>2, Typed, Zenon DEF RevisionInv, TypeOK
<1>4. /\ r \in RevisionType /\ r.id = p.onto /\ r.content = p.content /\ r.base = p.base
      /\ r.builtOn = p.builtOn
  BY <1>3, Zenon DEF ProposalType, RevisionType
<1>5. /\ Grounded(prop, p) /\ RootId(prop, p) = Current.id /\ p.base = Current.content
  <2>1. /\ Grounded(prop, p) /\ RootId(prop, p) = p.parent.id /\ p.base = p.parent.content
        /\ Names(revisions, Fresh, p.parent.id, p.parent.content)
    BY <1>2, Zenon DEF RevisionInv, Parents, OnRevision
  <2>2. Current.content = p.parent.content
    BY <1>2, <1>3, <2>1 DEF Names
  <2>. QED
    BY <1>2, <2>1, <2>2, Zenon
<1> HIDE DEF r
<1>6. /\ revisions' \in Seq(RevisionType) /\ revisions' # <<>> /\ Len(revisions') = n + 1
      /\ \A i \in 1..n : revisions'[i] = revisions[i]
      /\ revisions'[n + 1] = r
  BY <1>1, <1>3, <1>4, AppendProperties
<1>7. DOMAIN revisions' = 1..(n + 1) /\ Current' = r
  BY <1>6, LenProperties, Zenon DEF Current
<1>8. SetTo(prop, prop', writer, "cleanup", p.onto)
  <2>1. "cleanup" \in Statuses
    BY Zenon DEF Statuses
  <2>. QED
    BY <1>1, <1>2, <1>3, <2>1, StatusOnly, Zenon
<1>9. /\ prop' \in Seq(ProposalType) /\ DOMAIN prop' = DOMAIN prop
      /\ \A q \in DOMAIN prop : q # writer => prop'[q] = prop[q]
      /\ prop'[writer].content = p.content /\ prop'[writer].base = p.base
      /\ prop'[writer].builtOn = p.builtOn /\ prop'[writer].parent = p.parent
      /\ prop'[writer].status = "cleanup" /\ prop'[writer].onto = p.onto
  BY <1>8, Zenon DEF SetTo
<1>10. Fresh = r.id /\ Fresh' = nextId /\ Fresh \in Int /\ Fresh < Fresh' /\ Fresh' \in Int
  BY <1>1, <1>2, <1>3, <1>4 DEF Fresh
<1>11. ASSUME NEW id \in Nat, NEW c \in Contents, Names(revisions, Fresh, id, c)
       PROVE  Names(revisions', Fresh', id, c)
  <2>1. id < Fresh' /\ id # r.id
    BY <1>10, <1>11 DEF Names
  <2>2. ASSUME NEW i \in DOMAIN revisions', revisions'[i].id = id PROVE revisions'[i].content = c
    <3>1. i \in DOMAIN revisions
      BY <1>3, <1>6, <1>7, <2>1, <2>2
    <3>. QED
      BY <1>3, <1>6, <1>11, <2>2, <3>1, Zenon DEF Names
  <2>. QED
    BY <2>1, <2>2, Zenon DEF Names
<1>12. Kept
  <2>1. Extended(prop, prop')
    BY <1>1, <1>9, Zenon DEF Extended
  <2>. QED
    BY <1>11, <2>1, Zenon DEF Kept
<1>13. Names(revisions', Fresh', r.id, r.content)
  <2>1. \A i \in 1..n : revisions[i].id # r.id
    <3>1. \A i \in 1..n : revisions[i].id < Fresh /\ revisions[i].id \in Nat
      BY <1>3, Zenon DEF RevisionInv, History, Names, RevisionType
    <3>. QED
      BY <1>10, <3>1
  <2>. QED
    BY <1>3, <1>6, <1>7, <1>10, <2>1 DEF Names
<1>14. /\ \A i \in DOMAIN revisions :
            /\ Grounded(prop', revisions[i])
            /\ RootId(prop', revisions[i]) = RootId(prop, revisions[i])
       /\ Grounded(prop', r) /\ RootId(prop', r) = Current.id
  <2>1. Grounded(prop', p) /\ RootId(prop', p) = Current.id
    BY <1>5, <1>12, GroundedKept, Zenon DEF Kept
  <2>2. Grounded(prop', r) /\ RootId(prop', r) = Current.id
    BY <1>4, <2>1, Zenon DEF Grounded, RootId
  <2>. QED
    BY <1>12, <2>2, GroundedKept, Zenon DEF RevisionInv, History, Kept
<1>15. History'
  <2> SUFFICES ASSUME NEW i \in DOMAIN revisions'
               PROVE  /\ Names(revisions', Fresh', revisions'[i].id, revisions'[i].content)
                      /\ Grounded(prop', revisions'[i])
    BY Zenon DEF History
  <2>1. CASE i = n + 1
    BY <1>6, <1>13, <1>14, <2>1, Zenon
  <2>2. CASE i # n + 1
    <3>1. i \in DOMAIN revisions /\ revisions'[i] = revisions[i]
      BY <1>3, <1>6, <1>7, <2>2
    <3>2. Names(revisions, Fresh, revisions[i].id, revisions[i].content)
      BY <3>1, Zenon DEF RevisionInv, History
    <3>3. revisions[i].id \in Nat /\ revisions[i].content \in Contents
      BY <1>3, <3>1, Zenon DEF RevisionType
    <3>. QED
      BY <1>11, <1>14, <3>1, <3>2, <3>3, Zenon
  <2>. QED
    BY <2>1, <2>2, Zenon
<1>16. HistoryIsChain'
  <2> SUFFICES ASSUME NEW i \in 1..n
               PROVE  /\ revisions'[i].id = RootId(prop', revisions'[i + 1])
                      /\ revisions'[i + 1].base = revisions'[i].content
    BY <1>3, <1>6 DEF HistoryIsChain, RootId
  <2>1. CASE i = n
    BY <1>3, <1>4, <1>5, <1>6, <1>14, <2>1, Zenon
  <2>2. CASE i # n
    <3>0. n \in Nat => i \in 1..(n - 1) /\ i + 1 \in 1..n
      BY <2>2
    <3>1. /\ i \in 1..(n - 1) /\ i + 1 \in 1..n /\ revisions'[i] = revisions[i]
          /\ revisions'[i + 1] = revisions[i + 1]
      BY <1>3, <1>6, <3>0, Zenon
    <3>2. /\ revisions[i].id = RootId(prop, revisions[i + 1])
          /\ revisions[i + 1].base = revisions[i].content
      BY <3>1, Zenon DEF RevisionInv, HistoryIsChain, RootId
    <3>3. RootId(prop', revisions[i + 1]) = RootId(prop, revisions[i + 1])
      BY <1>3, <1>14, <3>1, Zenon
    <3>. QED
      BY <3>1, <3>2, <3>3, Zenon
  <2>. QED
    BY <2>1, <2>2, Zenon
<1>17. TypeOK'
  BY <1>1, <1>3, <1>6, <1>9, Zenon DEF TypeOK, None
<1>18. Writer'
  BY <1>1, Zenon DEF Writer
<1>20. \A q \in DOMAIN prop :
        /\ prop'[q].parent = prop[q].parent
        /\ prop'[q].status # prop[q].status => prop'[q].status \notin {"open", "committed"}
        /\ prop'[q].status = "open" => (q \in proposals => q \in proposals')
        /\ prop'[q].status = "cleanup" =>
             \/ prop[q].status = "cleanup" /\ prop'[q].onto = prop[q].onto
             \/ Names(revisions', Fresh', prop'[q].onto, prop'[q].content)
  BY <1>1, <1>4, <1>9, <1>13, Zenon
<1>. QED
  BY <1>9, <1>12, <1>15, <1>16, <1>17, <1>18, <1>20, ProposalsStep, Zenon
-----------------------------------------------------------------------------
(* The end of a commit: reparenting                                        *)

\* The committed proposal has become the revision its children are built on, so
\* they may point at the revision instead.
LEMMA CleanupStep == ASSUME RevisionInv, NEW p \in DOMAIN prop, Cleanup(p) PROVE RevisionInv'
<1> DEFINE new == Committed(prop[p].content, prop[p].onto)
           child(q) == q # p /\ q \in proposals' /\ prop[q].parent = Proposed(p)
<1>1. /\ prop[p].status = "cleanup"
      /\ proposals' = {q \in proposals : q # p /\ StrongRef(q)}
      /\ prop' = [q \in DOMAIN prop |->
                    IF q = p THEN [prop[p] EXCEPT !.status = "committed"]
                    ELSE IF q \in proposals' /\ prop[q].parent = Proposed(p)
                    THEN [prop[q] EXCEPT !.parent = new]
                    ELSE prop[q]]
      /\ UNCHANGED <<revisions, byHash, writer, nextId, persistError>>
  BY Zenon DEF Cleanup
<1>2. /\ prop \in Seq(ProposalType) /\ DOMAIN prop = 1..Len(prop) /\ Len(prop) \in Nat
      /\ \A q \in DOMAIN prop : prop[q] \in ProposalType
      /\ proposals \subseteq DOMAIN prop
  BY Typed, Zenon DEF RevisionInv, TypeOK
<1>3. /\ new \in ParentType /\ new.kind = "committed" /\ new.id = prop[p].onto
      /\ new.content = prop[p].content
  BY <1>2, Zenon DEF Committed, ParentType, ProposalType
<1>4. /\ [prop[p] EXCEPT !.status = "committed"] \in ProposalType
      /\ \A q \in DOMAIN prop : [prop[q] EXCEPT !.parent = new] \in ProposalType
  BY <1>2, <1>3, ZenonT(30) DEF ProposalType, Statuses
<1>5. prop' \in [1..Len(prop) -> ProposalType]
  BY <1>1, <1>2, <1>4, Zenon
<1>6. prop' \in Seq(ProposalType) /\ DOMAIN prop' = DOMAIN prop
  BY <1>2, <1>5, SeqOfFunction, Zenon
<1>7. \A q \in DOMAIN prop :
        /\ prop'[q].content = prop[q].content /\ prop'[q].base = prop[q].base
        /\ prop'[q].builtOn = prop[q].builtOn /\ prop'[q].onto = prop[q].onto
        /\ prop'[q].status = IF q = p THEN "committed" ELSE prop[q].status
        /\ prop'[q].parent = IF child(q) THEN new ELSE prop[q].parent
  <2> SUFFICES ASSUME NEW q \in DOMAIN prop
               PROVE  /\ prop'[q].content = prop[q].content /\ prop'[q].base = prop[q].base
                      /\ prop'[q].builtOn = prop[q].builtOn /\ prop'[q].onto = prop[q].onto
                      /\ prop'[q].status = IF q = p THEN "committed" ELSE prop[q].status
                      /\ prop'[q].parent = IF child(q) THEN new ELSE prop[q].parent
    BY Zenon
  <2> HIDE DEF new
  <2>1. CASE q = p
    <3>1. prop'[q] = [prop[p] EXCEPT !.status = "committed"]
      BY <1>1, <2>1, Zenon
    <3>. QED
      BY <1>2, <2>1, <3>1, Zenon DEF ProposalType
  <2>2. CASE child(q)
    <3>1. prop'[q] = [prop[q] EXCEPT !.parent = new]
      BY <1>1, <2>2, Zenon
    <3>. QED
      BY <1>2, <2>2, <3>1, Zenon DEF ProposalType
  <2>3. CASE q # p /\ ~child(q)
    BY <1>1, <2>3, Zenon
  <2>. QED
    BY <2>1, <2>2, <2>3, Zenon
<1> HIDE DEF new
<1>8. Fresh' = Fresh /\ Current' = Current
  BY <1>1, Zenon DEF Fresh, Current
<1>9. Kept
  <2>1. Extended(prop, prop')
    BY <1>1, <1>6, <1>7 DEF Extended
  <2>. QED
    BY <1>1, <1>8, <2>1, Zenon DEF Kept
<1>10. TypeOK'
  BY <1>1, <1>2, <1>6, Zenon DEF RevisionInv, TypeOK
<1>11. History' /\ HistoryIsChain'
  BY <1>1, <1>9, HistoryKept, Zenon
<1>12. Names(revisions', Fresh', prop[p].onto, prop[p].content)
  BY <1>1, <1>8, Zenon DEF RevisionInv, Outcomes
<1>13. Parents'
  <2> SUFFICES ASSUME NEW q \in DOMAIN prop
               PROVE  (OnRevision(prop[q]) /\ OnProposal(prop[q]))'
    BY <1>6, Zenon DEF Parents
  <2>1. CASE ~child(q)
    BY <1>7, <1>9, <2>1, ParentKept, Zenon
  <2>2. CASE child(q)
    <3>1. Proposed(p).kind = "proposed" /\ Proposed(p).id = p
      BY Zenon DEF Proposed
    <3>2. prop[q].builtOn = Proposed(p) /\ prop[q].base = prop[p].content
      BY <2>2, <3>1 DEF RevisionInv, Parents, OnProposal
    <3>3. prop'[q].parent = new /\ prop'[q].builtOn = Proposed(p) /\ prop'[q].base = new.content
      BY <1>3, <1>7, <2>2, <3>2, Zenon
    <3>4. Grounded(prop', prop'[q]) /\ RootId(prop', prop'[q]) = new.id
      BY <1>3, <1>6, <1>7, <3>1, <3>3 DEF Grounded, RootId
    <3>. QED
      BY <1>3, <1>12, <3>3, <3>4, Zenon DEF OnRevision, OnProposal
  <2>. QED
    BY <2>1, <2>2, Zenon
<1>14. Outcomes'
  <2>1. ASSUME NEW q \in DOMAIN prop, prop'[q].status \in {"cleanup", "committed"}
        PROVE  Names(revisions', Fresh', prop'[q].onto, prop'[q].content)
    <3>1. prop[q].status \in {"cleanup", "committed"}
      BY <1>1, <1>7, <2>1, Zenon
    <3>. QED
      BY <1>1, <1>7, <1>8, <3>1, Zenon DEF RevisionInv, Outcomes
  <2>2. ASSUME NEW q \in DOMAIN prop, prop'[q].status = "open" PROVE q \in proposals'
    <3>1. q # p /\ prop[q].status = "open"
      BY <1>7, <2>2, Zenon
    <3>2. q \in proposals /\ StrongRef(q)
      BY <3>1, Zenon DEF RevisionInv, Outcomes, StrongRef
    <3>. QED
      BY <1>1, <3>1, <3>2, Zenon
  <2>. QED
    BY <1>6, <2>1, <2>2, Zenon DEF Outcomes
<1>15. Writer'
  <2> SUFFICES ASSUME writer # None PROVE Writer'
    BY <1>1, Zenon DEF Writer
  <2>1. /\ writer \in DOMAIN prop /\ prop[writer].parent.kind = "committed"
        /\ prop[writer].parent.id = Current.id /\ prop[writer].onto = nextId - 1
    BY Zenon DEF RevisionInv, Writer
  <2>2. ~child(writer)
    BY <2>1 DEF Proposed
  <2>. QED
    BY <1>1, <1>6, <1>7, <1>8, <2>1, <2>2, Zenon DEF Writer
<1>17. ChildrenReparented'
  <2> SUFFICES ASSUME NEW q \in proposals', prop'[q].status = "open",
                      prop'[q].parent.kind = "proposed"
               PROVE  prop'[prop'[q].parent.id].status # "committed"
    BY Zenon DEF ChildrenReparented
  <2>1. q \in DOMAIN prop /\ q \in proposals /\ q # p /\ prop[q].status = "open"
    BY <1>1, <1>2, <1>7
  <2>2. ~child(q) /\ prop'[q].parent = prop[q].parent
    BY <1>3, <1>7, <2>1, Zenon
  <2>3. /\ prop[q].parent.id \in DOMAIN prop /\ prop[q].parent = Proposed(prop[q].parent.id)
        /\ prop[prop[q].parent.id].status # "committed"
    BY <2>1, <2>2 DEF RevisionInv, Parents, OnProposal, ChildrenReparented
  <2>4. prop[q].parent.id # p
    BY <2>1, <2>2, <2>3, Zenon
  <2>. QED
    BY <1>7, <2>2, <2>3, <2>4, Zenon
<1>. QED
  BY <1>10, <1>11, <1>13, <1>14, <1>15, <1>17, Zenon DEF RevisionInv

-----------------------------------------------------------------------------
(* The theorems                                                            *)

\* Every step of the manager keeps the invariant.
LEMMA NextInv == RevisionInv /\ [Next]_vars => RevisionInv'
<1> SUFFICES ASSUME RevisionInv, [Next]_vars PROVE RevisionInv'
  BY Zenon
<1>1. ASSUME NEW c \in Contents, Propose(c) PROVE RevisionInv'
  BY <1>1, ProposeStep, Zenon
<1>2. ASSUME NEW c \in Viewed, ViewProposals(c) PROVE RevisionInv'
  BY <1>2, OtherSteps, Zenon DEF ViewProposals
<1>3. ASSUME NEW p \in DOMAIN prop, NEW c \in Contents, ProposeOn(p, c) PROVE RevisionInv'
  BY <1>3, ProposeOnStep, Zenon
<1>4. ASSUME NEW p \in DOMAIN prop, DropProposal(p) \/ CommitRefused(p) \/ RebaseRefused(p)
      PROVE  RevisionInv'
  BY <1>4, DroppedStep, Zenon DEF DropProposal, CommitRefused, RebaseRefused
<1>5. ASSUME NEW p \in DOMAIN prop, BeginCommit(p) PROVE RevisionInv'
  BY <1>5, BeginCommitStep, Zenon
<1>6. ASSUME NEW p \in DOMAIN prop, Rebase(p) PROVE RevisionInv'
  BY <1>6, RebaseStep, Zenon
<1>7. ASSUME NEW p \in DOMAIN prop, Cleanup(p) PROVE RevisionInv'
  BY <1>7, CleanupStep, Zenon
<1>8. CASE ReapOldest
  BY <1>8, ReapOldestStep, Zenon
<1>9. CASE ReapDone \/ SubmitFails
  BY <1>9, LockHeldStep, Zenon
<1>10. CASE Insert
  BY <1>10, InsertStep, Zenon
<1>11. CASE ViewRevisions \/ ViewDropped
  <2>1. UNCHANGED <<revisions, byHash, prop, proposals, writer, nextId, persistError>>
    BY <1>11, Zenon DEF ViewRevisions, ViewDropped
  <2>. QED
    BY <2>1, OtherSteps, Zenon
<1>12. CASE PersistFails
  BY <1>12, OtherSteps, Zenon DEF PersistFails
<1>13. CASE NoCall \/ UNCHANGED vars
  <2>1. UNCHANGED <<revisions, byHash, prop, proposals, writer, nextId, persistError>>
    BY <1>13, Zenon DEF NoCall, vars
  <2>. QED
    BY <2>1, OtherSteps, Zenon
<1>. QED
  BY <1>1, <1>2, <1>3, <1>4, <1>5, <1>6, <1>7, <1>8, <1>9, <1>10, <1>11, <1>12, <1>13, Zenon DEF Next

\* The inductive invariant holds in every reachable state of the manager.
THEOREM Invariance == Spec => []RevisionInv
BY InitInv, NextInv, PTL DEF Spec

\* RevisionManager::commit lets in a proposal only on the newest revision, and
\* that revision is still the newest when the new one is inserted: reaping,
\* reparenting and concurrent proposals included, every revision is built on the
\* one before it.
THEOREM HistoryChained == Spec => []HistoryIsChain
<1>1. RevisionInv => HistoryIsChain
  BY Zenon DEF RevisionInv
<1>. QED
  BY <1>1, Invariance, PTL

\* The last step of a commit finds every open child of the committed proposal:
\* none keeps the proposal as its parent, however the commits interleave.
THEOREM NoOrphans == Spec => []ChildrenReparented
<1>1. RevisionInv => ChildrenReparented
  BY Zenon DEF RevisionInv
<1>. QED
  BY <1>1, Invariance, PTL

\* What a rebase leaves: the new proposal, last, with the rebased content, on the
\* current one, and all others but the rebased one as they were.
LEMMA RebaseEffect ==
  ASSUME RevisionInv, NEW p \in DOMAIN prop, Rebase(p), ~persistError
  PROVE  /\ Len(prop') = Len(prop) + 1 /\ DOMAIN prop' = DOMAIN prop \cup {Len(prop')}
         /\ prop'[Len(prop')].content = Rebased(p)
         /\ prop'[Len(prop')].base = Current.content
         /\ writer' = writer \/ (writer' = Len(prop') /\ Rebased(p) # Current.content)
         /\ \A x \in DOMAIN prop :
              /\ x # Len(prop') /\ prop'[x].content = prop[x].content
              /\ prop'[x].base = prop[x].base /\ prop'[x].onto = prop[x].onto
              /\ prop'[x].status = IF x = p THEN "rebased" ELSE prop[x].status
<1> DEFINE open == [prop EXCEPT ![p].status = "rebased"]
           r == NewProposal(Rebased(p), Current.content, Committed(Current.content, Current.id))
           ps == Append(open, r)
           q == Len(prop) + 1
<1>1. /\ prop \in Seq(ProposalType) /\ DOMAIN prop = 1..Len(prop) /\ Len(prop) \in Nat
      /\ prop[p] \in ProposalType /\ "rebased" \in Statuses
      /\ "cleanup" \in Statuses /\ "reaping" \in Statuses /\ nextId \in Nat
  BY Typed, Zenon DEF Statuses
<1>2. SetTo(prop, open, p, "rebased", prop[p].onto)
  BY <1>1, StatusOnly, Zenon
<1>3. Rebased(p) \in Contents
  BY <1>1, CurrentParent, ContentsTyped, Zenon DEF ProposalType
<1>4. r \in ProposalType /\ r.content = Rebased(p) /\ r.base = Current.content
  BY <1>3, CurrentParent, NewProposalTyped
<1>5. Enter(ps, q)
  BY Zenon DEF Rebase
<1> HIDE DEF open, r
<1>6. /\ open \in Seq(ProposalType) /\ Len(open) = Len(prop)
      /\ \A x \in DOMAIN prop :
           /\ open[x].content = prop[x].content /\ open[x].base = prop[x].base
           /\ open[x].onto = prop[x].onto
           /\ open[x].status = IF x = p THEN "rebased" ELSE prop[x].status
  BY <1>2, Zenon DEF SetTo
<1>7. /\ ps \in Seq(ProposalType) /\ Len(ps) = q /\ ps[q] = r
      /\ \A x \in DOMAIN prop : ps[x] = open[x]
  BY <1>1, <1>4, <1>6, AppendProperties
<1>8. q \in DOMAIN ps /\ q \notin DOMAIN prop /\ DOMAIN ps = DOMAIN prop \cup {q}
  BY <1>1, <1>7, LenProperties
<1> HIDE DEF ps, q
<1>9. \E s, o : SetTo(ps, prop', q, s, o)
  <2>1. CASE ps[q].content = Current.content
    <3>1. prop' = [ps EXCEPT ![q].status = "cleanup", ![q].onto = Current.id]
      BY <1>5, <2>1, Zenon DEF Enter
    <3>2. Current.id \in Nat
      BY CurrentParent, Zenon
    <3>. QED
      BY <1>1, <1>7, <1>8, <3>1, <3>2, StatusSet, Zenon
  <2>2. CASE ps[q].content # Current.content
    <3>1. prop' = [ps EXCEPT ![q].status = "reaping", ![q].onto = nextId]
      BY <1>5, <2>2, Zenon DEF Enter
    <3>. QED
      BY <1>1, <1>7, <1>8, <3>1, StatusSet, Zenon
  <2>. QED
    BY <2>1, <2>2, Zenon
<1>10. /\ Len(prop') = q /\ prop'[q].content = ps[q].content /\ prop'[q].base = ps[q].base
       /\ DOMAIN prop' = DOMAIN ps /\ \A x \in DOMAIN ps : x # q => prop'[x] = ps[x]
  BY <1>7, <1>9, Zenon DEF SetTo
<1>11. writer' = writer \/ (writer' = q /\ Rebased(p) # Current.content)
  BY <1>4, <1>5, <1>7, Zenon DEF Enter
<1>12. \A x \in DOMAIN prop : x # q /\ prop'[x] = open[x]
  BY <1>7, <1>8, <1>10, Zenon
<1>. QED
  BY <1>4, <1>6, <1>7, <1>8, <1>10, <1>11, <1>12, Zenon DEF q

\* A proposal becomes "rebased" in its own rebase only.
LEMMA OnlyRebase ==
  ASSUME RevisionInv, [Next]_vars, NEW p \in DOMAIN prop, prop[p].status = "open",
         prop'[p].status = "rebased"
  PROVE  Rebase(p) /\ ~persistError
<1>1. /\ prop \in Seq(ProposalType) /\ p \in 1..Len(prop) /\ Len(prop) \in Nat
      /\ \A q \in DOMAIN prop : prop[q] \in ProposalType /\ q # None
      /\ {"dropped", "cleanup", "reaping", "submitting"} \subseteq Statuses
  BY Typed, Zenon DEF Statuses
<1>2. CASE prop' = prop
  BY <1>2, Zenon
<1>3. ASSUME NEW r \in ProposalType, prop' = Append(prop, r) PROVE FALSE
  BY <1>1, <1>3, AppendProperties
<1>4. ASSUME NEW q \in DOMAIN prop, NEW s \in {"dropped", "cleanup", "submitting"},
             prop' = [prop EXCEPT ![q].status = s]
      PROVE  FALSE
  <2>1. SetTo(prop, prop', q, s, prop[q].onto)
    BY <1>1, <1>4, StatusOnly, Zenon
  <2>. QED
    BY <2>1, Zenon DEF SetTo
<1>5. ASSUME NEW q \in DOMAIN prop, BeginCommit(q) PROVE FALSE
  <2>1. \E s \in {"cleanup", "reaping"}, o \in Nat :
          prop' = [prop EXCEPT ![q].status = s, ![q].onto = o]
    <3>1. Current.id \in Nat /\ nextId \in Nat
      BY CurrentParent, Typed, Zenon
    <3>. QED
      BY <1>5, <3>1, Zenon DEF BeginCommit, Enter
  <2>2. PICK s \in {"cleanup", "reaping"}, o \in Nat :
          prop' = [prop EXCEPT ![q].status = s, ![q].onto = o]
    BY <2>1, Zenon
  <2>3. SetTo(prop, prop', q, s, o)
    BY <1>1, <2>2, StatusSet, Zenon
  <2>. QED
    BY <2>3, Zenon DEF SetTo
<1>6. ASSUME NEW q \in DOMAIN prop, Rebase(q), persistError PROVE FALSE
  <2>1. prop' = [prop EXCEPT ![q].status = "dropped"]
    BY <1>6, Zenon DEF Rebase
  <2>. QED
    BY <1>4, <2>1, Zenon
<1>7. ASSUME NEW q \in DOMAIN prop, Rebase(q), ~persistError, q # p PROVE FALSE
  BY <1>7, RebaseEffect, Zenon
<1>8. ASSUME NEW q \in DOMAIN prop, Cleanup(q) PROVE FALSE
  <2>1. prop[q].status = "cleanup" /\ p # q
    BY <1>8, Zenon DEF Cleanup
  <2>2. prop'[p] = prop[p] \/ \E x : prop'[p] = [prop[p] EXCEPT !.parent = x]
    BY <1>8, <2>1, Zenon DEF Cleanup
  <2>3. ASSUME NEW x, prop'[p] = [prop[p] EXCEPT !.parent = x] PROVE FALSE
    <3>1. [prop[p] EXCEPT !.parent = x].status = prop[p].status
      BY <1>1, Zenon DEF ProposalType
    <3>. QED
      BY <2>3, <3>1, Zenon
  <2>4. CASE prop'[p] = prop[p]
    BY <2>4, Zenon
  <2>. QED
    BY <2>2, <2>3, <2>4, Zenon
<1>9. ASSUME NEW q \in DOMAIN prop, DropProposal(q) \/ CommitRefused(q) \/ RebaseRefused(q)
      PROVE  FALSE
  <2>1. prop' = [prop EXCEPT ![q].status = "dropped"]
    BY <1>9, Zenon DEF DropProposal, CommitRefused, RebaseRefused
  <2>. QED
    BY <1>4, <2>1, Zenon
<1>10. CASE ReapOldest \/ ReapDone \/ SubmitFails \/ Insert
  <2>1. writer \in DOMAIN prop
    BY <1>10, Zenon DEF ReapOldest, ReapDone, SubmitFails, Insert, RevisionInv, Writer
  <2>2. \/ prop' = prop
        \/ \E s \in {"dropped", "cleanup", "submitting"} : prop' = [prop EXCEPT ![writer].status = s]
    BY <1>10, Zenon DEF ReapOldest, ReapDone, SubmitFails, Insert
  <2>. QED
    BY <1>2, <1>4, <2>1, <2>2, Zenon
<1>11. ASSUME NEW c \in Contents, Propose(c) PROVE FALSE
  <2>1. NewProposal(c, Current.content, Committed(Current.content, Current.id)) \in ProposalType
    BY CurrentParent, NewProposalTyped, Zenon
  <2>. QED
    BY <1>3, <1>11, <2>1, Zenon DEF Propose
<1>12. ASSUME NEW q \in DOMAIN prop, NEW c \in Contents, ProposeOn(q, c) PROVE FALSE
  <2>0. prop[q].content \in Contents /\ q \in Nat
    BY Typed DEF ProposalType
  <2>1. Proposed(q) \in ParentType
    BY <2>0, ContentsTyped, Zenon DEF ParentType, Proposed
  <2>2. NewProposal(c, prop[q].content, Proposed(q)) \in ProposalType
    BY <2>0, <2>1, NewProposalTyped, Zenon
  <2>. QED
    BY <1>3, <1>12, <2>2, Zenon DEF ProposeOn
<1>13. ASSUME NEW c \in Viewed, ViewProposals(c) PROVE FALSE
  BY <1>2, <1>13, Zenon DEF ViewProposals
<1>14. CASE ViewRevisions \/ ViewDropped \/ PersistFails \/ NoCall \/ UNCHANGED vars
  <2>1. prop' = prop
    BY <1>14, Zenon DEF ViewRevisions, ViewDropped, PersistFails, NoCall, vars
  <2>. QED
    BY <1>2, <2>1, Zenon
<1>. QED
  BY <1>5, <1>6, <1>7, <1>8, <1>9, <1>10, <1>11, <1>12, <1>13, <1>14, Zenon DEF Next

\* commit_with_rebase finds its parent by hash, and the diff is taken against
\* that content, which is the one the proposal was built on even after it was
\* reparented: the rebased proposal has the caller's changes and the current
\* content for all the rest.
THEOREM RebaseSound == Spec => RebaseKeepsBoth
<1>1. ASSUME RevisionInv, [Next]_vars, NEW p \in DOMAIN prop, prop[p].status = "open",
             prop'[p].status = "rebased", NEW k \in Keys
      PROVE  prop'[Len(prop')].content[k] =
               IF prop[p].content[k] = prop[p].base[k] THEN Current.content[k]
               ELSE prop[p].content[k]
  <2>1. Rebase(p) /\ ~persistError
    BY <1>1, OnlyRebase, Zenon
  <2>2. prop[p].base = prop[p].parent.content
    BY <1>1, <2>1, Zenon DEF Rebase, RevisionInv, Parents, OnRevision
  <2>3. prop'[Len(prop')].content = Rebased(p)
    BY <1>1, <2>1, RebaseEffect, Zenon
  <2>. QED
    BY <1>1, <2>2, <2>3 DEF Rebased
<1>2. RevisionInv /\ [Next]_vars =>
        [\A p \in DOMAIN prop :
           prop[p].status = "open" /\ prop'[p].status = "rebased" =>
             \A k \in Keys :
               prop'[Len(prop')].content[k] =
                 IF prop[p].content[k] = prop[p].base[k] THEN Current.content[k]
                 ELSE prop[p].content[k]]_vars
  BY <1>1, Zenon
<1>. QED
  BY <1>2, Invariance, PTL DEF Spec, RebaseKeepsBoth

-----------------------------------------------------------------------------
(* How proposals evolve                                                    *)

\* What a step may do to the status of a proposal.
Moves(s, t) ==
  \/ s = t
  \/ s = "open" /\ t \in {"dropped", "rebased", "reaping", "cleanup"}
  \/ s = "reaping" /\ t \in {"submitting", "dropped"}
  \/ s = "submitting" /\ t \in {"cleanup", "dropped"}
  \/ s = "cleanup" /\ t = "committed"

\* Proposals keep their contents and their base, and the id once they have it.
Evolves(ps, qs) ==
  /\ DOMAIN ps \subseteq DOMAIN qs
  /\ \A q \in DOMAIN ps :
       /\ qs[q].content = ps[q].content /\ qs[q].base = ps[q].base
       /\ Moves(ps[q].status, qs[q].status)
       /\ ps[q].status # "open" => qs[q].onto = ps[q].onto

\* So does the list: new proposals enter it, those being committed stay.
Evolution ==
  /\ Evolves(prop, prop')
  /\ \A q \in DOMAIN prop' : q \in DOMAIN prop \/ q \in proposals'
  /\ \A q \in proposals :
       prop'[q].status \in {"reaping", "submitting", "cleanup"} => q \in proposals'

\* Setting the status of one proposal.
LEMMA SetEvolves ==
  ASSUME NEW ps, NEW qs, NEW p \in DOMAIN ps, NEW s, NEW o, SetTo(ps, qs, p, s, o),
         Moves(ps[p].status, s), ps[p].status # "open" => o = ps[p].onto
  PROVE  Evolves(ps, qs) /\ DOMAIN qs = DOMAIN ps /\ qs[p].status = s
BY Zenon DEF SetTo, Evolves, Moves

\* Every step of the manager moves proposals along these paths.
LEMMA EvolutionStep == ASSUME RevisionInv, [Next]_vars PROVE Evolution
<1>1. /\ prop \in Seq(ProposalType) /\ DOMAIN prop = 1..Len(prop) /\ Len(prop) \in Nat
      /\ \A q \in DOMAIN prop : prop[q] \in ProposalType /\ q # None
      /\ proposals \subseteq DOMAIN prop
      /\ {"dropped", "cleanup", "reaping", "submitting"} \subseteq Statuses
  BY Typed, Zenon DEF RevisionInv, TypeOK, Statuses
<1>2. CASE UNCHANGED <<prop, proposals>>
  BY <1>2, Zenon DEF Evolution, Evolves, Moves
<1>3. ASSUME NEW r \in ProposalType, prop' = Append(prop, r),
             proposals' = proposals \cup {Len(prop')}
      PROVE  Evolution
  <2>1. /\ Len(prop') = Len(prop) + 1 /\ prop' \in Seq(ProposalType)
        /\ \A q \in DOMAIN prop : prop'[q] = prop[q]
    BY <1>1, <1>3, AppendProperties
  <2>2. DOMAIN prop' = DOMAIN prop \cup {Len(prop')}
    BY <1>1, <2>1, LenProperties
  <2>. QED
    BY <1>3, <2>1, <2>2, Zenon DEF Evolution, Evolves, Moves
<1>4. ASSUME NEW q \in DOMAIN prop, NEW s \in {"dropped", "cleanup", "submitting"},
             prop' = [prop EXCEPT ![q].status = s], Moves(prop[q].status, s),
             proposals' = proposals \/ (proposals' = proposals \ {q} /\ s = "dropped")
      PROVE  Evolution
  <2>1. SetTo(prop, prop', q, s, prop[q].onto)
    BY <1>1, <1>4, StatusOnly, Zenon
  <2>2. Evolves(prop, prop') /\ DOMAIN prop' = DOMAIN prop /\ prop'[q].status = s
    <3>1. Moves(prop[q].status, s)
      BY <1>4, Zenon
    <3>2. \A o : SetTo(prop, prop', q, s, o) /\ o = prop[q].onto =>
            Evolves(prop, prop') /\ DOMAIN prop' = DOMAIN prop /\ prop'[q].status = s
      BY <3>1, SetEvolves, Zenon
    <3>. QED
      BY <2>1, <3>2, Zenon
  <2>. QED
    BY <1>4, <2>2, Zenon DEF Evolution
<1>5. ASSUME NEW q \in DOMAIN prop, BeginCommit(q) PROVE Evolution
  <2>1. Current.id \in Nat /\ nextId \in Nat
    BY CurrentParent, Typed, Zenon
  <2>2. PICK s \in {"cleanup", "reaping"}, o \in Nat :
          prop' = [prop EXCEPT ![q].status = s, ![q].onto = o]
    BY <1>5, <2>1, Zenon DEF BeginCommit, Enter
  <2>3. SetTo(prop, prop', q, s, o)
    BY <1>1, <2>2, StatusSet, Zenon
  <2>4. prop[q].status = "open" /\ proposals' = proposals
    BY <1>5, Zenon DEF BeginCommit
  <2>5. Evolves(prop, prop') /\ DOMAIN prop' = DOMAIN prop
    BY <2>3, <2>4, SetEvolves, Zenon DEF Moves
  <2>. QED
    BY <2>4, <2>5, Zenon DEF Evolution
<1>6. ASSUME NEW q \in DOMAIN prop, Rebase(q) PROVE Evolution
  <2>0. prop[q].status = "open"
    BY <1>6, Zenon DEF Rebase
  <2>1. CASE persistError
    <3>1. prop' = [prop EXCEPT ![q].status = "dropped"] /\ proposals' = proposals \ {q}
      BY <1>6, <2>1, Zenon DEF Rebase
    <3>. QED
      BY <1>4, <2>0, <3>1, Zenon DEF Moves
  <2>2. CASE ~persistError
    <3>1. /\ Len(prop') = Len(prop) + 1 /\ DOMAIN prop' = DOMAIN prop \cup {Len(prop')}
          /\ \A x \in DOMAIN prop :
               /\ prop'[x].content = prop[x].content
               /\ prop'[x].base = prop[x].base /\ prop'[x].onto = prop[x].onto
               /\ prop'[x].status = IF x = q THEN "rebased" ELSE prop[x].status
      BY <1>6, <2>2, RebaseEffect, Zenon
    <3>2. proposals' = (proposals \ {q}) \cup {Len(prop')}
      BY <1>6, <2>2, <3>1, Zenon DEF Rebase
    <3>3. Evolves(prop, prop')
      BY <2>0, <3>1, Zenon DEF Evolves, Moves
    <3>. QED
      BY <1>1, <3>1, <3>2, <3>3, Zenon DEF Evolution
  <2>. QED
    BY <2>1, <2>2, Zenon
<1>7. ASSUME NEW p \in DOMAIN prop, Cleanup(p) PROVE Evolution
  <2>1. /\ prop[p].status = "cleanup" /\ DOMAIN prop' = DOMAIN prop
        /\ prop'[p] = [prop[p] EXCEPT !.status = "committed"]
        /\ \A q \in DOMAIN prop : q # p =>
             prop'[q] = prop[q] \/ \E x : prop'[q] = [prop[q] EXCEPT !.parent = x]
        /\ proposals' = {q \in proposals : q # p /\ StrongRef(q)}
    BY <1>7, Zenon DEF Cleanup
  <2>2. /\ prop'[p].content = prop[p].content /\ prop'[p].base = prop[p].base
        /\ prop'[p].onto = prop[p].onto /\ prop'[p].status = "committed"
    BY <1>1, <2>1, Zenon DEF ProposalType
  <2>3. ASSUME NEW q \in DOMAIN prop, q # p
        PROVE  /\ prop'[q].content = prop[q].content /\ prop'[q].base = prop[q].base
               /\ prop'[q].onto = prop[q].onto /\ prop'[q].status = prop[q].status
    BY <1>1, <2>1, <2>3, Zenon DEF ProposalType
  <2>4. Evolves(prop, prop')
    BY <2>1, <2>2, <2>3, Zenon DEF Evolves, Moves
  <2>5. ASSUME NEW q \in proposals, prop'[q].status \in {"reaping", "submitting", "cleanup"}
        PROVE  q \in proposals'
    BY <1>1, <2>1, <2>2, <2>3, <2>5, Zenon DEF StrongRef
  <2>. QED
    BY <2>1, <2>4, <2>5, Zenon DEF Evolution
<1>8. ASSUME NEW q \in DOMAIN prop, DropProposal(q) \/ CommitRefused(q) \/ RebaseRefused(q)
      PROVE  Evolution
  <2>1. /\ prop' = [prop EXCEPT ![q].status = "dropped"] /\ prop[q].status = "open"
        /\ proposals' = proposals
    BY <1>8, Zenon DEF DropProposal, CommitRefused, RebaseRefused
  <2>. QED
    BY <1>4, <2>1, Zenon DEF Moves
<1>9. CASE ReapOldest \/ ReapDone \/ SubmitFails \/ Insert
  <2>1. writer \in DOMAIN prop
    BY <1>9, Zenon DEF ReapOldest, ReapDone, SubmitFails, Insert, RevisionInv, Writer
  <2>2. /\ proposals' = proposals
        /\ \/ prop' = prop
           \/ \E s \in {"dropped", "cleanup", "submitting"} :
                prop' = [prop EXCEPT ![writer].status = s] /\ Moves(prop[writer].status, s)
    BY <1>9, Zenon DEF ReapOldest, ReapDone, SubmitFails, Insert, Moves
  <2>. QED
    BY <1>2, <1>4, <2>1, <2>2, Zenon
<1>10. ASSUME NEW c \in Contents, Propose(c) PROVE Evolution
  <2>1. NewProposal(c, Current.content, Committed(Current.content, Current.id)) \in ProposalType
    BY CurrentParent, NewProposalTyped, Zenon
  <2>. QED
    BY <1>3, <1>10, <2>1, Zenon DEF Propose
<1>11. ASSUME NEW q \in DOMAIN prop, NEW c \in Contents, ProposeOn(q, c) PROVE Evolution
  <2>0. prop[q].content \in Contents /\ q \in Nat
    BY Typed DEF ProposalType
  <2>1. Proposed(q) \in ParentType
    BY <2>0, ContentsTyped, Zenon DEF ParentType, Proposed
  <2>2. NewProposal(c, prop[q].content, Proposed(q)) \in ProposalType
    BY <2>0, <2>1, NewProposalTyped, Zenon
  <2>. QED
    BY <1>3, <1>11, <2>2, Zenon DEF ProposeOn
<1>12. ASSUME NEW c \in Viewed, ViewProposals(c) PROVE Evolution
  BY <1>2, <1>12, Zenon DEF ViewProposals
<1>13. CASE ViewRevisions \/ ViewDropped \/ PersistFails \/ NoCall \/ UNCHANGED vars
  BY <1>2, <1>13, Zenon DEF ViewRevisions, ViewDropped, PersistFails, NoCall, vars
<1>. QED
  BY <1>5, <1>6, <1>7, <1>8, <1>9, <1>10, <1>11, <1>12, <1>13, Zenon DEF Next

-----------------------------------------------------------------------------
(* What a view finds                                                       *)

\* Who is being committed, or just was, is still listed.
Listed ==
  \A p \in DOMAIN prop :
    prop[p].status \in {"reaping", "submitting", "cleanup"} => p \in proposals

\* Every revision but the oldest comes from a commit that changed the contents.
Changed(ps, r) ==
  /\ r.content # r.base
  /\ \E p \in DOMAIN ps :
       /\ ps[p].status \in {"cleanup", "committed"} /\ ps[p].onto = r.id
       /\ ps[p].base = r.base /\ ps[p].content = r.content
Lineage ==
  /\ \A i \in DOMAIN revisions :
       revisions[i].id <= Current.id /\ (i # 1 => Changed(prop, revisions[i]))
  /\ writer # None => prop[writer].content # prop[writer].base

\* RoundTrip, of contents and an id.
CameBack(ps, c, id) ==
  \E p \in DOMAIN ps :
    /\ ps[p].status \in {"cleanup", "committed"} /\ ps[p].onto <= id
    /\ ps[p].base = c /\ ps[p].content # c

\* The index has the newest revision, unless its entry went with that of an
\* earlier one.
NewestIndexed ==
  Current.content # EmptyTrie =>
    \/ Current.content \in DOMAIN byHash
    \/ (writer # None \/ persistError) /\ CameBack(prop, Current.content, Current.id)

\* A view that goes on to the revisions left no proposal behind.
Searched ==
  viewer.at = "searching" =>
    /\ viewer.since \in Nat /\ viewer.since <= Len(prop)
    /\ \A p \in 1..viewer.since :
         viewer.content # EmptyTrie /\ prop[p].content = viewer.content =>
           prop[p].status \notin {"open", "reaping", "submitting", "cleanup"}

ViewInv == Listed /\ Lineage /\ NewestIndexed /\ Searched

\* What has come about stays.
LEMMA PastKept ==
  ASSUME NEW ps, NEW qs, Evolves(ps, qs)
  PROVE  /\ \A r : Changed(ps, r) => Changed(qs, r)
         /\ \A c, id : CameBack(ps, c, id) => CameBack(qs, c, id)
<1>1. ASSUME NEW p \in DOMAIN ps, ps[p].status \in {"cleanup", "committed"}
      PROVE  /\ p \in DOMAIN qs /\ qs[p].status \in {"cleanup", "committed"}
             /\ qs[p].onto = ps[p].onto /\ qs[p].base = ps[p].base
             /\ qs[p].content = ps[p].content
  BY <1>1, Zenon DEF Evolves, Moves
<1>2. ASSUME NEW r, Changed(ps, r) PROVE Changed(qs, r)
  BY <1>1, <1>2, Zenon DEF Changed
<1>3. ASSUME NEW c, NEW id, CameBack(ps, c, id) PROVE CameBack(qs, c, id)
  BY <1>1, <1>3, Zenon DEF CameBack
<1>. QED
  BY <1>2, <1>3, Zenon

\* Which steps change the queue, the index, the write lock and the reader.
LEMMA StepKinds ==
  ASSUME [Next]_vars
  PROVE  /\ \/ UNCHANGED <<revisions, byHash, writer>> \/ SubmitFails
            \/ \E p \in DOMAIN prop : BeginCommit(p) \/ Rebase(p)
            \/ ReapOldest \/ Insert
         /\ \/ UNCHANGED viewer \/ ViewRevisions \/ ViewDropped
            \/ \E c \in Viewed : ViewProposals(c)
         /\ persistError => persistError'
<1>1. ASSUME NEW c \in Contents, Propose(c)
      PROVE  UNCHANGED <<revisions, byHash, writer, viewer, persistError>>
  BY <1>1, Zenon DEF Propose
<1>2. ASSUME NEW p \in DOMAIN prop, NEW c \in Contents, ProposeOn(p, c)
      PROVE  UNCHANGED <<revisions, byHash, writer, viewer, persistError>>
  BY <1>2, Zenon DEF ProposeOn
<1>3. ASSUME NEW p \in DOMAIN prop, DropProposal(p) \/ CommitRefused(p) \/ RebaseRefused(p) \/ Cleanup(p)
      PROVE  UNCHANGED <<revisions, byHash, writer, viewer, persistError>>
  BY <1>3, Zenon DEF DropProposal, CommitRefused, RebaseRefused, Cleanup
<1>4. ASSUME NEW p \in DOMAIN prop, BeginCommit(p) \/ Rebase(p)
      PROVE  UNCHANGED <<viewer, persistError>>
  BY <1>4, Zenon DEF BeginCommit, Rebase
<1>5. CASE ReapOldest \/ Insert \/ SubmitFails
  <2>1. UNCHANGED <<viewer, persistError>>
    BY <1>5, Zenon DEF ReapOldest, Insert, SubmitFails
  <2>. QED
    BY <1>5, <2>1, Zenon
<1>6. CASE ReapDone \/ NoCall \/ UNCHANGED vars
  <2>1. UNCHANGED <<revisions, byHash, writer, viewer, persistError>>
    BY <1>6, Zenon DEF ReapDone, NoCall, vars
  <2>. QED
    BY <2>1, Zenon
<1>7. CASE PersistFails
  BY <1>7, Zenon DEF PersistFails
<1>8. ASSUME NEW c \in Viewed, ViewProposals(c)
      PROVE  UNCHANGED <<revisions, byHash, writer, persistError>>
  BY <1>8, Zenon DEF ViewProposals
<1>9. CASE ViewRevisions \/ ViewDropped
  <2>1. UNCHANGED <<revisions, byHash, writer, persistError>>
    BY <1>9, Zenon DEF ViewRevisions, ViewDropped
  <2>. QED
    BY <1>9, <2>1, Zenon
<1>. QED
  BY <1>1, <1>2, <1>3, <1>4, <1>5, <1>6, <1>7, <1>8, <1>9, Zenon DEF Next

\* The list keeps what is being committed.
LEMMA ListedStep ==
  ASSUME RevisionInv, RevisionInv', Listed, Evolution PROVE Listed'
<1> SUFFICES ASSUME NEW q \in DOMAIN prop', prop'[q].status \in {"reaping", "submitting", "cleanup"}
             PROVE  q \in proposals'
  BY Zenon DEF Listed
<1>1. CASE q \notin DOMAIN prop
  BY <1>1, Zenon DEF Evolution
<1>2. CASE q \in DOMAIN prop
  <2>1. prop[q].status \in {"open", "reaping", "submitting", "cleanup"}
    BY <1>2, Zenon DEF Evolution, Evolves, Moves
  <2>2. q \in proposals
    BY <1>2, <2>1, Zenon DEF Listed, RevisionInv, Outcomes
  <2>. QED
    BY <2>2, Zenon DEF Evolution
<1>. QED
  BY <1>1, <1>2, Zenon

\* How a view ends.
LEMMA AnswerAt ==
  \A a, r : Answered(a, r).at = a
BY Zenon DEF Answered, IdleViewer

\* No proposal that a view has passed comes back to life.
LEMMA SearchedStep ==
  ASSUME RevisionInv, RevisionInv', Listed, Searched, Evolution, [Next]_vars PROVE Searched'
<1>1. Len(prop) \in Nat /\ Len(prop') \in Nat /\ Len(prop) <= Len(prop')
      /\ DOMAIN prop = 1..Len(prop)
  <2>1. DOMAIN prop = 1..Len(prop) /\ Len(prop) \in Nat
    BY Typed
  <2>2. DOMAIN prop' = 1..Len(prop') /\ Len(prop') \in Nat
    BY LenProperties, Zenon DEF RevisionInv, TypeOK
  <2>3. DOMAIN prop \subseteq DOMAIN prop'
    BY Zenon DEF Evolution, Evolves
  <2>. QED
    BY <2>1, <2>2, <2>3
<1>2. \A q \in DOMAIN prop :
        /\ prop'[q].content = prop[q].content
        /\ prop'[q].status \in {"open", "reaping", "submitting", "cleanup"} =>
             prop[q].status \in {"open", "reaping", "submitting", "cleanup"}
  BY Zenon DEF Evolution, Evolves, Moves
<1>3. CASE UNCHANGED viewer
  BY <1>1, <1>2, <1>3 DEF Searched
<1>4. CASE ViewRevisions \/ ViewDropped
  <2>0. viewer' = IdleViewer \/ \E a \in {"holdsRevision", "holdsEmpty", "notFound"} :
          \E r : viewer' = Answered(a, r)
    BY <1>4, Zenon DEF ViewRevisions, ViewDropped
  <2>1. viewer'.at # "searching"
    <3>1. CASE viewer' = IdleViewer
      BY <3>1 DEF IdleViewer
    <3>2. ASSUME NEW a \in {"holdsRevision", "holdsEmpty", "notFound"}, NEW r,
                 viewer' = Answered(a, r)
          PROVE  viewer'.at # "searching"
      BY <3>2, AnswerAt
    <3>. QED
      BY <2>0, <3>1, <3>2, Zenon
  <2>. QED
    BY <2>1, Zenon DEF Searched
<1>5. ASSUME NEW c \in Viewed, ViewProposals(c) PROVE Searched'
  <2> DEFINE found == {p \in proposals : c # EmptyTrie /\ prop[p].content = c}
  <2>1. /\ \/ found = {} /\ viewer' = Searching(c)
           \/ \E p : viewer' = Answered("holdsProposal", p)
        /\ prop' = prop
    BY <1>5, Zenon DEF ViewProposals
  <2>2. CASE \E p : viewer' = Answered("holdsProposal", p)
    <3>1. viewer'.at = "holdsProposal"
      BY <2>2, AnswerAt, Zenon
    <3>. QED
      BY <3>1 DEF Searched
  <2>3. CASE found = {} /\ viewer' = Searching(c)
    <3>1. viewer'.since = Len(prop) /\ viewer'.content = c
      BY <2>3, Zenon DEF Searching
    <3>2. ASSUME NEW p \in DOMAIN prop, c # EmptyTrie, prop[p].content = c
          PROVE  prop[p].status \notin {"open", "reaping", "submitting", "cleanup"}
      BY <2>1, <2>3, <3>2, Zenon DEF Listed, RevisionInv, Outcomes
    <3>. QED
      BY <1>1, <2>1, <3>1, <3>2 DEF Searched
  <2>. QED
    BY <2>1, <2>2, <2>3, Zenon
<1>. QED
  BY <1>3, <1>4, <1>5, StepKinds, Zenon

\* A commit starts with contents other than those of the current revision.
LEMMA WriterChanges ==
  ASSUME RevisionInv, Evolution, NEW p \in DOMAIN prop, BeginCommit(p) \/ Rebase(p)
  PROVE  /\ UNCHANGED <<revisions, byHash, persistError>> /\ writer = None
         /\ writer' # None => prop'[writer'].content # prop'[writer'].base
<1>1. CASE BeginCommit(p)
  <2>1. /\ UNCHANGED <<revisions, byHash, persistError>> /\ writer = None
        /\ prop[p].parent.kind = "committed" /\ prop[p].parent.id = Current.id
        /\ writer' = writer \/ (writer' = p /\ prop[p].content # Current.content)
    BY <1>1, Zenon DEF BeginCommit, Enter, ParentIdIs
  <2>2. prop[p].base = Current.content
    <3>1. /\ prop[p].base = prop[p].parent.content
          /\ Names(revisions, Fresh, prop[p].parent.id, prop[p].parent.content)
      BY <2>1, Zenon DEF RevisionInv, Parents, OnRevision
    <3>2. Len(revisions) \in DOMAIN revisions /\ Current = revisions[Len(revisions)]
      BY Typed
    <3>. QED
      BY <2>1, <3>1, <3>2, Zenon DEF Names
  <2>3. prop'[p].content = prop[p].content /\ prop'[p].base = prop[p].base
    BY Zenon DEF Evolution, Evolves
  <2>. QED
    BY <2>1, <2>2, <2>3, Zenon
<1>2. CASE Rebase(p) /\ persistError
  BY <1>2, Zenon DEF Rebase
<1>3. CASE Rebase(p) /\ ~persistError
  <2>1. UNCHANGED <<revisions, byHash, persistError>> /\ writer = None
    BY <1>3, Zenon DEF Rebase
  <2>2. /\ prop'[Len(prop')].content = Rebased(p) /\ prop'[Len(prop')].base = Current.content
        /\ writer' = writer \/ (writer' = Len(prop') /\ Rebased(p) # Current.content)
    BY <1>3, RebaseEffect, Zenon
  <2>. QED
    BY <2>1, <2>2, Zenon
<1>. QED
  BY <1>1, <1>2, <1>3, Zenon

\* What reaping does: the newest revision stays.
LEMMA ReapEffect ==
  ASSUME RevisionInv, ReapOldest
  PROVE  /\ writer # None /\ Len(revisions) >= 2 /\ Current' = Current
         /\ DOMAIN byHash' = DOMAIN byHash \ {revisions[1].content}
         /\ writer' = writer \/ (writer' = None /\ persistError)
         /\ persistError' = persistError
         /\ revisions' = revisions \/ revisions' = Tail(revisions)
<1>1. /\ writer # None /\ persistError' = persistError
      /\ revisions' = revisions \/ revisions' = Tail(revisions)
      /\ writer' = writer \/ (writer' = None /\ persistError)
      /\ DOMAIN byHash' = DOMAIN byHash \ {Head(revisions).content}
  BY Zenon DEF ReapOldest
<1>2. Len(revisions) >= 2
  BY Typed, SizesAssumption DEF ReapOldest
<1>3. Head(revisions) = revisions[1]
  BY Typed, <1>2
<1>4. Current' = Current
  BY <1>1, <1>2, TailKept, Zenon DEF Current
<1>. QED
  BY <1>1, <1>2, <1>3, <1>4, Zenon

\* What an insertion does: the newest revision is the commit's, with an id above
\* all others.
LEMMA InsertEffect ==
  ASSUME RevisionInv, Insert
  PROVE  /\ writer \in DOMAIN prop /\ writer' = None
         /\ Len(revisions') = Len(revisions) + 1
         /\ \A i \in DOMAIN revisions : revisions'[i] = revisions[i]
         /\ DOMAIN revisions' = DOMAIN revisions \cup {Len(revisions')}
         /\ Current' = revisions'[Len(revisions')]
         /\ Current'.id = prop[writer].onto /\ Current'.id \in Nat
         /\ Current'.content = prop[writer].content /\ Current'.base = prop[writer].base
         /\ prop' = [prop EXCEPT ![writer].status = "cleanup"]
         /\ \A i \in DOMAIN revisions : revisions[i].id < Current'.id
         /\ Current'.content # EmptyTrie => Current'.content \in DOMAIN byHash'
<1> DEFINE p == prop[writer]
           r == [id |-> p.onto, content |-> p.content, base |-> p.base, builtOn |-> p.builtOn]
<1>1. /\ writer # None /\ revisions' = Append(revisions, r) /\ writer' = None
      /\ DOMAIN byHash' = DOMAIN byHash \cup {d \in {p.content} : HasHash(d)}
      /\ prop' = [prop EXCEPT ![writer].status = "cleanup"]
  BY Zenon DEF Insert
<1>2. writer \in DOMAIN prop /\ p.onto = nextId - 1 /\ Fresh = p.onto
  BY <1>1, Zenon DEF RevisionInv, Writer, Fresh
<1>3. /\ p \in ProposalType /\ revisions \in Seq(RevisionType)
      /\ DOMAIN revisions = 1..Len(revisions) /\ Len(revisions) \in Nat
  BY <1>2, Typed, Zenon
<1>4. /\ r \in RevisionType /\ r.id = p.onto /\ r.content = p.content /\ r.base = p.base
      /\ p.onto \in Nat
  BY <1>3, Zenon DEF ProposalType, RevisionType
<1> HIDE DEF r
<1>5. /\ Len(revisions') = Len(revisions) + 1 /\ revisions' \in Seq(RevisionType)
      /\ \A i \in 1..Len(revisions) : revisions'[i] = revisions[i]
      /\ revisions'[Len(revisions')] = r
  BY <1>1, <1>3, <1>4, AppendProperties
<1>6. DOMAIN revisions' = DOMAIN revisions \cup {Len(revisions')}
  BY <1>3, <1>5, LenProperties
<1>7. Current' = revisions'[Len(revisions')] /\ Current' = r
  BY <1>5, Zenon DEF Current
<1>8. \A i \in DOMAIN revisions : revisions[i].id < p.onto
  BY <1>2, Zenon DEF RevisionInv, History, Names
<1>9. p.content # EmptyTrie => p.content \in DOMAIN byHash'
  BY <1>1, Zenon DEF HasHash
<1>. QED
  BY <1>1, <1>2, <1>3, <1>4, <1>5, <1>6, <1>7, <1>8, <1>9, Zenon

\* The lineage of the revisions that are kept stays known.
LEMMA LineageStep == ASSUME RevisionInv, Lineage, Evolution, [Next]_vars PROVE Lineage'
<1>1. /\ DOMAIN revisions = 1..Len(revisions) /\ Len(revisions) \in Nat \ {0}
      /\ \A j \in DOMAIN revisions :
           /\ revisions[j].id <= Current.id /\ revisions[j].id \in Nat
           /\ j # 1 => Changed(prop', revisions[j])
  <2>1. /\ DOMAIN revisions = 1..Len(revisions) /\ Len(revisions) \in Nat \ {0}
        /\ \A j \in DOMAIN revisions : revisions[j].id \in Nat
    BY Typed DEF RevisionType
  <2>. QED
    BY <2>1, PastKept, Zenon DEF Lineage, Evolution
<1>2. \A q \in DOMAIN prop :
        prop'[q].content = prop[q].content /\ prop'[q].base = prop[q].base
  BY Zenon DEF Evolution, Evolves
<1>3. writer # None => writer \in DOMAIN prop
  BY Zenon DEF RevisionInv, Writer
<1>4. ASSUME writer' = writer \/ writer' = None
      PROVE  writer' # None => prop'[writer'].content # prop'[writer'].base
  BY <1>2, <1>3, <1>4, Zenon DEF Lineage
<1>5. CASE UNCHANGED <<revisions, byHash, writer>> \/ SubmitFails
  <2>1. revisions' = revisions /\ (writer' = writer \/ writer' = None)
    BY <1>5, Zenon DEF SubmitFails
  <2>2. Current' = Current
    BY <2>1, Zenon DEF Current
  <2>. QED
    BY <1>1, <1>4, <2>1, <2>2, Zenon DEF Lineage
<1>6. ASSUME NEW p \in DOMAIN prop, BeginCommit(p) \/ Rebase(p) PROVE Lineage'
  <2>1. revisions' = revisions /\ (writer' # None => prop'[writer'].content # prop'[writer'].base)
    BY <1>6, WriterChanges, Zenon
  <2>2. Current' = Current
    BY <2>1, Zenon DEF Current
  <2>. QED
    BY <1>1, <2>1, <2>2, Zenon DEF Lineage
<1>7. CASE ReapOldest
  <2>1. /\ Len(revisions) >= 2 /\ Current' = Current /\ (writer' = writer \/ writer' = None)
        /\ revisions' = revisions \/ revisions' = Tail(revisions)
    BY <1>7, ReapEffect, Zenon
  <2>2. CASE revisions' = revisions
    BY <1>1, <1>4, <2>1, <2>2, Zenon DEF Lineage
  <2>3. CASE revisions' = Tail(revisions)
    <3>1. /\ revisions' \in Seq(RevisionType) /\ Len(revisions') = Len(revisions) - 1
          /\ \A j \in 1..(Len(revisions) - 1) : revisions'[j] = revisions[j + 1]
      <4>1. revisions \in Seq(RevisionType) /\ revisions # <<>>
        BY Zenon DEF RevisionInv, TypeOK
      <4>. QED
        BY <2>3, <4>1, HeadTailProperties, Zenon
    <3>2. DOMAIN revisions' = 1..(Len(revisions) - 1)
      BY <3>1, LenProperties, Zenon
    <3>3. ASSUME NEW j \in DOMAIN revisions'
          PROVE  /\ j + 1 \in DOMAIN revisions /\ j + 1 # 1
                 /\ revisions'[j] = revisions[j + 1]
      BY <1>1, <3>1, <3>2
    <3>4. ASSUME NEW j \in DOMAIN revisions'
          PROVE  revisions'[j].id <= Current'.id /\ Changed(prop', revisions'[j])
      BY <1>1, <2>1, <3>3, Zenon
    <3>. QED
      BY <1>4, <2>1, <3>4, Zenon DEF Lineage
  <2>. QED
    BY <2>1, <2>2, <2>3, Zenon
<1>8. CASE Insert
  <2>1. /\ writer \in DOMAIN prop /\ writer' = None
        /\ \A j \in DOMAIN revisions : revisions'[j] = revisions[j]
        /\ DOMAIN revisions' = DOMAIN revisions \cup {Len(revisions')}
        /\ Current' = revisions'[Len(revisions')]
        /\ Current'.id = prop[writer].onto /\ Current'.id \in Nat
        /\ Current'.content = prop[writer].content /\ Current'.base = prop[writer].base
        /\ prop' = [prop EXCEPT ![writer].status = "cleanup"]
        /\ \A j \in DOMAIN revisions : revisions[j].id < Current'.id
    BY <1>8, InsertEffect, Zenon
  <2>2. Changed(prop', Current')
    <3>1. prop \in Seq(ProposalType) /\ "cleanup" \in Statuses
      BY Typed, Zenon DEF Statuses
    <3>2. SetTo(prop, prop', writer, "cleanup", prop[writer].onto)
      BY <2>1, <3>1, StatusOnly, Zenon
    <3>3. prop[writer].content # prop[writer].base
      BY <1>8, Zenon DEF Lineage, Insert
    <3>4. /\ writer \in DOMAIN prop' /\ prop'[writer].status = "cleanup"
          /\ prop'[writer].onto = Current'.id /\ prop'[writer].content = Current'.content
          /\ prop'[writer].base = Current'.base
      BY <2>1, <3>2, Zenon DEF SetTo
    <3>. QED
      BY <2>1, <3>3, <3>4, Zenon DEF Changed
  <2>3. Current'.id <= Current'.id /\ \A j \in DOMAIN revisions : revisions[j].id <= Current'.id
    <3>1. \A m, n \in Nat : m <= m /\ (n < m => n <= m)
      OBVIOUS
    <3>. QED
      BY <1>1, <2>1, <3>1, Zenon
  <2>4. ASSUME NEW j \in DOMAIN revisions'
        PROVE  revisions'[j].id <= Current'.id /\ (j # 1 => Changed(prop', revisions'[j]))
    <3>1. CASE j \in DOMAIN revisions
      BY <1>1, <2>1, <2>3, <3>1, Zenon
    <3>2. CASE j = Len(revisions')
      BY <2>1, <2>2, <2>3, <3>2, Zenon
    <3>. QED
      BY <2>1, <3>1, <3>2, Zenon
  <2>. QED
    BY <2>1, <2>4, Zenon DEF Lineage
<1>. QED
  BY <1>5, <1>6, <1>7, <1>8, StepKinds, Zenon

\* Only reaping takes the newest revision out of the index, with the oldest one
\* when both have the same contents; the commit that follows the oldest one then
\* left these contents.
LEMMA NewestStep ==
  ASSUME RevisionInv, Lineage, NewestIndexed, Evolution, [Next]_vars PROVE NewestIndexed'
<1>1. \A c, n : CameBack(prop, c, n) => CameBack(prop', c, n)
  BY PastKept, Zenon DEF Evolution
<1>2. persistError => persistError'
  BY StepKinds, Zenon
<1>3. CASE UNCHANGED <<revisions, byHash, writer>>
  BY <1>1, <1>2, <1>3, Zenon DEF NewestIndexed, Current
<1>4. CASE SubmitFails
  <2>1. UNCHANGED <<revisions, byHash>> /\ persistError'
    BY <1>2, <1>4, Zenon DEF SubmitFails
  <2>. QED
    BY <1>1, <2>1, Zenon DEF NewestIndexed, Current
<1>5. ASSUME NEW p \in DOMAIN prop, BeginCommit(p) \/ Rebase(p) PROVE NewestIndexed'
  <2>1. UNCHANGED <<revisions, byHash, persistError>> /\ writer = None
    BY <1>5, WriterChanges, Zenon
  <2>. QED
    BY <1>1, <2>1, Zenon DEF NewestIndexed, Current
<1>6. CASE ReapOldest
  <2>1. /\ Len(revisions) >= 2 /\ Current' = Current
        /\ DOMAIN byHash' = DOMAIN byHash \ {revisions[1].content}
    BY <1>6, ReapEffect, Zenon
  <2>2. writer' # None \/ persistError'
    <3>1. writer # None /\ (writer' = writer \/ (writer' = None /\ persistError))
      BY <1>6, ReapEffect, Zenon
    <3>. QED
      BY <1>2, <3>1, Zenon
  <2>3. CASE Current.content # revisions[1].content
    BY <1>1, <2>1, <2>2, <2>3, Zenon DEF NewestIndexed
  <2>4. CASE Current.content = revisions[1].content
    <3>1. /\ 2 \in DOMAIN revisions /\ 2 # 1 /\ 1 \in 1..(Len(revisions) - 1) /\ 1 + 1 = 2
      BY <2>1, Typed
    <3>2. revisions[2].base = Current.content
      BY <2>4, <3>1, Zenon DEF RevisionInv, HistoryIsChain
    <3>3. revisions[2].id <= Current.id /\ Changed(prop, revisions[2])
      BY <3>1, Zenon DEF Lineage
    <3>4. CameBack(prop, Current.content, Current.id)
      BY <3>2, <3>3, Zenon DEF Changed, CameBack
    <3>. QED
      BY <1>1, <2>1, <2>2, <3>4, Zenon DEF NewestIndexed
  <2>. QED
    BY <2>3, <2>4, Zenon
<1>7. CASE Insert
  BY <1>7, InsertEffect, Zenon DEF NewestIndexed
<1>. QED
  BY <1>3, <1>4, <1>5, <1>6, <1>7, StepKinds, Zenon

\* Initially nothing has been proposed and the revision read from disk is indexed.
LEMMA ViewInit == Init => ViewInv
<1> SUFFICES ASSUME Init PROVE ViewInv
  BY Zenon
<1>1. PICK c \in Stored :
        /\ revisions = <<[id |-> 1, content |-> c, base |-> c, builtOn |-> Committed(c, None)]>>
        /\ byHash = [d \in {e \in {c} : HasHash(e)} |-> 1]
  BY Zenon DEF Init
<1>2. /\ DOMAIN revisions = {1} /\ Len(revisions) = 1
      /\ revisions[1].id = 1 /\ revisions[1].content = c
  BY <1>1
<1>3. prop = <<>> /\ DOMAIN prop = {} /\ writer = None /\ viewer = IdleViewer
  BY DEF Init
<1>4. Current.id = 1 /\ Current.content = c
  BY <1>2, Zenon DEF Current
<1>5. Lineage
  BY <1>2, <1>3, <1>4 DEF Lineage
<1>6. NewestIndexed
  BY <1>1, <1>4, Zenon DEF NewestIndexed, HasHash
<1>7. Searched
  BY <1>3 DEF Searched, IdleViewer
<1>. QED
  BY <1>3, <1>5, <1>6, <1>7, Zenon DEF ViewInv, Listed

\* A view that ends in "not found" has passed no live proposal, and misses the
\* newest revision only where the index lost it.
LEMMA ViewStep ==
  ASSUME RevisionInv, ViewInv, [Next]_vars, viewer.at = "searching", viewer'.at = "notFound"
  PROVE  /\ \A p \in 1..viewer.since :
              prop[p].content = viewer.content =>
                prop[p].status \notin {"open", "reaping", "submitting", "cleanup"}
         /\ Current.content = viewer.content =>
              (writer # None \/ persistError) /\ RoundTrip(Current)
<1>1. ViewRevisions
  <2>1. viewer' # viewer
    OBVIOUS
  <2>2. ~ViewDropped
    BY DEF ViewDropped
  <2>3. ASSUME NEW c \in Viewed PROVE ~ViewProposals(c)
    BY DEF ViewProposals
  <2>. QED
    BY <2>1, <2>2, <2>3, StepKinds, Zenon
<1>2. viewer.content \notin DOMAIN byHash /\ viewer.content # EmptyTrie
  <2>1. ASSUME viewer.content \in DOMAIN byHash PROVE FALSE
    <3>1. viewer' = Answered("holdsRevision", byHash[viewer.content])
      BY <1>1, <2>1, Zenon DEF ViewRevisions
    <3>. QED
      BY <3>1, AnswerAt
  <2>2. ASSUME viewer.content = EmptyTrie, viewer.content \notin DOMAIN byHash PROVE FALSE
    <3>1. viewer' = Answered("holdsEmpty", None)
      BY <1>1, <2>2, Zenon DEF ViewRevisions
    <3>. QED
      BY <3>1, AnswerAt
  <2>. QED
    BY <2>1, <2>2, Zenon
<1>3. ASSUME NEW p \in 1..viewer.since, prop[p].content = viewer.content
      PROVE  prop[p].status \notin {"open", "reaping", "submitting", "cleanup"}
  BY <1>2, <1>3, Zenon DEF ViewInv, Searched
<1>4. ASSUME Current.content = viewer.content
      PROVE  (writer # None \/ persistError) /\ RoundTrip(Current)
  BY <1>2, <1>4, Zenon DEF ViewInv, NewestIndexed, CameBack, RoundTrip
<1>. QED
  BY <1>3, <1>4, Zenon

\* view() searches the proposals and then the revisions, under two locks.  For
\* every history of commits in between, it finds what was proposed before it began
\* and is still open or being committed; and it finds the newest revision, but for
\* one that repeats earlier contents while a later commit reaps.
THEOREM LatestFound == Spec => ViewFindsLatest
<1>1. RevisionInv /\ ViewInv /\ [Next]_vars /\ RevisionInv' => ViewInv'
  BY EvolutionStep, ListedStep, SearchedStep, LineageStep, NewestStep, Zenon DEF ViewInv
<1>2. Spec => []ViewInv
  BY <1>1, ViewInit, Invariance, PTL DEF Spec
<1>3. RevisionInv /\ ViewInv /\ [Next]_vars =>
        [viewer.at = "searching" /\ viewer'.at = "notFound" =>
           /\ \A p \in 1..viewer.since :
                prop[p].content = viewer.content =>
                  prop[p].status \notin {"open", "reaping", "submitting", "cleanup"}
           /\ Current.content = viewer.content =>
                (writer # None \/ persistError) /\ RoundTrip(Current)]_vars
  BY ViewStep, Zenon
<1>. QED
  BY <1>2, <1>3, Invariance, PTL DEF Spec, ViewFindsLatest
=============================================================================
