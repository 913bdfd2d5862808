--------------------------- MODULE RevisionManager ---------------------------
(***************************************************************************)
(* Proposals and committed revisions: RevisionManager (manager.rs), the    *)
(* Proposal operations of Db (db.rs) and the parent pointers of proposals  *)
(* (nodestore/mod.rs), without archival mode.                              *)
(*                                                                         *)
(* The content of a trie stands for its root hash as well: two tries have  *)
(* the same hash exactly when they have the same content.  Threads run     *)
(* propose, commit, commit_with_rebase and view concurrently; a commit     *)
(* holds the write lock of the queue ("writer") from its first check to    *)
(* the insertion of the new revision, the by_hash and proposals locks only *)
(* for the single steps in which they change.                              *)
(***************************************************************************)
EXTENDS Integers, Sequences, FiniteSets

CONSTANTS Keys, Vals,      \* contents of the trie; Absent marks a missing key
          Absent,
          Stored,          \* the contents the database may be opened with
          MaxRevisions,    \* RevisionManagerConfig::max_revisions
          MaxProposals,    \* bound: proposals the callers make in one run
          DefaultRootHash, \* the hash mode gives the empty trie a hash
          Viewed,          \* the contents readers ask for
          PersistFaults    \* the persist worker may fail

ASSUME SizesAssumption == MaxRevisions \in Nat /\ MaxRevisions >= 2 /\ MaxProposals \in Nat
ASSUME FlagsAssumption == {DefaultRootHash, PersistFaults} \subseteq BOOLEAN
ASSUME ContentsAssumption == Stored \cup Viewed \subseteq [Keys -> Vals \cup {Absent}]

VARIABLES revisions,     \* in_memory_revisions, oldest first
          byHash,        \* by_hash: content -> id of a revision
          prop,          \* every proposal ever made, in order of creation
          proposals,     \* the manager's list of proposals
          writer,        \* proposal whose commit holds the write lock, or None
          nextId,        \* CommittedId counter
          viewer,        \* a thread in view(), or holding what it returned
          persistError   \* the persist worker has failed

vars == <<revisions, byHash, prop, proposals, writer, nextId, viewer, persistError>>

None == 0
Contents == [Keys -> Vals \cup {Absent}]
EmptyTrie == [k \in Keys |-> Absent]

\* root_hash().or_else(default_root_hash) is Some
HasHash(c) == c # EmptyTrie \/ DefaultRootHash

\* NodeStoreParent
Committed(c, id) == [kind |-> "committed", content |-> c, id |-> id]
Proposed(p) == [kind |-> "proposed", content |-> EmptyTrie, id |-> p]

\* A proposal remembers what it was built on (base, builtOn, for the properties
\* only) beside the parent pointer, which reparenting changes, and the id of the
\* revision it becomes.
NewProposal(c, base, parent) ==
  [content |-> c, base |-> base, builtOn |-> parent, parent |-> parent, status |-> "open",
   onto |-> None]

Current == revisions[Len(revisions)]
\* Variants (plausible mistakes in the definition that follows, which the
\* properties tell from the code): the parent is compared by hash.
ParentHashIs(p, id) ==
  prop[p].parent.kind = "committed" /\ prop[p].parent.content = Current.content

ParentIdIs(p, id) == prop[p].parent.kind = "committed" /\ prop[p].parent.id = id

\* Arc::strong_count(p) > 1: a handle, a call in progress or a view refers to p.
StrongRef(p) == \/ prop[p].status \in {"open", "reaping", "submitting", "cleanup"}
                \/ viewer.at = "holdsProposal" /\ viewer.ref = p
RevisionHeld(id) == viewer.at = "holdsRevision" /\ viewer.ref = id

\* A view remembers how many proposals had been made when it began (since, for
\* the properties only).
IdleViewer == [at |-> "idle", content |-> EmptyTrie, ref |-> None, since |-> 0]
Searching(c) == [at |-> "searching", content |-> c, ref |-> None, since |-> Len(prop)]
Answered(at, ref) == [IdleViewer EXCEPT !.at = at, !.ref = ref]

Init ==
  /\ \E c \in Stored :
       /\ revisions = <<[id |-> 1, content |-> c, base |-> c, builtOn |-> Committed(c, None)]>>
       /\ byHash = [d \in {e \in {c} : HasHash(e)} |-> 1]
  /\ prop = <<>> /\ proposals = {} /\ writer = None /\ nextId = 2
  /\ viewer = IdleViewer /\ persistError = FALSE

-----------------------------------------------------------------------------
(* Proposals                                                               *)

\* A rebase makes a proposal in the place of another.
ProposalsMade == Cardinality({p \in DOMAIN prop : prop[p].status # "rebased"})

\* Db::propose: on top of current_revision(), which waits for the write lock.
Propose(c) ==
  /\ ProposalsMade < MaxProposals /\ writer = None /\ ~persistError
  /\ prop' = Append(prop, NewProposal(c, Current.content, Committed(Current.content, Current.id)))
  /\ proposals' = proposals \cup {Len(prop')}
  /\ UNCHANGED <<revisions, byHash, writer, nextId, viewer, persistError>>

\* Proposal::propose: on top of a proposal the caller borrows.
ProposeOn(p, c) ==
  /\ ProposalsMade < MaxProposals /\ prop[p].status = "open" /\ ~persistError
  /\ prop' = Append(prop, NewProposal(c, prop[p].content, Proposed(p)))
  /\ proposals' = proposals \cup {Len(prop')}
  /\ UNCHANGED <<revisions, byHash, writer, nextId, viewer, persistError>>

\* The caller drops its handle; the list entry goes with the next cleanup.
DropProposal(p) ==
  /\ prop[p].status = "open"
  /\ prop' = [prop EXCEPT ![p].status = "dropped"]
  /\ UNCHANGED <<revisions, byHash, proposals, writer, nextId, viewer, persistError>>

-----------------------------------------------------------------------------
(* Commit                                                                  *)

\* Steps 1 and 2: check_error and the commit check, both refusing the commit.
CommitRefused(p) ==
  /\ prop[p].status = "open" /\ writer = None
  /\ persistError \/ ~ParentIdIs(p, Current.id)
  /\ prop' = [prop EXCEPT ![p].status = "dropped"]
  /\ UNCHANGED <<revisions, byHash, proposals, writer, nextId, viewer, persistError>>

\* Entering the critical section with q: the trivial path takes the id of the
\* current revision, otherwise q gets a new id and holds the write lock.
Enter(ps, q) ==
  IF ps[q].content = Current.content
  THEN /\ prop' = [ps EXCEPT ![q].status = "cleanup", ![q].onto = Current.id]
       /\ UNCHANGED <<writer, nextId>>
  ELSE /\ prop' = [ps EXCEPT ![q].status = "reaping", ![q].onto = nextId]
       /\ writer' = q /\ nextId' = nextId + 1

BeginCommit(p) ==
  /\ prop[p].status = "open" /\ writer = None
  /\ ~persistError /\ ParentIdIs(p, Current.id)
  /\ Enter(prop, p)
  /\ UNCHANGED <<revisions, byHash, proposals, viewer, persistError>>

\* commit_with_rebase of a stale proposal fails: its parent is a proposal, or
\* was reaped and is no longer in the index.
RebaseRefused(p) ==
  /\ prop[p].status = "open" /\ writer = None /\ ~ParentIdIs(p, Current.id)
  /\ \/ prop[p].parent.kind = "proposed"
     \/ prop[p].parent.content # EmptyTrie /\ prop[p].parent.content \notin DOMAIN byHash
  /\ prop' = [prop EXCEPT ![p].status = "dropped"]
  /\ UNCHANGED <<revisions, byHash, proposals, writer, nextId, viewer, persistError>>

\* Variant: the whole proposal replaces the current content.
RebasedWhole(p) == prop[p].content

\* What the rebased proposal contains: the difference between the proposal and
\* the revision found under its parent's hash, applied to the current one.
Rebased(p) ==
  [k \in Keys |-> IF prop[p].content[k] # prop[p].parent.content[k]
                  THEN prop[p].content[k] ELSE Current.content[k]]

Rebase(p) ==
  /\ prop[p].status = "open" /\ writer = None /\ ~ParentIdIs(p, Current.id)
  /\ prop[p].parent.kind = "committed"
  /\ prop[p].parent.content = EmptyTrie \/ prop[p].parent.content \in DOMAIN byHash
  /\ IF persistError
     THEN /\ prop' = [prop EXCEPT ![p].status = "dropped"]
          /\ proposals' = proposals \ {p}
          /\ UNCHANGED <<writer, nextId>>
     ELSE /\ proposals' = (proposals \ {p}) \cup {Len(prop) + 1}
          /\ Enter(Append([prop EXCEPT ![p].status = "rebased"],
                          NewProposal(Rebased(p), Current.content,
                                      Committed(Current.content, Current.id))),
                   Len(prop) + 1)
  /\ UNCHANGED <<revisions, byHash, viewer, persistError>>

\* Step 3, one iteration: the oldest revision leaves the index, and the queue
\* too unless it is still referenced, which ends the reaping.
ReapOldest ==
  /\ writer # None /\ prop[writer].status = "reaping" /\ Len(revisions) >= MaxRevisions
  /\ byHash' = [c \in DOMAIN byHash \ {Head(revisions).content} |-> byHash[c]]
  /\ IF RevisionHeld(Head(revisions).id)
     THEN /\ prop' = [prop EXCEPT ![writer].status = "submitting"]
          /\ UNCHANGED <<revisions, writer>>
     ELSE /\ revisions' = Tail(revisions)
          /\ \/ UNCHANGED <<prop, writer>>
             \/ /\ persistError      \* reap() returns the worker's error
                /\ prop' = [prop EXCEPT ![writer].status = "dropped"]
                /\ writer' = None
  /\ UNCHANGED <<proposals, nextId, viewer, persistError>>

\* Variant: the proposal leaves the list before its revision is in the index.
ReapDoneForgets ==
  /\ writer # None /\ prop[writer].status = "reaping" /\ Len(revisions) < MaxRevisions
  /\ prop' = [prop EXCEPT ![writer].status = "submitting"]
  /\ proposals' = proposals \ {writer}
  /\ UNCHANGED <<revisions, byHash, writer, nextId, viewer, persistError>>

ReapDone ==
  /\ writer # None /\ prop[writer].status = "reaping" /\ Len(revisions) < MaxRevisions
  /\ prop' = [prop EXCEPT ![writer].status = "submitting"]
  /\ UNCHANGED <<revisions, byHash, proposals, writer, nextId, viewer, persistError>>

\* Step 4 fails: submit_revision returns the worker's error.
SubmitFails ==
  /\ writer # None /\ prop[writer].status = "submitting" /\ persistError
  /\ prop' = [prop EXCEPT ![writer].status = "dropped"]
  /\ writer' = None
  /\ UNCHANGED <<revisions, byHash, proposals, nextId, viewer, persistError>>

\* Steps 4 and 5: the revision is submitted, enters the queue and the index,
\* and the write lock is released.
Insert ==
  /\ writer # None /\ prop[writer].status = "submitting"
  /\ LET p == prop[writer] IN
       /\ revisions' = Append(revisions, [id |-> p.onto, content |-> p.content, base |-> p.base,
                                          builtOn |-> p.builtOn])
       /\ byHash' = [c \in DOMAIN byHash \cup {d \in {p.content} : HasHash(d)}
                       |-> IF c = p.content THEN p.onto ELSE byHash[c]]
  /\ prop' = [prop EXCEPT ![writer].status = "cleanup"]
  /\ writer' = None
  /\ UNCHANGED <<proposals, nextId, viewer, persistError>>

\* Variant: children keep their parent.
CleanupOrphans(p) ==
  /\ prop[p].status = "cleanup"
  /\ proposals' = {q \in proposals : q # p /\ StrongRef(q)}
  /\ prop' = [prop EXCEPT ![p].status = "committed"]
  /\ UNCHANGED <<revisions, byHash, writer, nextId, viewer, persistError>>

\* Step 6, under the proposals lock only: forget the committed proposal and the
\* abandoned ones, reparent its children among the rest.
Cleanup(p) ==
  /\ prop[p].status = "cleanup"
  /\ proposals' = {q \in proposals : q # p /\ StrongRef(q)}
  /\ prop' = [q \in DOMAIN prop |->
                IF q = p THEN [prop[p] EXCEPT !.status = "committed"]
                ELSE IF q \in proposals' /\ prop[q].parent = Proposed(p)
                THEN [prop[q] EXCEPT !.parent = Committed(prop[p].content, prop[p].onto)]
                ELSE prop[q]]
  /\ UNCHANGED <<revisions, byHash, writer, nextId, viewer, persistError>>

-----------------------------------------------------------------------------
(* Views                                                                   *)

\* view(), first half: search the list of proposals.
ViewProposals(c) ==
  /\ viewer.at = "idle" /\ HasHash(c)
  /\ LET found == {p \in proposals : c # EmptyTrie /\ prop[p].content = c} IN
     IF found = {}
     THEN viewer' = Searching(c)
     ELSE \E p \in found : viewer' = Answered("holdsProposal", p)
  /\ UNCHANGED <<revisions, byHash, prop, proposals, writer, nextId, persistError>>

\* view(), second half: revision(), which synthesises an empty trie.
ViewRevisions ==
  /\ viewer.at = "searching"
  /\ viewer' = IF viewer.content \in DOMAIN byHash
               THEN Answered("holdsRevision", byHash[viewer.content])
               ELSE IF viewer.content = EmptyTrie THEN Answered("holdsEmpty", None)
               ELSE Answered("notFound", None)
  /\ UNCHANGED <<revisions, byHash, prop, proposals, writer, nextId, persistError>>

ViewDropped ==
  /\ viewer.at \in {"holdsProposal", "holdsRevision", "holdsEmpty", "notFound"}
  /\ viewer' = IdleViewer
  /\ UNCHANGED <<revisions, byHash, prop, proposals, writer, nextId, persistError>>

PersistFails ==
  /\ PersistFaults /\ ~persistError
  /\ persistError' = TRUE
  /\ UNCHANGED <<revisions, byHash, prop, proposals, writer, nextId, viewer>>

-----------------------------------------------------------------------------
\* No call is in progress; whether another one comes is the application's choice.
NoCall ==
  /\ \A p \in DOMAIN prop : prop[p].status \notin {"reaping", "submitting", "cleanup"}
  /\ viewer.at # "searching"
  /\ UNCHANGED vars

Next ==
  \/ \E c \in Contents : Propose(c)
  \/ \E c \in Viewed : ViewProposals(c)
  \/ \E p \in DOMAIN prop :
       \/ \E c \in Contents : ProposeOn(p, c)
       \/ DropProposal(p) \/ CommitRefused(p) \/ BeginCommit(p)
       \/ RebaseRefused(p) \/ Rebase(p) \/ Cleanup(p)
  \/ ReapOldest \/ ReapDone \/ SubmitFails \/ Insert
  \/ ViewRevisions \/ ViewDropped \/ PersistFails \/ NoCall

Spec == Init /\ [][Next]_vars

-----------------------------------------------------------------------------
(* Properties                                                              *)

\* Consecutive revisions: each was built on exactly the one before it, the same
\* revision and not merely one of equal hash, so its deleted list names that
\* revision's nodes; and on its content, so no committed change is lost.
HistoryIsChain ==
  \A i \in 1..(Len(revisions) - 1) :
    /\ LET on == revisions[i + 1].builtOn IN
         revisions[i].id = IF on.kind = "committed" THEN on.id ELSE prop[on.id].onto
    /\ revisions[i + 1].base = revisions[i].content

\* A rebased commit applies what the caller changed relative to the revision the
\* proposal was built on, and nothing else: the changes of the commits it was
\* rebased over survive.
RebaseKeepsBoth ==
  [][\A p \in DOMAIN prop :
       prop[p].status = "open" /\ prop'[p].status = "rebased" =>
         \A k \in Keys :
           prop'[Len(prop')].content[k] =
             IF prop[p].content[k] = prop[p].base[k] THEN Current.content[k] ELSE prop[p].content[k]]_vars

\* A commit up to r left the contents of r for others: r came back to them.
RoundTrip(r) ==
  \E p \in DOMAIN prop :
    /\ prop[p].status \in {"cleanup", "committed"} /\ prop[p].onto <= r.id
    /\ prop[p].base = r.content /\ prop[p].content # r.content

\* What a view may answer "not found" to, although its search of the proposals
\* and that of the revisions are two steps between which commits go on.  Never to
\* the contents of a proposal made before it began that is still open, is being
\* committed or has just been: "the revision is always findable during the
\* transition" (manager.rs).  To the contents of the newest revision only when
\* the history came back to them and a later commit, which is in progress or
\* failed with the persist worker, has reaped the earlier revision and with it
\* the entry that both share; never while no commit is in progress.
ViewFindsLatest ==
  [][viewer.at = "searching" /\ viewer'.at = "notFound" =>
       /\ \A p \in 1..viewer.since :
            prop[p].content = viewer.content =>
              prop[p].status \notin {"open", "reaping", "submitting", "cleanup"}
       /\ Current.content = viewer.content =>
            (writer # None \/ persistError) /\ RoundTrip(Current)]_vars

\* Once a commit has cleaned up, its children can be committed in turn: no live
\* proposal keeps pointing at a proposal that was committed.
ChildrenReparented ==
  \A p \in proposals :
    prop[p].status = "open" /\ prop[p].parent.kind = "proposed" =>
      prop[prop[p].parent.id].status # "committed"

-----------------------------------------------------------------------------
(* Statements of the documentation that the code does not keep             *)

\* "Maps root hash to the corresponding committed revision" (manager.rs) for
\* the committed revisions kept in memory: every one of them is found.
RetainedIndexed ==
  writer = None =>
    \A i \in DOMAIN revisions : HasHash(revisions[i].content) => revisions[i].content \in DOMAIN byHash
=============================================================================
