---------------------------- MODULE MCNodeStorage ----------------------------
(* Instances of NodeStorage for TLC.                                       *)
EXTENDS NodeStorage, TLC

CONSTANTS l1, l2

\* An existing database with the leaf l, without readers and caches.
Plain(l) == [leaves |-> {l}, gap |-> 1, revisions |-> 2, commits |-> 4, crashes |-> 0, readers |-> 0,
             proposals |-> FALSE, strategy |-> "off", linking |-> FALSE, opened |-> {"existing"}]

\* Crashes at every point of a workload with two leaves and a gap of one.
Crashing == [Plain(l1) EXCEPT !.leaves = {l1, l2}, !.crashes = 1, !.opened = {"existing", "new"}]

\* Readers that hold revisions, and a gap of two.
Reading(l) == [Plain(l) EXCEPT !.gap = 2, !.revisions = 3, !.commits = 5, !.readers = 4]

\* A reader that reads through the node cache, and a proposal that does.
Caching(l) == [Plain(l) EXCEPT !.readers = 1, !.strategy = "All"]
Proposing(l) == [Plain(l) EXCEPT !.proposals = TRUE, !.strategy = "BranchReads"]

\* Free areas whose links are cached, across a crash.
Linked(l) == [Plain(l) EXCEPT !.commits = 5, !.crashes = 1, !.linking = TRUE]

\* A new database that crashes early.
Starting == [Plain(l1) EXCEPT !.commits = 1, !.crashes = 1, !.opened = {"new"}]

StorageScenarios == {Crashing} \cup UNION {{Reading(l), Caching(l), Proposing(l), Linked(l)} : l \in {l1, l2}}
FirstPersist == {Starting}
LeafSymmetry == Permutations({l1, l2})
=============================================================================
