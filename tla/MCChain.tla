------------------------------ MODULE MCChain ------------------------------
(* ChainPublisher on small instances. *)
EXTENDS ChainPublisher

\* One side branch, from the second block on.
ForkAtTwo == [k \in Branch |-> IF k = 0 THEN 1 ELSE 2]

\* Two side branches, from the second and the third block on.
TwoForks == [k \in Branch |-> k + 1]

\* Deep reorganisations behind providers that lag, and shallow ones behind providers
\* that keep up.
DeepOrShallow ==
    {[depth |-> 4, lagging |-> {"archive", "rpc"}], [depth |-> 2, lagging |-> {}]}

KeepingUp == {[depth |-> 2, lagging |-> {}]}

ArchiveLags == {[depth |-> 2, lagging |-> {"archive"}]}

AllFaults == {"call", "index_commit", "audit_commit", "ipns", "crash"}

\* Commits of the indexing loop are not ambiguous.
PublisherFaults == AllFaults \ {"index_commit"}

=============================================================================
