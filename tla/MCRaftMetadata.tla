--------------------------- MODULE MCRaftMetadata ---------------------------
(***************************************************************************)
(* Small instances of RaftMetadata.                                         *)
(***************************************************************************)
EXTENDS RaftMetadata, TLC

\* A member that comes back, and a client that is overtaken by an older member.
OneMemberJoin == {<<"member", 1>>}
MixedJoins == {<<"client", 2>>, <<"member", 1>>}
=============================================================================
