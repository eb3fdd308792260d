-------------------------- MODULE MCDiscordClient --------------------------
(* Constants of the TLC instances of DiscordClient: one endpoint of two    *)
(* channels and one of the first channel only.                             *)
EXTENDS DiscordClient, TLC

CONSTANTS c1, c2, post, list, ch1, ch2, A, B

TwoChannels == {<<post, ch1>>, <<post, ch2>>, <<list, ch1>>}
BucketSymmetry == Permutations(Callers) \union Permutations(Buckets)
=============================================================================
