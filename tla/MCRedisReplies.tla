---------------------------- MODULE MCRedisReplies ----------------------------
(* The instance of RedisReplies that TLC checks. *)
EXTENDS RedisReplies, TLC

Symmetric == Permutations(Replies)

=============================================================================
