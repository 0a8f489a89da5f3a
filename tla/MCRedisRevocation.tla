-------------------------- MODULE MCRedisRevocation --------------------------
EXTENDS RedisRevocation, TLC

CONSTANTS t1, o1, o2, o3

Symmetry == Permutations({o1, o2, o3})
=============================================================================
