---------------------------- MODULE MCRedisArchive ----------------------------
(* Small instances of the archive: one stream, which its writers trim while  *)
(* the cap of the job changes, or which expires as a whole under one cap.    *)
EXTENDS RedisArchive

CONSTANTS audit

Set(life, caps) == [life |-> [k \in Streams |-> life], caps |-> caps]
TwoSettings == {Set("trimmed", {1, 2}), Set("expiring", {2})}
OneTrimmed == {Set("trimmed", {2})}
=============================================================================
