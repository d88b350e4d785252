----------------------------- MODULE MCDefines -----------------------------
(***************************************************************************)
(* The database of the names of shm.h and of the last one of ipc.h.        *)
(* hash_function only sees the last three characters of a name: SHM_LOCK   *)
(* and SHM_UNLOCK share a bucket, and SHM_STAT, which db.c does not add,   *)
(* hashes to the bucket of IPC_STAT.                                       *)
(***************************************************************************)
EXTENDS Defines, DefineNames, TLC

MCAdded == SubSeq(ipc_h, Len(ipc_h), Len(ipc_h)) \o shm_h

Position(n) == CHOOSE i \in DOMAIN MCAdded : MCAdded[i] = n

MCHash ==
  [n \in {MCAdded[i] : i \in DOMAIN MCAdded} \ {"SHM_UNLOCK"} |-> Position(n)]
    @@ ("SHM_UNLOCK" :> Position("SHM_LOCK")) @@ ("SHM_STAT" :> Position("IPC_STAT"))

MCNames == DOMAIN MCHash
=============================================================================
