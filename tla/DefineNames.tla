---------------------------- MODULE DefineNames ----------------------------
(***************************************************************************)
(* The names step/db.c gives to the table of C #defines, one function for  *)
(* each system header, and the order in which main() of                    *)
(* step/build_hash_database.c calls them.                                  *)
(***************************************************************************)
LOCAL INSTANCE Naturals
LOCAL INSTANCE Sequences

(* fcntl.h: modes and commands of open and fcntl                           *)
fcntl_h == <<
  "O_NDELAY", "_FOPEN", "_FREAD", "_FWRITE", "_FNDELAY", "_FAPPEND",
  "_FSETBLK", "_FASYNC", "_FSHLOCK", "_FEXLOCK", "_FCREAT", "_FTRUNC",
  "_FEXCL", "_FNBIO", "_FSYNC", "_FNONBLOCK", "_FNOCTTY", "_FMARK", "_FDEFER",
  "O_ACCMODE", "O_RDONLY", "O_WRONLY", "O_RDWR", "O_APPEND", "O_CREAT",
  "O_TRUNC", "O_EXCL", "O_NONBLOCK", "O_NOCTTY", "O_SYNC", "FAPPEND", "FSYNC",
  "FASYNC", "FNBIO", "FNONBIO", "FNDELAY", "FREAD", "FWRITE", "FMARK",
  "FDEFER", "FSETBLK", "FSHLOCK", "FEXLOCK", "FOPEN", "FCREAT", "FTRUNC",
  "FEXCL", "FNOCTTY", "FD_CLOEXEC", "F_DUPFD", "F_GETFD", "F_SETFD", "F_GETFL",
  "F_SETFL", "F_GETOWN", "F_SETOWN", "F_GETLK", "F_SETLK", "F_SETLKW",
  "F_RGETLK", "F_RSETLK", "F_CNVT", "F_RSETLKW", "F_RDLCK", "F_WRLCK",
  "F_UNLCK", "F_UNLKSYS">>

(* mman.h: protections and advice                                          *)
mman_h == <<
  "PROT_READ", "PROT_WRITE", "PROT_EXEC", "PROT_NONE", "MAP_SHARED",
  "MAP_PRIVATE", "MAP_TYPE", "MAP_FIXED", "MAP_RENAME", "MAP_NORESERVE",
  "_MAP_NEW", "MADV_NORMAL", "MADV_RANDOM", "MADV_SEQUENTIAL", "MADV_WILLNEED",
  "MADV_DONTNEED", "MS_ASYNC", "MS_INVALIDATE", "MC_SYNC", "MC_LOCK",
  "MC_UNLOCK", "MC_ADVISE", "MC_LOCKAS", "MC_UNLOCKAS", "MCL_CURRENT",
  "MCL_FUTURE">>

(* stat.h: file types and modes                                            *)
stat_h == <<
  "_IFMT", "_IFDIR", "_IFCHR", "_IFBLK", "_IFREG", "_IFLNK", "_IFSOCK",
  "_IFIFO", "S_ISUID", "S_ISGID", "S_ISVTX", "S_IREAD", "S_IWRITE", "S_IEXEC",
  "S_ENFMT", "S_IFMT", "S_IFDIR", "S_IFCHR", "S_IFBLK", "S_IFREG", "S_IFLNK",
  "S_IFSOCK", "S_IFIFO", "S_IRWXU", "S_IRUSR", "S_IWUSR", "S_IXUSR", "S_IRWXG",
  "S_IRGRP", "S_IWGRP", "S_IXGRP", "S_IRWXO", "S_IROTH", "S_IWOTH", "S_IXOTH">>

(* ipc.h                                                                   *)
ipc_h == <<
  "IPC_ALLOC", "IPC_CREAT", "IPC_EXCL", "IPC_NOWAIT", "IPC_PRIVATE",
  "IPC_RMID", "IPC_SET", "IPC_STAT">>

(* types.h                                                                 *)
types_h == <<
  "NBBY", "FD_SETSIZE", "NFDBITS">>

(* shm.h                                                                   *)
shm_h == <<
  "SHM_RDONLY", "SHM_RND", "SHM_LOCK", "SHM_UNLOCK", "SHMLBA">>

(* time.h: kinds of daylight saving time, timers                           *)
time_h == <<
  "DST_NONE", "DST_USA", "DST_AUST", "DST_WET", "DST_MET", "DST_EET",
  "DST_CAN", "DST_GB", "DST_RUM", "DST_TUR", "DST_AUSTALT", "ITIMER_REAL",
  "ITIMER_VIRTUAL", "ITIMER_PROF">>

HeadersInOrder == fcntl_h \o mman_h \o ipc_h \o time_h \o shm_h \o stat_h \o types_h

(* A name added twice would be an entry no lookup reaches.                 *)
ASSUME NamesDistinct ==
  \A i, j \in DOMAIN HeadersInOrder :
    HeadersInOrder[i] = HeadersInOrder[j] => i = j
=============================================================================
