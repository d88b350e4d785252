------------------------------ MODULE Defines ------------------------------
(***************************************************************************)
(* STEP's table of C #defines (step/link-Cdefines.c): names hashed into    *)
(* chains, a program (step/build_hash_database.c) that fills the table and *)
(* writes it to a file, the Makefile rules that build and install that     *)
(* file, and the lookups of a process that reads it.                       *)
(*                                                                         *)
(* A value is the edition of the system headers it was compiled from; 0 is *)
(* what CAM_Calloc leaves where no value was read.  A file holds one after *)
(* the other the chains of all buckets, each entry in two pieces, header   *)
(* and value, and may end anywhere.  Empty buckets are a NULL word in the  *)
(* file and are left out: a file that ends among them reads like one that  *)
(* ends at the next chain.                                                 *)
(***************************************************************************)
EXTENDS Integers, Sequences, FiniteSets

CONSTANTS
  Names,     (* the names that are added or looked up                      *)
  Added,     (* the calls of hash_add that main() makes, in order          *)
  Hash,      (* hash_function                                              *)
  Editions,  (* bound: how often the system headers change, plus one       *)
  None,      (* no entry, no file                                          *)
  Lost       (* the process followed a wild pointer                        *)

HASH_SIZE == 2048
Buckets == {Hash[n] : n \in Names}

ASSUME DefinesAssumption ==
  /\ Hash \in [Names -> 0 .. HASH_SIZE - 1]
  /\ Added \in Seq(Names) /\ Added # <<>>
  /\ Editions \in Nat \ {0}
  /\ None # Lost
  /\ {None, Lost} \cap ((0 .. Editions) \cup [key : Names, data : 0 .. Editions]) = {}

VARIABLES
  edition,    (* of the installed system headers                           *)
  compiled,   (* the edition db.o was compiled from, 0 before              *)
  relinked,   (* build_hash_database is newer than its output              *)
  builder,    (* the process build_hash_database                           *)
  local,      (* ./CDefineHashDataBase                                     *)
  installed,  (* $CAM8BASE/lib/CDefineHashDataBase                         *)
  installing  (* make install is between rm and cp                         *)

vars == <<edition, compiled, relinked, builder, local, installed, installing>>

Entry == [key : Names, data : 0 .. Editions]

(* hash_table: the chains, and the buckets whose last entry has a pointer  *)
(* of another process in its next field.                                   *)
Table == [chains : [Buckets -> Seq(Entry)], wild : SUBSET Buckets]
EmptyTable == [chains |-> [b \in Buckets |-> <<>>], wild |-> {}]

(* A file: the chains it was written from and the place it ends: inside    *)
(* the chain of a bucket after so many pieces, or at HASH_SIZE.            *)
File == [chains : [Buckets -> Seq(Entry)], bucket : 0 .. HASH_SIZE, pieces : Nat]

Ends(chains) ==
  {<<HASH_SIZE, 0>>}
    \cup UNION {{b} \X (0 .. 2 * Len(chains[b]) - 1) : b \in Buckets}

IsBefore(p, q) == p[1] < q[1] \/ (p[1] = q[1] /\ p[2] <= q[2])

Ending(chains, end) == [chains |-> chains, bucket |-> end[1], pieces |-> end[2]]
-----------------------------------------------------------------------------
(* The table                                                               *)

(* Faulty: the entry goes to the front.                                    *)
hash_addFront(table, n, v) ==
  [table EXCEPT !.chains[Hash[n]] = <<[key |-> n, data |-> v]>> \o @]

(* The entry goes to the end of its chain, whatever the chain holds.       *)
hash_add(table, n, v) ==
  [chains |-> [table.chains EXCEPT ![Hash[n]] = Append(@, [key |-> n, data |-> v])],
   wild |-> table.wild]

(* The first entry of a chain with a name.                                *)
FirstAt(chain, n, i) ==
  /\ i \in 1 .. Len(chain) /\ chain[i].key = n
  /\ \A j \in 1 .. i - 1 : chain[j].key # n

(* The first entry of a chain is returned without looking at its name when *)
(* nothing follows it.  A walk that passes the last entry of a chain with  *)
(* a wild pointer does not return.                                         *)
hash_search(table, n) ==
  LET chain == table.chains[Hash[n]]
      wild == Hash[n] \in table.wild
      found == \E i \in DOMAIN chain : chain[i].key = n
  IN  IF Len(chain) = 1 /\ ~wild THEN chain[1]
      ELSE IF found THEN chain[CHOOSE i \in DOMAIN chain : FirstAt(chain, n, i)]
      ELSE IF wild THEN Lost ELSE None

(* The chain of which only the first k pieces were in the file: an entry   *)
(* is linked in before its value is read.                                  *)
Torn(chain, k) ==
  [i \in 1 .. (k + 1) \div 2 |->
     IF 2 * i <= k THEN chain[i] ELSE [chain[i] EXCEPT !.data = 0]]

(* Reading stops where the file ends.  The copy of an entry's header       *)
(* brings its old next pointer with it, which is only replaced when the    *)
(* next entry was read.                                                    *)
hash_read_database(file) ==
  [chains |-> [b \in Buckets |->
     IF b < file.bucket THEN file.chains[b]
     ELSE IF b = file.bucket THEN Torn(file.chains[b], file.pieces)
     ELSE <<>>],
   wild |-> {b \in Buckets :
     /\ b = file.bucket /\ file.pieces > 0
     /\ (file.pieces + 1) \div 2 < Len(file.chains[b])}]

(* What a process that starts now has in its table after its first call.   *)
Loaded(file) == IF file = None THEN EmptyTable ELSE hash_read_database(file)

(* c_define_value copies what the entry holds, or returns -1.              *)
c_define_value(table, n) ==
  LET he == hash_search(table, n)
  IN  IF he \in {None, Lost} THEN he ELSE he.data
-----------------------------------------------------------------------------
Idle == [pc |-> "idle", next |-> 1, init |-> TRUE, base |-> TRUE, table |-> EmptyTable]

Init ==
  /\ edition = 1 /\ compiled = 0 /\ relinked = FALSE
  /\ builder = Idle
  /\ local = None /\ installed = None /\ installing = FALSE

(* The system is upgraded: the #defines get other values.                  *)
UpgradeHeaders ==
  /\ edition < Editions
  /\ edition' = edition + 1
  /\ UNCHANGED <<compiled, relinked, builder, local, installed, installing>>

(* make clean and make build_hash_database: the rule does not name the     *)
(* system headers as prerequisites.  A bound: once for each edition, as a  *)
(* build over its own output only lengthens the chains.                    *)
Compile ==
  /\ builder.pc # "add" /\ ~installing
  /\ compiled # edition
  /\ compiled' = edition /\ relinked' = TRUE
  /\ UNCHANGED <<edition, builder, local, installed, installing>>

(* The rule of CDefineHashDataBase removes the file and runs the program,  *)
(* with or without CAM8BASE in its environment.  hash_init is its own.     *)
StartBuild ==
  /\ builder.pc # "add" /\ ~installing
  /\ compiled # 0 /\ (relinked \/ local = None)
  /\ \E base \in BOOLEAN :
       builder' = [pc |-> "add", next |-> 1, init |-> TRUE, base |-> base,
                   table |-> EmptyTable]
  /\ local' = None /\ relinked' = FALSE
  /\ UNCHANGED <<edition, compiled, installed, installing>>

(* Faulty variants: hash_init is not cleared; one bucket too many is       *)
(* written; install does not depend on all.                                *)
HashAddRereading ==
  LET n == Added[builder.next]
      table == Loaded(installed)
  IN  /\ builder.pc = "add" /\ builder.next <= Len(Added)
      /\ builder' =
           IF builder.base /\ Hash[n] \in table.wild THEN [builder EXCEPT !.pc = "lost"]
           ELSE [builder EXCEPT !.next = @ + 1,
                   !.table = IF builder.base THEN hash_add(table, n, compiled) ELSE @]
      /\ UNCHANGED <<edition, compiled, relinked, local, installed, installing>>

WriteDatabasePastEnd ==
  /\ builder.pc = "add" /\ builder.next > Len(Added)
  /\ local' = Ending(builder.table.chains, <<HASH_SIZE + 1, 0>>)
  /\ builder' = Idle
  /\ UNCHANGED <<edition, compiled, relinked, installed, installing>>

InstallWithoutAll ==
  /\ builder.pc # "add" /\ ~installing
  /\ installed' = None /\ installing' = TRUE
  /\ UNCHANGED <<edition, compiled, relinked, builder, local>>

(* One call of hash_add.  The first one reads the database that is         *)
(* installed, so the entries of the last build come before those of this   *)
(* one.  Without CAM8BASE every call returns before it adds anything.  A   *)
(* walk along a chain that ends in a wild pointer loses the process.       *)
HashAdd ==
  LET n == Added[builder.next]
      table == IF builder.init THEN Loaded(installed) ELSE builder.table
  IN  /\ builder.pc = "add" /\ builder.next <= Len(Added)
      /\ IF ~builder.base
         THEN builder' = [builder EXCEPT !.next = @ + 1]
         ELSE IF Hash[n] \in table.wild
         THEN builder' = [builder EXCEPT !.pc = "lost"]
         ELSE builder' = [builder EXCEPT
                !.next = @ + 1, !.init = FALSE, !.table = hash_add(table, n, compiled)]
      /\ UNCHANGED <<edition, compiled, relinked, local, installed, installing>>

(* The file may not open; a write may fail at any piece.  The program says *)
(* so on stderr and exits with 0, so that make takes the file as built.    *)
WriteDatabase ==
  /\ builder.pc = "add" /\ builder.next > Len(Added)
  /\ \/ \E end \in Ends(builder.table.chains) :
          local' = Ending(builder.table.chains, end)
     \/ local' = None
  /\ builder' = Idle
  /\ UNCHANGED <<edition, compiled, relinked, installed, installing>>

(* make install: up to date, remove the old file, copy the new one, which  *)
(* may also end early.  A build whose file did not open exited with 0: the *)
(* same make goes on, and there is nothing to copy.                        *)
InstallRemove ==
  /\ builder.pc # "add" /\ ~installing
  /\ compiled # 0 /\ ~relinked
  /\ local # None \/ builder.pc = "idle"
  /\ installed' = None /\ installing' = TRUE
  /\ UNCHANGED <<edition, compiled, relinked, builder, local>>

InstallCopy ==
  /\ installing
  /\ \/ local = None /\ installed' = None
     \/ /\ local # None
        /\ \E end \in Ends(local.chains) :
             /\ IsBefore(end, <<local.bucket, local.pieces>>)
             /\ installed' = Ending(local.chains, end)
  /\ installing' = FALSE
  /\ UNCHANGED <<edition, compiled, relinked, builder, local>>

Next ==
  \/ UpgradeHeaders \/ Compile \/ StartBuild \/ HashAdd \/ WriteDatabase
  \/ InstallRemove \/ InstallCopy

Spec == Init /\ [][Next]_vars
-----------------------------------------------------------------------------
(* The types of the state.                                                 *)
TypeOK ==
  /\ edition \in 1 .. Editions /\ compiled \in 0 .. Editions
  /\ relinked \in BOOLEAN /\ installing \in BOOLEAN
  /\ builder.pc \in {"idle", "add", "lost"} /\ builder.next \in 1 .. Len(Added) + 1
  /\ builder.init \in BOOLEAN /\ builder.base \in BOOLEAN /\ builder.table \in Table
  /\ local \in File \cup {None} /\ installed \in File \cup {None}

(* What a table holds, and what a process that starts now is told: the     *)
(* first is what was filed under a name, the second what hash_search makes *)
(* of it.                                                                  *)
BookOf(table) ==
  [n \in Names |->
     LET chain == table.chains[Hash[n]]
     IN  IF \E i \in DOMAIN chain : chain[i].key = n
         THEN chain[CHOOSE i \in DOMAIN chain : FirstAt(chain, n, i)].data
         ELSE None]

Told(table) == [n \in Names |-> c_define_value(table, n)]

Books == INSTANCE DefineBook WITH
  Values <- 0 .. Editions,
  Alike <- {p \in Names \X Names : Hash[p[1]] = Hash[p[2]]},
  draft <- BookOf(builder.table),
  shelf <- BookOf(Loaded(local)),
  published <- BookOf(Loaded(installed)),
  told <- Told(Loaded(installed))

(* The hash table, its file and the rules around it implement the book:    *)
(* whatever is cut off or installed, a process that looks up a name that   *)
(* is in the database gets the first value given to that name, or 0 for    *)
(* one name.  A name that is not there is answered -1 unless it shares its *)
(* bucket: then, and only then, the answer may be another name's value, or *)
(* the process is lost.  link-Cdefines.c: hash_add, hash_search,           *)
(* hash_read_database, c_define_value.                                     *)
ImplementsBook == Books!Spec

(* What hash_write_database walks: a build that gets as far as writing has *)
(* appended to every chain it read and met no wild pointer, and every name *)
(* it added is found under its own entry.                                  *)
WritesWholeTable ==
  (builder.pc = "add" /\ builder.next > Len(Added)) =>
    /\ builder.table.wild = {}
    /\ builder.base => \A i \in DOMAIN Added :
         LET e == hash_search(builder.table, Added[i])
         IN  e \in Entry /\ e.key = Added[i]

(* A build is only lost over an installed database that ends too early,    *)
(* and as long as that one stays in place every build that reads it is:    *)
(* it never gets to the write (build_hash_database.c main).                *)
TornDatabaseSticks ==
  LET torn == Loaded(installed).wild # {}
      atWrite == builder.pc = "add" /\ builder.next > Len(Added)
  IN  /\ builder.pc = "lost" => torn
      /\ torn /\ atWrite => ~builder.base
=============================================================================
