--------------------------- MODULE DefinesProofs ---------------------------
(***************************************************************************)
(* Theorems about the database of C #defines, for any names, hash function *)
(* and calls of hash_add: a build that is lost was lost over an installed  *)
(* database that ends inside a chain, no build gets past one, and a build  *)
(* that does write has an entry for everything it added.                   *)
(***************************************************************************)
EXTENDS Defines, TLAPS, WellFoundedInduction

Builder == [pc : {"idle", "add", "lost"}, next : 1 .. Len(Added) + 1,
            init : BOOLEAN, base : BOOLEAN, table : Table]

(* A file that ends inside a chain ends before that chain does.            *)
Whole(file) ==
  file.bucket \in Buckets => file.pieces < 2 * Len(file.chains[file.bucket])

(* Nothing is in a chain that main() does not add there, and every name is *)
(* in the chain of its bucket.                                             *)
Named(chains) ==
  \A b \in Buckets :
    /\ chains[b] # <<>> => \E i \in DOMAIN Added : Hash[Added[i]] = b
    /\ \A k \in 1 .. Len(chains[b]) : Hash[chains[b][k].key] = b

FileOK(file) == file # None => file \in File /\ Whole(file) /\ Named(file.chains)

FilesInv == FileOK(local) /\ FileOK(installed)

BuilderInv == builder \in Builder /\ Named(builder.table.chains)

(* While a build runs or after it was lost there is nothing to install.    *)
OrderInv == builder.pc \in {"add", "lost"} => local = None /\ ~installing

(* The table of a build is empty, or is the installed one with the entries *)
(* of the calls so far, none of which met a wild pointer.                  *)
Has(table, n) ==
  \E k \in DOMAIN table.chains[Hash[n]] : table.chains[Hash[n]][k].key = n

ProgressInv ==
  /\ builder.pc = "add" /\ builder.init =>
       builder.table = EmptyTable /\ (builder.base => builder.next = 1)
  /\ builder.pc = "add" /\ ~builder.init =>
       /\ builder.base /\ builder.table.wild = Loaded(installed).wild
       /\ \A j \in DOMAIN Added : j < builder.next =>
            Hash[Added[j]] \notin builder.table.wild /\ Has(builder.table, Added[j])
  /\ builder.pc = "lost" => Loaded(installed).wild # {}

IInv == TypeOK /\ FilesInv /\ BuilderInv /\ OrderInv /\ ProgressInv
-----------------------------------------------------------------------------
(* Every call of hash_add goes to a bucket.                                *)
LEMMA AddedTypes ==
  /\ Len(Added) \in Nat \ {0} /\ DOMAIN Added = 1 .. Len(Added)
  /\ \A i \in DOMAIN Added : Added[i] \in Names /\ Hash[Added[i]] \in Buckets
<1>1. Added \in Seq(Names) /\ Added # <<>>
  BY DefinesAssumption
<1>2. Len(Added) \in Nat \ {0} /\ DOMAIN Added = 1 .. Len(Added)
  BY <1>1
<1>3. \A i \in DOMAIN Added : Added[i] \in Names
  BY <1>1
<1> QED
  BY <1>2, <1>3 DEF Buckets

(* The buckets are below HASH_SIZE.                                        *)
LEMMA BucketRange ==
  HASH_SIZE \in Nat /\ Buckets \subseteq 0 .. HASH_SIZE - 1 /\ HASH_SIZE \notin Buckets
<1>1. HASH_SIZE \in Nat
  BY DEF HASH_SIZE
<1>2. \A n \in Names : Hash[n] \in 0 .. HASH_SIZE - 1
  BY DefinesAssumption
<1> QED
  BY <1>1, <1>2 DEF Buckets

LEMMA EmptyTyped == EmptyTable \in Table /\ Named(EmptyTable.chains)
<1>1. [b \in Buckets |-> <<>>] \in [Buckets -> Seq(Entry)]
  OBVIOUS
<1> QED
  BY <1>1 DEF EmptyTable, Table, Named

(* What is left of a chain is a chain.                                     *)
LEMMA TornTyped ==
  ASSUME NEW chain \in Seq(Entry), NEW k \in Nat, k < 2 * Len(chain)
  PROVE  /\ Torn(chain, k) \in Seq(Entry)
         /\ Torn(chain, k) # <<>> => chain # <<>>
         /\ \A i \in 1 .. Len(Torn(chain, k)) :
              i \in 1 .. Len(chain) /\ Torn(chain, k)[i].key = chain[i].key
<1> DEFINE n == (k + 1) \div 2
<1>1. n \in Nat /\ n <= Len(chain)
  OBVIOUS
<1>2. ASSUME NEW i \in 1 .. n
      PROVE  (IF 2 * i <= k THEN chain[i] ELSE [chain[i] EXCEPT !.data = 0]) \in Entry
  <2>1. chain[i] \in Entry
    BY <1>1
  <2>2. 0 \in 0 .. Editions
    BY DefinesAssumption
  <2>3. [chain[i] EXCEPT !.data = 0] \in Entry
    BY <2>1, <2>2 DEF Entry
  <2> QED
    BY <2>1, <2>3
<1>3. Torn(chain, k) \in [1 .. n -> Entry]
  BY <1>2 DEF Torn
<1>4. Torn(chain, k) \in Seq(Entry)
  BY <1>1, <1>3
<1>5. Len(Torn(chain, k)) = n
  BY <1>1, <1>3
<1>6. ASSUME NEW i \in 1 .. n
      PROVE  i \in 1 .. Len(chain) /\ Torn(chain, k)[i].key = chain[i].key
  <2>1. i \in 1 .. Len(chain)
    BY <1>1
  <2>2. chain[i] \in Entry
    BY <2>1
  <2>3. [chain[i] EXCEPT !.data = 0].key = chain[i].key
    BY <2>2 DEF Entry
  <2> QED
    BY <2>1, <2>3 DEF Torn
<1> QED
  BY <1>1, <1>4, <1>5, <1>6

(* Reading any file that can be there gives a table of names that main()   *)
(* adds, and a chain that ends in a wild pointer is one of them.           *)
LEMMA LoadedTyped ==
  ASSUME NEW file, FileOK(file)
  PROVE  /\ Loaded(file) \in Table
         /\ Named(Loaded(file).chains)
         /\ \A b \in Loaded(file).wild : \E i \in DOMAIN Added : Hash[Added[i]] = b
<1>1. CASE file = None
  BY <1>1, EmptyTyped DEF Loaded, EmptyTable
<1>2. CASE file # None
  <2> DEFINE table == hash_read_database(file)
  <2>1. file \in File /\ Whole(file) /\ Named(file.chains) /\ Loaded(file) = table
    BY <1>2 DEF FileOK, Loaded
  <2>2. \A b \in Buckets : /\ table.chains[b] \in Seq(Entry)
                           /\ table.chains[b] # <<>> => file.chains[b] # <<>>
                           /\ \A i \in 1 .. Len(table.chains[b]) :
                                /\ i \in 1 .. Len(file.chains[b])
                                /\ table.chains[b][i].key = file.chains[b][i].key
    <3> TAKE b \in Buckets
    <3>1. file.chains[b] \in Seq(Entry) /\ file.pieces \in Nat
      BY <2>1 DEF File
    <3>2. CASE b = file.bucket
      <4>1. file.pieces < 2 * Len(file.chains[b])
        BY <2>1, <3>2 DEF Whole
      <4>2. table.chains[b] = Torn(file.chains[b], file.pieces)
        BY <2>1, <3>2, BucketRange DEF hash_read_database, File
      <4> QED
        BY <3>1, <4>1, <4>2, TornTyped
    <3>3. CASE b # file.bucket
      BY <3>1, <3>3 DEF hash_read_database
    <3> QED
      BY <3>2, <3>3
  <2>3. table \in Table
    BY <2>2 DEF hash_read_database, Table
  <2>4. Named(table.chains)
    BY <2>1, <2>2 DEF Named
  <2>5. ASSUME NEW b \in table.wild
        PROVE  \E i \in DOMAIN Added : Hash[Added[i]] = b
    <3>1. b \in Buckets /\ file.chains[b] \in Seq(Entry) /\ file.pieces \in Nat
          /\ (file.pieces + 1) \div 2 < Len(file.chains[b])
      BY <2>1 DEF hash_read_database, File
    <3>2. file.chains[b] # <<>>
      BY <3>1
    <3> QED
      BY <2>1, <3>1, <3>2 DEF Named
  <2> QED
    BY <2>1, <2>3, <2>4, <2>5
<1> QED
  BY <1>1, <1>2

(* A file that was written, or copied, in part.                            *)
LEMMA EndingOK ==
  ASSUME NEW chains \in [Buckets -> Seq(Entry)], Named(chains), NEW end \in Ends(chains)
  PROVE  Ending(chains, end) \in File /\ FileOK(Ending(chains, end))
<1>1. CASE end = <<HASH_SIZE, 0>>
  BY <1>1, BucketRange DEF Ending, File, FileOK, Whole
<1>2. CASE end # <<HASH_SIZE, 0>>
  <2>1. PICK b \in Buckets : end \in {b} \X (0 .. 2 * Len(chains[b]) - 1)
    BY <1>2 DEF Ends
  <2>2. end[1] = b /\ end[2] \in Nat /\ end[2] < 2 * Len(chains[b])
    BY <2>1
  <2>3. b \in 0 .. HASH_SIZE
    BY BucketRange
  <2> QED
    BY <2>2, <2>3 DEF Ending, File, FileOK, Whole
<1> QED
  BY <1>1, <1>2

(* A call of hash_add adds its entry and changes nothing else.             *)
LEMMA AddTyped ==
  ASSUME NEW table \in Table, Named(table.chains), NEW i \in DOMAIN Added,
         NEW v \in 0 .. Editions
  PROVE  /\ hash_add(table, Added[i], v) \in Table
         /\ Named(hash_add(table, Added[i], v).chains)
         /\ hash_add(table, Added[i], v).wild = table.wild
         /\ Has(hash_add(table, Added[i], v), Added[i])
         /\ \A m \in Names : Has(table, m) => Has(hash_add(table, Added[i], v), m)
<1> DEFINE n == Added[i]
           h == Hash[n]
           e == [key |-> n, data |-> v]
           to == hash_add(table, n, v)
<1>1. n \in Names /\ h \in Buckets
  BY AddedTypes
<1>2. e \in Entry
  BY <1>1 DEF Entry
<1>3. table.chains \in [Buckets -> Seq(Entry)] /\ table.wild \in SUBSET Buckets
  BY DEF Table
<1>4. table.chains[h] \in Seq(Entry)
  BY <1>1, <1>3
<1>5. Append(table.chains[h], e) \in Seq(Entry) /\ Append(table.chains[h], e) # <<>>
  BY <1>2, <1>4
<1>6. /\ to.chains = [table.chains EXCEPT ![h] = Append(table.chains[h], e)]
      /\ to.wild = table.wild
      /\ to = [chains |-> to.chains, wild |-> to.wild]
  BY DEF hash_add
<1> HIDE DEF to
<1>7. to.chains \in [Buckets -> Seq(Entry)]
  BY <1>1, <1>3, <1>5, <1>6
<1>8. to \in Table
  BY <1>3, <1>6, <1>7 DEF Table
<1>9. Named(to.chains)
  <2> SUFFICES ASSUME NEW b \in Buckets
               PROVE  /\ to.chains[b] # <<>> => \E j \in DOMAIN Added : Hash[Added[j]] = b
                      /\ \A k \in 1 .. Len(to.chains[b]) : Hash[to.chains[b][k].key] = b
    BY DEF Named
  <2>1. CASE b = h
    <3>1. to.chains[b] = Append(table.chains[h], e)
      BY <1>1, <1>3, <1>6, <2>1
    <3>2. ASSUME NEW k \in 1 .. Len(to.chains[b])
          PROVE  Hash[to.chains[b][k].key] = b
      <4>1. CASE k \in 1 .. Len(table.chains[h])
        <5>1. to.chains[b][k] = table.chains[h][k]
          BY <1>2, <1>4, <3>1, <4>1
        <5> QED
          BY <1>1, <2>1, <4>1, <5>1 DEF Named
      <4>2. CASE k \notin 1 .. Len(table.chains[h])
        <5>1. to.chains[b][k] = e
          BY <1>2, <1>4, <3>1, <3>2, <4>2
        <5> QED
          BY <2>1, <5>1
      <4> QED
        BY <4>1, <4>2
    <3> QED
      BY <2>1, <3>2
  <2>2. CASE b # h
    <3>1. to.chains[b] = table.chains[b]
      BY <2>2, <1>3, <1>6
    <3> QED
      BY <3>1 DEF Named
  <2> QED
    BY <2>1, <2>2
<1>10. to.chains[h] = Append(table.chains[h], e)
  BY <1>1, <1>3, <1>6
<1>11. Has(to, n)
  <2>1. to.chains[h][Len(table.chains[h]) + 1] = e
    BY <1>2, <1>4, <1>10
  <2>2. Len(table.chains[h]) + 1 \in DOMAIN to.chains[h]
    BY <1>2, <1>4, <1>10
  <2> QED
    BY <2>1, <2>2 DEF Has
<1>12. ASSUME NEW m \in Names, Has(table, m)
       PROVE  Has(to, m)
  <2>1. PICK k \in DOMAIN table.chains[Hash[m]] : table.chains[Hash[m]][k].key = m
    BY <1>12 DEF Has
  <2>2. CASE Hash[m] = h
    <3>1. k \in 1 .. Len(table.chains[h])
      BY <1>4, <2>1, <2>2
    <3>2. k \in DOMAIN to.chains[h] /\ to.chains[h][k] = table.chains[h][k]
      BY <1>2, <1>4, <1>10, <3>1
    <3> QED
      BY <2>1, <2>2, <3>2 DEF Has
  <2>3. CASE Hash[m] # h
    <3>1. Hash[m] \in Buckets
      BY DEF Buckets
    <3>2. to.chains[Hash[m]] = table.chains[Hash[m]]
      BY <1>3, <1>6, <2>3, <3>1
    <3> QED
      BY <2>1, <3>2 DEF Has
  <2> QED
    BY <2>2, <2>3
<1> QED
  BY <1>6, <1>8, <1>9, <1>11, <1>12 DEF to

(* The first entry of a chain with a given name, if there is one.          *)
Missing(chain, n) == \A k \in 1 .. Len(chain) : chain[k].key # n

LEMMA FirstExists ==
  ASSUME NEW chain \in Seq(Entry), NEW n, ~ Missing(chain, n)
  PROVE  \E k \in 1 .. Len(chain) : FirstAt(chain, n, k)
<1> DEFINE Ks == {k \in 1 .. Len(chain) : chain[k].key = n}
<1>1. Len(chain) \in Nat /\ Ks # {} /\ Ks \subseteq Nat
  BY DEF Missing
<1>2. PICK k \in Ks : \A j \in Ks : ~ (<<j, k>> \in OpToRel(<, Nat))
  BY <1>1, NatLessThanWellFounded, WFMin
<1>3. \A j \in Ks : ~ (j < k)
  BY <1>1, <1>2 DEF OpToRel
<1>4. ASSUME NEW j \in 1 .. k - 1 PROVE chain[j].key # n
  <2>1. j \in 1 .. Len(chain) /\ j < k
    BY <1>1
  <2> QED
    BY <1>3, <2>1
<1> QED
  BY <1>4 DEF FirstAt

LEMMA FirstUnique ==
  ASSUME NEW chain \in Seq(Entry), NEW n, NEW k, FirstAt(chain, n, k)
  PROVE  /\ k \in DOMAIN chain
         /\ (CHOOSE i \in DOMAIN chain : FirstAt(chain, n, i)) = k
<1>1. DOMAIN chain = 1 .. Len(chain) /\ Len(chain) \in Nat
  OBVIOUS
<1>2. k \in DOMAIN chain
  BY <1>1 DEF FirstAt
<1>3. ASSUME NEW i, FirstAt(chain, n, i) PROVE i = k
  <2>1. i \in 1 .. Len(chain) /\ k \in 1 .. Len(chain)
    BY <1>3 DEF FirstAt
  <2>2. ~ i < k
    BY <1>1, <1>3, <2>1 DEF FirstAt
  <2>3. ~ k < i
    BY <1>1, <1>3, <2>1 DEF FirstAt
  <2> QED
    BY <1>1, <2>1, <2>2, <2>3
<1> QED
  BY <1>2, <1>3

(* What a lookup returns: the first entry with the name, or what follows   *)
(* from the length of a chain that has none.                               *)
LEMMA SearchIs ==
  ASSUME NEW table \in Table, NEW n \in Names
  PROVE  /\ \A k : FirstAt(table.chains[Hash[n]], n, k) =>
              hash_search(table, n) = table.chains[Hash[n]][k]
         /\ Missing(table.chains[Hash[n]], n) =>
              hash_search(table, n) =
                IF Len(table.chains[Hash[n]]) = 1 /\ Hash[n] \notin table.wild
                THEN table.chains[Hash[n]][1]
                ELSE IF Hash[n] \in table.wild THEN Lost ELSE None
<1> DEFINE chain == table.chains[Hash[n]]
<1>1. chain \in Seq(Entry) /\ Len(chain) \in Nat /\ DOMAIN chain = 1 .. Len(chain)
  BY DEF Table, Buckets
<1>2. ASSUME NEW k, FirstAt(chain, n, k)
      PROVE  hash_search(table, n) = chain[k]
  <2>1. k \in DOMAIN chain /\ chain[k].key = n
        /\ (CHOOSE i \in DOMAIN chain : FirstAt(chain, n, i)) = k
    BY <1>1, <1>2, FirstUnique DEF FirstAt
  <2>2. CASE Len(chain) = 1 /\ Hash[n] \notin table.wild
    BY <1>1, <2>1, <2>2 DEF hash_search
  <2>3. CASE ~ (Len(chain) = 1 /\ Hash[n] \notin table.wild)
    BY <2>1, <2>3 DEF hash_search
  <2> QED
    BY <2>2, <2>3
<1>3. Missing(chain, n) => ~ \E i \in DOMAIN chain : chain[i].key = n
  BY <1>1 DEF Missing
<1> QED
  BY <1>2, <1>3 DEF hash_search

(* A name that is in its chain is found.                                   *)
LEMMA SearchFinds ==
  ASSUME NEW table \in Table, NEW n \in Names, Has(table, n)
  PROVE  hash_search(table, n) \in Entry /\ hash_search(table, n).key = n
<1> DEFINE chain == table.chains[Hash[n]]
<1>1. chain \in Seq(Entry) /\ DOMAIN chain = 1 .. Len(chain)
  BY DEF Table, Buckets
<1>2. ~ Missing(chain, n)
  BY <1>1 DEF Has, Missing
<1>3. PICK k \in 1 .. Len(chain) : FirstAt(chain, n, k)
  BY <1>1, <1>2, FirstExists
<1> QED
  BY <1>1, <1>3, SearchIs DEF FirstAt
-----------------------------------------------------------------------------
LEMMA IdleTyped == Idle \in Builder
<1> DEFINE empty == EmptyTable
<1>1. empty \in Table
  BY EmptyTyped
<1> HIDE DEF empty
<1>2. 1 \in 1 .. Len(Added) + 1
  BY AddedTypes
<1>3. Idle = [pc |-> "idle", next |-> 1, init |-> TRUE, base |-> TRUE, table |-> empty]
  BY DEF Idle, empty
<1> QED
  BY <1>1, <1>2, <1>3 DEF Builder

LEMMA InitInv == Init => IInv
<1> SUFFICES ASSUME Init PROVE IInv
  OBVIOUS
<1>1. Idle \in Builder
  BY IdleTyped
<1>2. TypeOK /\ BuilderInv
  <2>1. builder \in Builder
    BY <1>1 DEF Init
  <2>2. builder.table = EmptyTable
    BY DEF Init, Idle
  <2>3. Editions \in Nat /\ 1 \in 1 .. Editions /\ 0 \in 0 .. Editions
    BY DefinesAssumption
  <2>4. TypeOK
    BY <2>1, <2>3 DEF Init, TypeOK, Builder
  <2> QED
    BY <2>1, <2>2, <2>4, EmptyTyped DEF BuilderInv
<1>3. FilesInv /\ OrderInv /\ ProgressInv
  BY DEF Init, Idle, FilesInv, FileOK, OrderInv, ProgressInv
<1> QED
  BY <1>2, <1>3 DEF IInv

LEMMA UpgradeStep == IInv /\ UpgradeHeaders => IInv'
<1> SUFFICES ASSUME IInv, UpgradeHeaders PROVE IInv'
  OBVIOUS
<1>1. TypeOK'
  BY DefinesAssumption DEF IInv, UpgradeHeaders, TypeOK
<1>2. FilesInv' /\ BuilderInv' /\ OrderInv' /\ ProgressInv'
  BY DEF IInv, UpgradeHeaders, FilesInv, BuilderInv, OrderInv, ProgressInv, FileOK
<1> QED
  BY <1>1, <1>2 DEF IInv

LEMMA CompileStep == IInv /\ Compile => IInv'
<1> SUFFICES ASSUME IInv, Compile PROVE IInv'
  OBVIOUS
<1>1. TypeOK'
  BY DefinesAssumption DEF IInv, Compile, TypeOK
<1>2. FilesInv' /\ BuilderInv' /\ OrderInv' /\ ProgressInv'
  BY DEF IInv, Compile, FilesInv, BuilderInv, OrderInv, ProgressInv, FileOK
<1> QED
  BY <1>1, <1>2 DEF IInv

LEMMA StartStep == IInv /\ StartBuild => IInv'
<1> SUFFICES ASSUME IInv, StartBuild PROVE IInv'
  OBVIOUS
<1> USE DEF IInv, StartBuild
<1>1. PICK base \in BOOLEAN :
        builder' = [pc |-> "add", next |-> 1, init |-> TRUE, base |-> base,
                    table |-> EmptyTable]
  OBVIOUS
<1>2. builder' \in Builder
  BY <1>1, IdleTyped DEF Builder, Idle
<1>3. TypeOK' /\ BuilderInv'
  BY <1>1, <1>2, EmptyTyped DEF TypeOK, BuilderInv, Builder
<1>4. FilesInv'
  BY DEF FilesInv, FileOK
<1>5. OrderInv'
  BY DEF OrderInv
<1>6. ProgressInv'
  BY <1>1 DEF ProgressInv
<1> QED
  BY <1>3, <1>4, <1>5, <1>6

(* A call of hash_add: without CAM8BASE, along a chain that ends in a wild *)
(* pointer, and along one that does not.                                   *)
LEMMA HashAddStep == IInv /\ HashAdd => IInv'
<1> SUFFICES ASSUME IInv, HashAdd PROVE IInv'
  OBVIOUS
<1> DEFINE i == builder.next
           n == Added[i]
           table == IF builder.init THEN Loaded(installed) ELSE builder.table
<1>1. /\ builder.pc = "add" /\ i \in DOMAIN Added /\ i + 1 \in 1 .. Len(Added) + 1
      /\ builder \in Builder /\ n \in Names /\ compiled \in 0 .. Editions
  BY AddedTypes DEF IInv, TypeOK, BuilderInv, Builder, HashAdd
<1>2. FilesInv'
  BY DEF IInv, HashAdd, FilesInv, FileOK
<1>3. table \in Table /\ Named(table.chains) /\ table.wild = Loaded(installed).wild
  <2>1. CASE builder.init
    BY <2>1, LoadedTyped DEF IInv, FilesInv
  <2>2. CASE ~ builder.init
    BY <2>2, <1>1 DEF IInv, BuilderInv, Builder, ProgressInv
  <2> QED
    BY <1>1, <2>1, <2>2 DEF Builder
<1>4. CASE ~ builder.base
  <2>1. builder' = [builder EXCEPT !.next = i + 1]
    BY <1>4 DEF HashAdd
  <2>2. TypeOK' /\ BuilderInv' /\ OrderInv'
    BY <1>1, <2>1 DEF IInv, HashAdd, TypeOK, BuilderInv, Builder, OrderInv
  <2>3. builder.init /\ builder.table = EmptyTable
    BY <1>1, <1>4 DEF IInv, ProgressInv, Builder
  <2>4. builder'.init /\ builder'.table = EmptyTable /\ ~ builder'.base /\ builder'.pc = "add"
    BY <1>1, <1>4, <2>1, <2>3 DEF Builder
  <2>5. ProgressInv'
    BY <2>4 DEF ProgressInv
  <2> QED
    BY <1>2, <2>2, <2>5 DEF IInv
<1>5. CASE builder.base /\ Hash[n] \in table.wild
  <2>1. builder' = [builder EXCEPT !.pc = "lost"]
    BY <1>5 DEF HashAdd
  <2>2. TypeOK' /\ BuilderInv' /\ OrderInv'
    BY <1>1, <2>1 DEF IInv, HashAdd, TypeOK, BuilderInv, Builder, OrderInv
  <2>3. Loaded(installed).wild # {} /\ installed' = installed
    BY <1>3, <1>5 DEF HashAdd
  <2>4. builder'.pc = "lost"
    BY <1>1, <2>1 DEF Builder
  <2>5. ProgressInv'
    BY <2>3, <2>4 DEF ProgressInv
  <2> QED
    BY <1>2, <2>2, <2>5 DEF IInv
<1>6. CASE builder.base /\ Hash[n] \notin table.wild
  <2> DEFINE to == hash_add(table, n, compiled)
  <2>1. builder' = [builder EXCEPT !.next = i + 1, !.init = FALSE, !.table = to]
    BY <1>6 DEF HashAdd
  <2>2. /\ to \in Table /\ Named(to.chains) /\ to.wild = table.wild
        /\ Has(to, n) /\ \A m \in Names : Has(table, m) => Has(to, m)
    BY <1>1, <1>3, AddTyped
  <2> HIDE DEF to, table, n
  <2>3. /\ builder'.pc = "add" /\ builder'.next = i + 1 /\ builder'.init = FALSE
        /\ builder'.base = TRUE /\ builder'.table = to /\ builder' \in Builder
    BY <1>1, <1>6, <2>1, <2>2 DEF Builder
  <2>4. TypeOK' /\ BuilderInv' /\ OrderInv'
    BY <1>1, <2>2, <2>3 DEF IInv, HashAdd, TypeOK, BuilderInv, Builder, OrderInv
  <2>5. ASSUME NEW j \in DOMAIN Added, j < i + 1
        PROVE  Hash[Added[j]] \notin to.wild /\ Has(to, Added[j])
    <3>1. CASE j = i
      BY <1>6, <2>2, <3>1 DEF n
    <3>2. CASE j # i
      <4>1. j < i /\ i # 1 /\ Added[j] \in Names
        BY <1>1, <2>5, <3>2, AddedTypes
      <4>2. ~ builder.init
        BY <1>1, <1>6, <4>1 DEF IInv, ProgressInv
      <4>3. table = builder.table
        BY <4>2 DEF table
      <4> QED
        BY <1>1, <2>2, <4>1, <4>2, <4>3 DEF IInv, ProgressInv
    <3> QED
      BY <3>1, <3>2
  <2>6. installed' = installed
    BY DEF HashAdd
  <2>7. ProgressInv'
    BY <1>3, <2>2, <2>3, <2>5, <2>6 DEF ProgressInv
  <2> QED
    BY <1>2, <2>4, <2>7 DEF IInv
<1> QED
  BY <1>4, <1>5, <1>6

LEMMA WriteStep == IInv /\ WriteDatabase => IInv'
<1> SUFFICES ASSUME IInv, WriteDatabase PROVE IInv'
  OBVIOUS
<1>1. builder' = Idle /\ builder.pc = "add" /\ UNCHANGED <<installed, installing>>
      /\ ~ installing
  BY DEF IInv, OrderInv, WriteDatabase
<1>2. local' = None \/ (local' \in File /\ FileOK(local'))
  <2>1. builder.table.chains \in [Buckets -> Seq(Entry)] /\ Named(builder.table.chains)
    BY DEF IInv, BuilderInv, Builder, Table
  <2> QED
    BY <2>1, EndingOK DEF WriteDatabase
<1>3. TypeOK' /\ BuilderInv'
  BY <1>1, <1>2, AddedTypes, EmptyTyped
  DEF IInv, WriteDatabase, TypeOK, BuilderInv, Builder, Idle
<1>4. FilesInv'
  BY <1>1, <1>2 DEF IInv, FilesInv, FileOK
<1>5. OrderInv' /\ ProgressInv'
  BY <1>1 DEF OrderInv, ProgressInv, Idle
<1> QED
  BY <1>3, <1>4, <1>5 DEF IInv

LEMMA RemoveStep == IInv /\ InstallRemove => IInv'
<1> SUFFICES ASSUME IInv, InstallRemove PROVE IInv'
  OBVIOUS
<1>1. builder.pc = "idle" /\ builder' = builder
  BY DEF IInv, TypeOK, OrderInv, InstallRemove
<1>2. TypeOK' /\ BuilderInv' /\ FilesInv'
  BY DEF IInv, InstallRemove, TypeOK, BuilderInv, FilesInv, FileOK
<1>3. OrderInv' /\ ProgressInv'
  BY <1>1 DEF InstallRemove, OrderInv, ProgressInv
<1> QED
  BY <1>2, <1>3 DEF IInv

LEMMA CopyStep == IInv /\ InstallCopy => IInv'
<1> SUFFICES ASSUME IInv, InstallCopy PROVE IInv'
  OBVIOUS
<1>1. builder.pc = "idle" /\ builder' = builder /\ local' = local
  BY DEF IInv, TypeOK, OrderInv, InstallCopy
<1>2. installed' \in File \cup {None} /\ FileOK(installed')
  <2>1. CASE local = None
    BY <2>1 DEF InstallCopy, FileOK
  <2>2. CASE local # None
    <3>1. local.chains \in [Buckets -> Seq(Entry)] /\ Named(local.chains)
      BY <2>2 DEF IInv, FilesInv, FileOK, File
    <3> QED
      BY <2>2, <3>1, EndingOK DEF InstallCopy
  <2> QED
    BY <2>1, <2>2
<1>3. TypeOK' /\ BuilderInv' /\ FilesInv'
  BY <1>1, <1>2 DEF IInv, InstallCopy, TypeOK, BuilderInv, FilesInv, FileOK
<1>4. OrderInv' /\ ProgressInv'
  BY <1>1 DEF InstallCopy, OrderInv, ProgressInv
<1> QED
  BY <1>3, <1>4 DEF IInv

LEMMA StepInv == IInv /\ [Next]_vars => IInv'
<1>1. IInv /\ UNCHANGED vars => IInv'
  BY DEF IInv, vars, TypeOK, FilesInv, FileOK, BuilderInv, OrderInv, ProgressInv
<1> QED
  BY <1>1, UpgradeStep, CompileStep, StartStep, HashAddStep, WriteStep, RemoveStep, CopyStep
  DEF Next

THEOREM Inductive == Spec => []IInv
BY InitInv, StepInv, PTL DEF Spec

(* The state keeps its types.                                              *)
THEOREM TypeCorrect == Spec => []TypeOK
<1>1. IInv => TypeOK
  BY DEF IInv
<1> QED
  BY <1>1, Inductive, PTL

(* Whatever names collide and wherever files end: a build is only lost     *)
(* over an installed database that ends inside a chain, and no build gets  *)
(* past such a database to its own write.                                  *)
THEOREM TornSticks == Spec => []TornDatabaseSticks
<1>1. ASSUME IInv PROVE TornDatabaseSticks
  <2> DEFINE torn == Loaded(installed).wild # {}
             atWrite == builder.pc = "add" /\ builder.next > Len(Added)
  <2>1. builder.pc = "lost" => torn
    BY <1>1 DEF IInv, ProgressInv
  <2>2. torn /\ atWrite => ~ builder.base
    <3> SUFFICES ASSUME torn, atWrite, builder.base PROVE FALSE
      OBVIOUS
    <3>1. builder \in Builder /\ builder.next # 1
      BY <1>1, AddedTypes DEF IInv, BuilderInv, Builder
    <3>2. ~ builder.init
      BY <1>1, <3>1 DEF IInv, ProgressInv
    <3>3. builder.table.wild = Loaded(installed).wild
      BY <1>1, <3>2 DEF IInv, ProgressInv
    <3>4. PICK b : b \in Loaded(installed).wild
      OBVIOUS
    <3>5. PICK j \in DOMAIN Added : Hash[Added[j]] = b
      BY <1>1, <3>4, LoadedTyped DEF IInv, FilesInv
    <3>6. j < builder.next
      BY <3>1, AddedTypes DEF Builder
    <3> QED
      BY <1>1, <3>2, <3>3, <3>4, <3>5, <3>6 DEF IInv, ProgressInv
  <2> QED
    BY <2>1, <2>2 DEF TornDatabaseSticks
<1> QED
  BY <1>1, Inductive, PTL

(* A build that gets as far as writing met no wild pointer, and has every  *)
(* name it added under its own entry, whatever was in the chains before.   *)
THEOREM WritesWhole == Spec => []WritesWholeTable
<1>1. ASSUME IInv PROVE WritesWholeTable
  <2> SUFFICES ASSUME builder.pc = "add", builder.next > Len(Added)
               PROVE  /\ builder.table.wild = {}
                      /\ builder.base => \A i \in DOMAIN Added :
                           LET e == hash_search(builder.table, Added[i])
                           IN  e \in Entry /\ e.key = Added[i]
    BY DEF WritesWholeTable
  <2>1. builder \in Builder /\ builder.next # 1
    BY <1>1, AddedTypes DEF IInv, BuilderInv, Builder
  <2>2. CASE builder.init
    BY <1>1, <2>1, <2>2 DEF IInv, ProgressInv, EmptyTable
  <2>3. CASE ~ builder.init
    <3>1. ASSUME NEW j \in DOMAIN Added
          PROVE  Hash[Added[j]] \notin builder.table.wild /\ Has(builder.table, Added[j])
      <4>1. j < builder.next
        BY <2>1, AddedTypes DEF Builder
      <4> QED
        BY <1>1, <2>3, <4>1 DEF IInv, ProgressInv
    <3>2. builder.table.wild = {}
      <4> SUFFICES ASSUME NEW b \in builder.table.wild PROVE FALSE
        OBVIOUS
      <4>1. b \in Loaded(installed).wild
        BY <1>1, <2>3 DEF IInv, ProgressInv
      <4>2. PICK j \in DOMAIN Added : Hash[Added[j]] = b
        BY <1>1, <4>1, LoadedTyped DEF IInv, FilesInv
      <4> QED
        BY <3>1, <4>2
    <3>3. \A i \in DOMAIN Added :
            LET e == hash_search(builder.table, Added[i])
            IN  e \in Entry /\ e.key = Added[i]
      BY <2>1, <3>1, AddedTypes, SearchFinds DEF Builder
    <3> QED
      BY <3>2, <3>3
  <2> QED
    BY <2>1, <2>2, <2>3 DEF Builder
<1> QED
  BY <1>1, Inductive, PTL
-----------------------------------------------------------------------------
(* The refinement.  What a table holds for a name is the data of the first *)
(* entry with that name.                                                   *)
LEMMA BookIs ==
  ASSUME NEW table \in Table, NEW n \in Names
  PROVE  /\ Missing(table.chains[Hash[n]], n) => BookOf(table)[n] = None
         /\ \A k : FirstAt(table.chains[Hash[n]], n, k) =>
              BookOf(table)[n] = table.chains[Hash[n]][k].data
         /\ BookOf(table)[n] \in (0 .. Editions) \cup {None}
<1> DEFINE chain == table.chains[Hash[n]]
<1>1. chain \in Seq(Entry) /\ Len(chain) \in Nat /\ DOMAIN chain = 1 .. Len(chain)
      /\ \A k \in 1 .. Len(chain) : chain[k] \in Entry
  BY DEF Table, Buckets
<1>2. BookOf(table)[n] = IF \E i \in DOMAIN chain : chain[i].key = n
                         THEN chain[CHOOSE i \in DOMAIN chain : FirstAt(chain, n, i)].data
                         ELSE None
  BY DEF BookOf
<1>3. ASSUME Missing(chain, n) PROVE BookOf(table)[n] = None
  BY <1>1, <1>2, <1>3 DEF Missing
<1>4. ASSUME NEW k, FirstAt(chain, n, k)
      PROVE  BookOf(table)[n] = chain[k].data /\ chain[k].data \in 0 .. Editions
  <2>1. k \in DOMAIN chain /\ chain[k].key = n /\ chain[k] \in Entry
    BY <1>1, <1>4 DEF FirstAt
  <2>2. (CHOOSE i \in DOMAIN chain : FirstAt(chain, n, i)) = k
    BY <1>1, <1>4, FirstUnique
  <2>3. chain[k].data \in 0 .. Editions
    BY <2>1 DEF Entry
  <2> QED
    BY <1>2, <2>1, <2>2, <2>3
<1>5. BookOf(table)[n] \in (0 .. Editions) \cup {None}
  <2>1. CASE Missing(chain, n)
    BY <1>3, <2>1
  <2>2. CASE ~ Missing(chain, n)
    BY <1>1, <1>4, <2>2, FirstExists
  <2> QED
    BY <2>1, <2>2
<1> QED
  BY <1>3, <1>4, <1>5

LEMMA BookTyped ==
  ASSUME NEW table \in Table
  PROVE  BookOf(table) \in Books!Book
<1>1. BookOf(table) = [n \in Names |-> BookOf(table)[n]]
  BY DEF BookOf
<1> QED
  BY <1>1, BookIs DEF Books!Book

LEMMA EmptyBook == BookOf(EmptyTable) = Books!Blank
<1>1. ASSUME NEW n \in Names PROVE BookOf(EmptyTable)[n] = None
  <2>1. EmptyTable.chains[Hash[n]] = <<>>
    BY DEF EmptyTable, Buckets
  <2>2. Missing(EmptyTable.chains[Hash[n]], n)
    BY <2>1 DEF Missing
  <2> QED
    BY <2>2, EmptyTyped, BookIs
<1> QED
  BY <1>1 DEF BookOf, Books!Blank

(* At most one chain of a table that was read ends in a wild pointer, and  *)
(* it has an entry.                                                        *)
OneWild(table) ==
  /\ \A b, c \in table.wild : b = c
  /\ \A b \in table.wild : table.chains[b] # <<>>

LEMMA LoadedOneWild ==
  ASSUME NEW file, FileOK(file)
  PROVE  OneWild(Loaded(file))
<1>1. CASE file = None
  BY <1>1 DEF Loaded, EmptyTable, OneWild
<1>2. CASE file # None
  <2> DEFINE table == hash_read_database(file)
  <2>1. file \in File /\ Loaded(file) = table
    BY <1>2 DEF FileOK, Loaded
  <2>2. \A b \in table.wild : b \in Buckets /\ b = file.bucket /\ file.pieces > 0
    BY DEF hash_read_database
  <2>3. ASSUME NEW b \in table.wild PROVE table.chains[b] # <<>>
    <3>1. table.chains[b] = Torn(file.chains[b], file.pieces)
      BY <2>1, <2>2, BucketRange DEF hash_read_database, File
    <3>2. 1 \in 1 .. (file.pieces + 1) \div 2
      BY <2>1, <2>2 DEF File
    <3>3. DOMAIN Torn(file.chains[b], file.pieces) # {}
      BY <3>2 DEF Torn
    <3> QED
      BY <3>1, <3>3
  <2> QED
    BY <2>1, <2>2, <2>3 DEF OneWild
<1> QED
  BY <1>1, <1>2

(* What is answered for a name that has no entry: something only when the  *)
(* one entry of its bucket is taken for it or the walk is lost behind an   *)
(* entry of its bucket.                                                    *)
LEMMA SearchMissing ==
  ASSUME NEW table \in Table, Named(table.chains), OneWild(table), NEW n \in Names,
         Missing(table.chains[Hash[n]], n)
  PROVE  \/ c_define_value(table, n) = None
         \/ /\ c_define_value(table, n) = Lost /\ Hash[n] \in table.wild
            /\ Books!Holding(BookOf(table), n) # {}
         \/ \E m \in Names : /\ Books!Holding(BookOf(table), n) = {m}
                             /\ c_define_value(table, n) = BookOf(table)[m]
                             /\ BookOf(table)[m] # None
<1> DEFINE chain == table.chains[Hash[n]]
           book == BookOf(table)
           said == c_define_value(table, n)
           held == Books!Holding(book, n)
<1>1. chain \in Seq(Entry) /\ Len(chain) \in Nat
      /\ \A k \in 1 .. Len(chain) : chain[k] \in Entry
  BY DEF Table, Buckets
<1>2. held = {m \in Names : Hash[n] = Hash[m] /\ book[m] # None}
  BY DEF Books!Holding
<1>3. hash_search(table, n) =
        IF Len(chain) = 1 /\ Hash[n] \notin table.wild THEN chain[1]
        ELSE IF Hash[n] \in table.wild THEN Lost ELSE None
  BY SearchIs
<1>4. ASSUME 1 <= Len(chain)
      PROVE  /\ chain[1] \in Entry /\ chain[1].key \in held
             /\ book[chain[1].key] = chain[1].data /\ chain[1].data \notin {None, Lost}
  <2> DEFINE m == chain[1].key
  <2>1. chain[1] \in Entry /\ m \in Names /\ chain[1].data \in 0 .. Editions
    BY <1>1, <1>4 DEF Entry
  <2>2. Hash[m] = Hash[n]
    <3>1. Hash[n] \in Buckets /\ 1 \in 1 .. Len(chain)
      BY <1>1, <1>4 DEF Buckets
    <3> QED
      BY <3>1 DEF Named
  <2>3. FirstAt(chain, m, 1)
    BY <1>1, <1>4 DEF FirstAt
  <2>4. book[m] = chain[1].data
    BY <2>1, <2>2, <2>3, BookIs
  <2>5. chain[1].data \notin {None, Lost}
    BY <2>1, DefinesAssumption
  <2> QED
    BY <1>2, <2>1, <2>2, <2>4, <2>5
<1>5. CASE Len(chain) = 1 /\ Hash[n] \notin table.wild
  <2> DEFINE m == chain[1].key
  <2>1. said = chain[1].data
    <3>1. chain[1] \notin {None, Lost}
      BY <1>4, <1>5, DefinesAssumption DEF Entry
    <3> QED
      BY <1>3, <1>5, <3>1 DEF c_define_value
  <2>2. m \in Names /\ m \in held /\ book[m] = chain[1].data /\ book[m] # None
    BY <1>2, <1>4, <1>5
  <2>3. ASSUME NEW l \in held PROVE l = m
    <3>1. ~ Missing(chain, l)
      <4>1. l \in Names /\ Hash[l] = Hash[n] /\ book[l] # None
        BY <1>2, <2>3
      <4> QED
        BY <4>1, BookIs
    <3> QED
      BY <1>5, <3>1 DEF Missing
  <2>4. held = {m}
    BY <2>2, <2>3
  <2> QED
    BY <2>1, <2>2, <2>4
<1>6. CASE Hash[n] \in table.wild
  <2>1. said = Lost
    BY <1>3, <1>6 DEF c_define_value
  <2>2. 1 <= Len(chain)
    BY <1>1, <1>6 DEF OneWild
  <2> QED
    BY <1>4, <1>6, <2>1, <2>2
<1>7. CASE ~ (Len(chain) = 1 /\ Hash[n] \notin table.wild) /\ Hash[n] \notin table.wild
  BY <1>3, <1>7 DEF c_define_value
<1> QED
  BY <1>5, <1>6, <1>7

(* What readers are told is an answer from the book.                       *)
LEMMA ToldAnswers ==
  ASSUME NEW table \in Table, Named(table.chains), OneWild(table)
  PROVE  Books!Answers(Told(table), BookOf(table))
<1> DEFINE book == BookOf(table)
           said == Told(table)
<1>1. ASSUME NEW n \in Names
      PROVE  /\ said[n] = c_define_value(table, n)
             /\ book[n] = None => Missing(table.chains[Hash[n]], n)
             /\ book[n] # None => said[n] = book[n] /\ said[n] # Lost
             /\ book[n] \in (0 .. Editions) \cup {None}
  <2> DEFINE chain == table.chains[Hash[n]]
  <2>1. said[n] = c_define_value(table, n)
    BY DEF Told
  <2>2. chain \in Seq(Entry) /\ \A k \in 1 .. Len(chain) : chain[k] \in Entry
    BY DEF Table, Buckets
  <2>3. book[n] \in (0 .. Editions) \cup {None}
    BY BookIs
  <2>4. CASE Missing(chain, n)
    BY <2>1, <2>3, <2>4, BookIs
  <2>5. CASE ~ Missing(chain, n)
    <3>1. PICK k \in 1 .. Len(chain) : FirstAt(chain, n, k)
      BY <2>2, <2>5, FirstExists
    <3>2. book[n] = chain[k].data /\ hash_search(table, n) = chain[k]
      BY <3>1, BookIs, SearchIs
    <3>3. chain[k] \in Entry /\ chain[k] \notin {None, Lost}
          /\ chain[k].data \notin {None, Lost}
      <4>1. chain[k] \in Entry
        BY <2>2
      <4> QED
        BY <4>1, DefinesAssumption DEF Entry
    <3>4. c_define_value(table, n) = chain[k].data
      BY <3>2, <3>3 DEF c_define_value
    <3> QED
      BY <2>1, <2>3, <3>2, <3>3, <3>4
  <2> QED
    BY <2>4, <2>5
<1>2. ASSUME NEW n \in Names, book[n] = None
      PROVE  \/ said[n] = None
             \/ /\ said[n] = Lost /\ Hash[n] \in table.wild
                /\ Books!Holding(book, n) # {}
             \/ \E m \in Names : /\ Books!Holding(book, n) = {m} /\ said[n] = book[m]
                                 /\ book[m] # None
  BY <1>1, <1>2, SearchMissing
<1>3. said \in [Names -> (0 .. Editions) \cup {None, Lost}]
  <2>1. \A n \in Names : said[n] \in (0 .. Editions) \cup {None, Lost}
    BY <1>1, <1>2
  <2>2. said = [n \in Names |-> said[n]]
    BY DEF Told
  <2> HIDE DEF said
  <2> QED
    BY <2>1, <2>2
<1>4. ASSUME NEW m \in Names, NEW n \in Names, Hash[m] = Hash[n],
             book[m] = None, book[n] = None
      PROVE  said[m] = said[n]
  <2>1. hash_search(table, m) = hash_search(table, n)
    BY <1>1, <1>4, SearchIs
  <2> QED
    BY <1>1, <2>1 DEF c_define_value
<1>5. ASSUME NEW n \in Names, said[n] = Lost
      PROVE  Hash[n] \in table.wild
  <2>1. book[n] = None
    BY <1>1, <1>5
  <2>2. \A m \in Names : book[m] # Lost
    BY <1>1, DefinesAssumption
  <2> QED
    BY <1>2, <1>5, <2>1, <2>2, DefinesAssumption
<1>6. ASSUME NEW m \in Names, NEW n \in Names, said[m] = Lost, said[n] = Lost
      PROVE  Hash[m] = Hash[n]
  BY <1>5, <1>6 DEF OneWild
<1> HIDE DEF book, said
<1>7. Books!Answers(said, book)
  BY <1>1, <1>2, <1>3, <1>4, <1>6 DEF Books!Answers
<1> QED
  BY <1>7 DEF book, said

(* A call of hash_add is the book's Collected: an entry that is appended   *)
(* behind another of the same name is never found.                         *)
LEMMA Collects ==
  ASSUME NEW table \in Table, Named(table.chains), NEW i \in DOMAIN Added,
         NEW v \in 0 .. Editions
  PROVE  BookOf(hash_add(table, Added[i], v))
           = Books!Collected(BookOf(table), Added[i], v)
<1> DEFINE n == Added[i]
           e == [key |-> n, data |-> v]
           to == hash_add(table, n, v)
           book == BookOf(table)
<1>1. n \in Names /\ Hash[n] \in Buckets /\ e \in Entry /\ to \in Table
  BY AddedTypes, AddTyped DEF Entry
<1>2. ASSUME NEW m \in Names
      PROVE  BookOf(to)[m] = IF m = n /\ book[n] = None THEN v ELSE book[m]
  <2> DEFINE chain == table.chains[Hash[m]]
             chain2 == to.chains[Hash[m]]
  <2>1. Hash[m] \in Buckets /\ chain \in Seq(Entry) /\ Len(chain) \in Nat
    BY DEF Table, Buckets
  <2>2. chain2 = IF Hash[m] = Hash[n] THEN Append(chain, e) ELSE chain
    BY <2>1 DEF hash_add, Table
  <2>3. Hash[m] = Hash[n] =>
          /\ Len(chain2) = Len(chain) + 1 /\ chain2[Len(chain) + 1] = e
          /\ \A k \in 1 .. Len(chain) : chain2[k] = chain[k]
    BY <1>1, <2>1, <2>2
  <2> HIDE DEF to, chain, chain2
  <2>4. CASE Missing(chain, m)
    <3>1. book[m] = None
      BY <2>4, BookIs DEF chain
    <3>2. CASE m = n
      <4>1. FirstAt(chain2, m, Len(chain) + 1)
        BY <2>1, <2>3, <2>4, <3>2 DEF FirstAt, Missing
      <4>2. BookOf(to)[m] = chain2[Len(chain) + 1].data
        BY <1>1, <4>1, BookIs DEF chain2
      <4> QED
        BY <2>3, <3>1, <3>2, <4>2
    <3>3. CASE m # n
      <4>1. Missing(chain2, m)
        BY <2>1, <2>2, <2>3, <2>4, <3>3 DEF Missing
      <4> QED
        BY <1>1, <3>1, <3>3, <4>1, BookIs DEF chain2
    <3> QED
      BY <3>2, <3>3
  <2>5. CASE ~ Missing(chain, m)
    <3>1. PICK k \in 1 .. Len(chain) : FirstAt(chain, m, k)
      BY <2>1, <2>5, FirstExists
    <3>2. FirstAt(chain2, m, k) /\ chain2[k] = chain[k]
      BY <2>1, <2>2, <2>3, <3>1 DEF FirstAt
    <3>3. book[m] = chain[k].data /\ BookOf(to)[m] = chain2[k].data
      BY <1>1, <3>1, <3>2, BookIs DEF chain, chain2
    <3>4. book[m] # None
      <4>1. chain[k] \in Entry
        BY <2>1
      <4> QED
        BY <3>3, <4>1, DefinesAssumption DEF Entry
    <3> QED
      BY <3>2, <3>3, <3>4
  <2> QED
    BY <2>4, <2>5
<1>3. BookOf(to) = [m \in Names |-> BookOf(to)[m]] /\ book = [m \in Names |-> book[m]]
  BY DEF BookOf
<1> HIDE DEF to, book, n
<1>4. BookOf(to) = Books!Collected(book, n, v)
  <2>1. CASE book[n] = None
    <3>1. [book EXCEPT ![n] = v] = [m \in Names |-> IF m = n THEN v ELSE book[m]]
      BY <1>3
    <3> QED
      BY <1>2, <1>3, <2>1, <3>1 DEF Books!Collected
  <2>2. CASE book[n] # None
    BY <1>2, <1>3, <2>2 DEF Books!Collected
  <2> QED
    BY <2>1, <2>2
<1> QED
  BY <1>4 DEF to, book, n

(* How many pieces of the chain of a bucket a reader gets.                 *)
Pieces(file, b) ==
  IF b < file.bucket THEN 2 * Len(file.chains[b])
  ELSE IF b = file.bucket THEN file.pieces ELSE 0

(* What the entry i of a chain says of its name after so many pieces.      *)
Says(entry, i, pieces) ==
  IF 2 * i <= pieces THEN entry.data ELSE IF 2 * i - 1 <= pieces THEN 0 ELSE None

(* The book of a file that was read up to where it ends.                   *)
LEMMA LoadedBook ==
  ASSUME NEW file, FileOK(file), file # None, NEW n \in Names
  PROVE  /\ Missing(file.chains[Hash[n]], n) => BookOf(Loaded(file))[n] = None
         /\ \A i : FirstAt(file.chains[Hash[n]], n, i) =>
              BookOf(Loaded(file))[n]
                = Says(file.chains[Hash[n]][i], i, Pieces(file, Hash[n]))
<1> DEFINE h == Hash[n]
           chain == file.chains[h]
           read == Loaded(file).chains[h]
           p == Pieces(file, h)
<1>1. /\ h \in Buckets /\ h \in Nat /\ chain \in Seq(Entry) /\ Len(chain) \in Nat
      /\ file.bucket \in Nat /\ file.pieces \in Nat
      /\ \A k \in 1 .. Len(chain) : chain[k] \in Entry
      /\ file.bucket = h => file.pieces < 2 * Len(chain)
  BY BucketRange DEF FileOK, File, Whole, Buckets
<1>2. Loaded(file) \in Table /\ read \in Seq(Entry)
  BY <1>1, LoadedTyped DEF Table
<1>3. CASE h < file.bucket
  <2>1. read = chain /\ p = 2 * Len(chain)
    BY <1>1, <1>3 DEF Loaded, hash_read_database, FileOK, Pieces
  <2>2. \A i : FirstAt(chain, n, i) => 2 * i <= p
    BY <1>1, <2>1 DEF FirstAt
  <2>3. ASSUME Missing(chain, n) PROVE BookOf(Loaded(file))[n] = None
    BY <1>2, <2>1, <2>3, BookIs
  <2>4. ASSUME NEW i, FirstAt(chain, n, i)
        PROVE  BookOf(Loaded(file))[n] = Says(chain[i], i, p)
    <3>1. BookOf(Loaded(file))[n] = chain[i].data
      BY <1>2, <2>1, <2>4, BookIs
    <3> QED
      BY <2>2, <2>4, <3>1 DEF Says
  <2> QED
    BY <2>3, <2>4
<1>4. CASE h = file.bucket
  <2> DEFINE m == (p + 1) \div 2
  <2>1. read = Torn(chain, p) /\ p = file.pieces
    BY <1>1, <1>4 DEF Loaded, hash_read_database, FileOK, Pieces
  <2> HIDE DEF p
  <2>2. /\ p \in Nat /\ m \in Nat /\ m <= Len(chain)
        /\ \A i \in Nat : i <= m <=> 2 * i - 1 <= p
    BY <1>1, <1>4, <2>1
  <2> HIDE DEF m
  <2>3. /\ Len(read) = m
        /\ \A i \in 1 .. m : read[i] = IF 2 * i <= p THEN chain[i] ELSE [chain[i] EXCEPT !.data = 0]
    BY <2>1, <2>2 DEF Torn, m
  <2>4. \A i \in 1 .. m : /\ read[i].key = chain[i].key
                          /\ read[i].data = IF 2 * i <= p THEN chain[i].data ELSE 0
    <3> SUFFICES ASSUME NEW i \in 1 .. m
                 PROVE  /\ read[i].key = chain[i].key
                        /\ read[i].data = IF 2 * i <= p THEN chain[i].data ELSE 0
      OBVIOUS
    <3>1. chain[i] \in Entry
      BY <1>1, <2>2
    <3>2. /\ [chain[i] EXCEPT !.data = 0].key = chain[i].key
          /\ [chain[i] EXCEPT !.data = 0].data = 0
      BY <3>1 DEF Entry
    <3> QED
      BY <2>3, <3>2
  <2> HIDE DEF read, chain
  <2>5. ASSUME Missing(chain, n) PROVE BookOf(Loaded(file))[n] = None
    <3>1. Missing(read, n)
      <4> SUFFICES ASSUME NEW j \in 1 .. m PROVE read[j].key # n
        BY <2>3 DEF Missing
      <4>1. j \in 1 .. Len(chain)
        BY <1>1, <2>2
      <4> QED
        BY <2>4, <2>5, <4>1 DEF Missing
    <3> QED
      BY <1>2, <3>1, BookIs DEF read
  <2>6. ASSUME NEW i, FirstAt(chain, n, i)
        PROVE  BookOf(Loaded(file))[n] = Says(chain[i], i, p)
    <3>1. i \in 1 .. Len(chain) /\ chain[i].key = n /\ \A j \in 1 .. i - 1 : chain[j].key # n
      BY <2>6 DEF FirstAt
    <3>2. CASE i <= m
      <4>1. FirstAt(read, n, i)
        <5>1. i \in 1 .. m /\ read[i].key = n
          <6>1. i \in 1 .. m
            BY <1>1, <2>2, <3>1, <3>2
          <6> QED
            BY <2>4, <3>1, <6>1
        <5>2. ASSUME NEW j \in 1 .. i - 1 PROVE read[j].key # n
          <6>1. j \in 1 .. m
            BY <1>1, <2>2, <5>1
          <6> QED
            BY <2>4, <3>1, <6>1
        <5> QED
          BY <2>3, <5>1, <5>2 DEF FirstAt
      <4>2. BookOf(Loaded(file))[n] = read[i].data
        BY <1>2, <4>1, BookIs DEF read
      <4> QED
        BY <1>1, <2>2, <2>4, <3>1, <3>2, <4>2 DEF Says
    <3>3. CASE ~ (i <= m)
      <4>1. Missing(read, n)
        <5> SUFFICES ASSUME NEW j \in 1 .. m PROVE read[j].key # n
          BY <2>3 DEF Missing
        <5>1. j \in 1 .. i - 1
          BY <1>1, <2>2, <3>1, <3>3
        <5> QED
          BY <2>4, <3>1, <5>1
      <4>2. BookOf(Loaded(file))[n] = None
        BY <1>2, <4>1, BookIs DEF read
      <4>3. ~ (2 * i - 1 <= p) /\ ~ (2 * i <= p)
        BY <1>1, <2>2, <3>1, <3>3
      <4> QED
        BY <4>2, <4>3 DEF Says
    <3> QED
      BY <3>2, <3>3
  <2> QED
    BY <2>5, <2>6 DEF p, chain
<1>5. CASE h > file.bucket
  <2>1. read = <<>> /\ p = 0
    BY <1>1, <1>5 DEF Loaded, hash_read_database, FileOK, Pieces
  <2>2. Missing(read, n)
    BY <2>1 DEF Missing
  <2>3. BookOf(Loaded(file))[n] = None
    BY <1>2, <2>2, BookIs
  <2>4. \A i : FirstAt(chain, n, i) => ~ (2 * i - 1 <= p) /\ ~ (2 * i <= p)
    BY <1>1, <2>1 DEF FirstAt
  <2> QED
    BY <2>3, <2>4 DEF Says
<1> QED
  BY <1>1, <1>3, <1>4, <1>5

(* Where a chain ends behind a header, the header is the last one.         *)
LEMMA OddPieces ==
  ASSUME NEW i \in Nat, NEW p \in Nat, ~ (2 * i <= p), 2 * i - 1 <= p
  PROVE  (p + 1) \div 2 = i
<1>1. p + 1 = 2 * i
  OBVIOUS
<1>2. (2 * i) \div 2 = i
  OBVIOUS
<1> QED
  BY <1>1, <1>2

(* A file that ends at or before another place of the same chains is a     *)
(* copy of what the other one says.                                        *)
LEMMA Copies ==
  ASSUME NEW file, FileOK(file), file # None, NEW book \in Books!Book,
         NEW more \in [Buckets -> Nat],
         \A b \in Buckets : Pieces(file, b) <= more[b],
         \A n \in Names :
           /\ Missing(file.chains[Hash[n]], n) => book[n] = None
           /\ \A i : FirstAt(file.chains[Hash[n]], n, i) =>
                book[n] = Says(file.chains[Hash[n]][i], i, more[Hash[n]])
  PROVE  Books!IsCopy(BookOf(Loaded(file)), book)
<1> DEFINE copy == BookOf(Loaded(file))
           last == (file.pieces + 1) \div 2
           torn == file.chains[file.bucket][last].key
           smudged == IF torn \in Names THEN torn ELSE Added[1]
<1>1. smudged \in Names /\ copy \in Books!Book
  BY AddedTypes, BookTyped, LoadedTyped
<1>2. ASSUME NEW n \in Names
      PROVE  \/ copy[n] \in {book[n], None}
             \/ n = smudged /\ book[n] # None /\ copy[n] = 0
  <2> DEFINE chain == file.chains[Hash[n]]
             p == Pieces(file, Hash[n])
             q == more[Hash[n]]
  <2>1. /\ Hash[n] \in Buckets /\ Hash[n] \in Nat /\ chain \in Seq(Entry) /\ Len(chain) \in Nat
        /\ file.bucket \in Nat /\ file.pieces \in Nat
        /\ \A k \in 1 .. Len(chain) : chain[k] \in Entry
    BY BucketRange DEF FileOK, File, Buckets
  <2>2. p \in Nat /\ q \in Nat /\ p <= q
    BY <2>1 DEF Pieces
  <2>3. CASE Missing(chain, n)
    BY <2>3, LoadedBook
  <2>4. CASE ~ Missing(chain, n)
    <3>1. PICK i \in 1 .. Len(chain) : FirstAt(chain, n, i)
      BY <2>1, <2>4, FirstExists
    <3>2. copy[n] = Says(chain[i], i, p) /\ book[n] = Says(chain[i], i, q)
      BY <3>1, LoadedBook
    <3>3. chain[i].key = n /\ chain[i].data # None /\ 0 # None
      <4>1. chain[i] \in Entry
        BY <2>1
      <4>2. 0 \in 0 .. Editions
        BY DefinesAssumption
      <4> QED
        BY <3>1, <4>1, <4>2, DefinesAssumption DEF Entry, FirstAt
    <3>4. CASE 2 * i <= p
      BY <2>1, <2>2, <3>2, <3>4 DEF Says
    <3>5. CASE ~ (2 * i <= p) /\ 2 * i - 1 <= p
      <4>1. Hash[n] = file.bucket /\ p = file.pieces
        BY <2>1, <3>5 DEF Pieces
      <4>2. last = i
        <5>1. i \in Nat
          BY <2>1
        <5>2. (p + 1) \div 2 = i
          <6> HIDE DEF p
          <6> QED
            BY <2>2, <3>5, <5>1, OddPieces
        <5> QED
          BY <4>1, <5>2
      <4>3. n = smudged
        BY <3>3, <4>1, <4>2
      <4>4. book[n] # None
        BY <2>1, <2>2, <3>2, <3>3, <3>5 DEF Says
      <4> QED
        BY <3>2, <3>5, <4>3, <4>4 DEF Says
    <3>6. CASE ~ (2 * i <= p) /\ ~ (2 * i - 1 <= p)
      BY <3>2, <3>6 DEF Says
    <3> QED
      BY <3>4, <3>5, <3>6
  <2> QED
    BY <2>3, <2>4
<1> QED
  BY <1>1, <1>2 DEF Books!IsCopy

(* A file that could not be opened is one, too.                            *)
LEMMA BlankCopy ==
  ASSUME NEW book \in Books!Book
  PROVE  Books!IsCopy(Books!Blank, book)
<1>1. Books!Blank \in Books!Book
  BY DEF Books!Blank, Books!Book
<1>2. Added[1] \in Names
  BY AddedTypes
<1>3. \A n \in Names : Books!Blank[n] = None
  BY DEF Books!Blank
<1> QED
  BY <1>1, <1>2, <1>3 DEF Books!IsCopy

(* Every step of the program is one of the book, or leaves it as it is.    *)
LEMMA BookStart == IInv /\ StartBuild => Books!StartOver
<1> SUFFICES ASSUME IInv, StartBuild PROVE Books!StartOver
  OBVIOUS
<1>1. builder'.table = EmptyTable /\ local' = None /\ installed' = installed
  BY DEF StartBuild
<1>2. Loaded(local') = EmptyTable
  BY <1>1 DEF Loaded
<1> QED
  BY <1>1, <1>2, EmptyBook DEF Books!StartOver

LEMMA BookAdd == IInv /\ HashAdd => [Books!Next]_(Books!bookVars)
<1> SUFFICES ASSUME IInv, HashAdd PROVE [Books!Next]_(Books!bookVars)
  OBVIOUS
<1> DEFINE i == builder.next
           n == Added[i]
           table == IF builder.init THEN Loaded(installed) ELSE builder.table
           to == hash_add(table, n, compiled)
<1>1. /\ i \in DOMAIN Added /\ builder \in Builder /\ n \in Names /\ compiled \in 0 .. Editions
      /\ UNCHANGED <<local, installed>>
  BY AddedTypes DEF IInv, TypeOK, BuilderInv, Builder, HashAdd
<1>2. CASE ~ (builder.base /\ Hash[n] \notin table.wild)
  <2>1. builder'.table = builder.table
    BY <1>1, <1>2 DEF HashAdd, Builder
  <2> QED
    BY <1>1, <2>1 DEF Books!bookVars
<1>3. CASE builder.base /\ Hash[n] \notin table.wild
  <2>1. builder'.table = to
    BY <1>1, <1>3 DEF HashAdd, Builder
  <2>2. table \in Table /\ Named(table.chains)
    BY <1>1, LoadedTyped DEF IInv, FilesInv, BuilderInv, Builder
  <2>3. BookOf(to) = Books!Collected(BookOf(table), n, compiled)
    BY <1>1, <2>2, Collects
  <2>4. BookOf(table) \in {BookOf(builder.table), BookOf(Loaded(installed))}
    OBVIOUS
  <2> HIDE DEF table, to, n
  <2>5. Books!Collect
    BY <1>1, <2>1, <2>3, <2>4 DEF Books!Collect
  <2> QED
    BY <2>5 DEF Books!Next
<1> QED
  BY <1>2, <1>3

LEMMA BookWrite == IInv /\ WriteDatabase => Books!Shelve
<1> SUFFICES ASSUME IInv, WriteDatabase PROVE Books!Shelve
  OBVIOUS
<1> DEFINE table == builder.table
           chains == table.chains
<1>1. table \in Table /\ chains \in [Buckets -> Seq(Entry)] /\ Named(chains)
      /\ BookOf(table) \in Books!Book
  BY BookTyped DEF IInv, BuilderInv, Builder, Table
<1>2. Books!IsCopy(BookOf(Loaded(local')), BookOf(table))
  <2>1. CASE local' = None
    <3>1. BookOf(Loaded(local')) = Books!Blank
      BY <2>1, EmptyBook DEF Loaded
    <3> QED
      BY <1>1, <3>1, BlankCopy
  <2>2. CASE local' # None
    <3>1. PICK end \in Ends(chains) : local' = Ending(chains, end)
      BY <2>2 DEF WriteDatabase
    <3> DEFINE file == Ending(chains, end)
               more == [b \in Buckets |-> 2 * Len(chains[b])]
    <3>2. file \in File /\ FileOK(file) /\ file.chains = chains /\ file # None
      BY <1>1, <2>2, <3>1, EndingOK DEF Ending
    <3>3. /\ more \in [Buckets -> Nat]
          /\ \A b \in Buckets : Pieces(file, b) <= more[b]
      <4> SUFFICES ASSUME NEW b \in Buckets
                   PROVE  2 * Len(chains[b]) \in Nat /\ Pieces(file, b) <= 2 * Len(chains[b])
        OBVIOUS
      <4>1. chains[b] \in Seq(Entry) /\ Len(chains[b]) \in Nat
        BY <1>1
      <4>2. b = file.bucket => file.pieces < 2 * Len(chains[b]) /\ file.pieces \in Nat
        BY <3>2 DEF FileOK, Whole, File
      <4> QED
        BY <3>2, <4>1, <4>2 DEF Pieces
    <3>4. ASSUME NEW n \in Names
          PROVE  /\ Missing(chains[Hash[n]], n) => BookOf(table)[n] = None
                 /\ \A i : FirstAt(chains[Hash[n]], n, i) =>
                      BookOf(table)[n] = Says(chains[Hash[n]][i], i, more[Hash[n]])
      <4>1. Hash[n] \in Buckets /\ chains[Hash[n]] \in Seq(Entry)
        BY <1>1 DEF Buckets
      <4>2. more[Hash[n]] = 2 * Len(chains[Hash[n]]) /\ Len(chains[Hash[n]]) \in Nat
        BY <4>1
      <4>3. \A i : FirstAt(chains[Hash[n]], n, i) => 2 * i <= more[Hash[n]]
        BY <4>2 DEF FirstAt
      <4> QED
        BY <1>1, <4>3, BookIs DEF Says
    <3> HIDE DEF file, more, chains, table
    <3>5. Books!IsCopy(BookOf(Loaded(file)), BookOf(table))
      BY <1>1, <3>2, <3>3, <3>4, Copies
    <3> QED
      BY <3>1, <3>5 DEF file
  <2> QED
    BY <2>1, <2>2
<1>3. BookOf(builder'.table) = Books!Blank /\ installed' = installed
  BY EmptyBook DEF WriteDatabase, Idle
<1> QED
  BY <1>2, <1>3 DEF Books!Shelve

LEMMA BookRemove == IInv /\ InstallRemove => Books!Withdraw
<1> SUFFICES ASSUME IInv, InstallRemove PROVE Books!Withdraw
  OBVIOUS
<1>1. installed' = None /\ UNCHANGED <<builder, local>>
  BY DEF InstallRemove
<1>2. Loaded(installed') = EmptyTable
  BY <1>1 DEF Loaded
<1>3. Books!Answers(Told(EmptyTable), BookOf(EmptyTable))
  BY EmptyTyped, ToldAnswers DEF OneWild, EmptyTable
<1> QED
  BY <1>1, <1>2, <1>3, EmptyBook DEF Books!Withdraw

(* What is installed is a copy of the file that was built.                 *)
LEMMA CopyIsCopy ==
  ASSUME IInv, InstallCopy, local # None
  PROVE  Books!IsCopy(BookOf(Loaded(installed')), BookOf(Loaded(local)))
<1> DEFINE chains == local.chains
           book == BookOf(Loaded(local))
<1>1. /\ FileOK(local) /\ local \in File
      /\ chains \in [Buckets -> Seq(Entry)] /\ Named(chains)
  BY DEF IInv, FilesInv, FileOK, File
<1>2. PICK end \in Ends(chains) :
        IsBefore(end, <<local.bucket, local.pieces>>) /\ installed' = Ending(chains, end)
  BY DEF InstallCopy
<1> DEFINE file == Ending(chains, end)
           more == [b \in Buckets |-> Pieces(local, b)]
<1>3. file \in File /\ FileOK(file) /\ file.chains = chains
      /\ file.bucket = end[1] /\ file.pieces = end[2]
  BY <1>1, <1>2, EndingOK DEF Ending
<1>4. book \in Books!Book
  BY <1>1, LoadedTyped, BookTyped
<1>5. ASSUME file # None, NEW b \in Buckets
      PROVE  Pieces(local, b) \in Nat /\ Pieces(file, b) <= Pieces(local, b)
  <2>1. /\ chains[b] \in Seq(Entry) /\ Len(chains[b]) \in Nat /\ b \in Nat
        /\ local.bucket \in Nat /\ local.pieces \in Nat
        /\ file.bucket \in Nat /\ file.pieces \in Nat
    BY <1>1, <1>3, BucketRange DEF File
  <2>2. b = file.bucket => file.pieces < 2 * Len(chains[b])
    BY <1>3, <1>5 DEF FileOK, Whole
  <2>3. \/ file.bucket < local.bucket
        \/ file.bucket = local.bucket /\ file.pieces <= local.pieces
    BY <1>2, <1>3 DEF IsBefore
  <2> HIDE DEF file
  <2>4. Pieces(local, b) \in Nat
    BY <2>1 DEF Pieces
  <2>5. Pieces(file, b) <= Pieces(local, b)
    BY <1>3, <2>1, <2>2, <2>3 DEF Pieces
  <2> QED
    BY <2>4, <2>5
<1>6. ASSUME NEW n \in Names
      PROVE  /\ Missing(chains[Hash[n]], n) => book[n] = None
             /\ \A i : FirstAt(chains[Hash[n]], n, i) =>
                  book[n] = Says(chains[Hash[n]][i], i, more[Hash[n]])
  <2>1. more[Hash[n]] = Pieces(local, Hash[n])
    BY DEF Buckets
  <2> QED
    BY <1>1, <2>1, LoadedBook
<1>7. Books!IsCopy(BookOf(Loaded(file)), book)
  <2>1. CASE file = None
    <3>1. BookOf(Loaded(file)) = Books!Blank
      BY <2>1, EmptyBook DEF Loaded
    <3> QED
      BY <1>4, <3>1, BlankCopy
  <2>2. CASE file # None
    <3>1. more \in [Buckets -> Nat] /\ \A b \in Buckets : Pieces(file, b) <= more[b]
      BY <1>5, <2>2
    <3>2. FileOK(file) /\ file.chains = chains
      BY <1>3
    <3> HIDE DEF file, more, book, chains
    <3>3. ASSUME NEW n \in Names
          PROVE  /\ Missing(file.chains[Hash[n]], n) => book[n] = None
                 /\ \A i : FirstAt(file.chains[Hash[n]], n, i) =>
                      book[n] = Says(file.chains[Hash[n]][i], i, more[Hash[n]])
      BY <1>6, <3>2
    <3> QED
      BY <1>4, <2>2, <3>1, <3>2, <3>3, Copies
  <2> QED
    BY <2>1, <2>2
<1>8. installed' = file
  BY <1>2
<1> QED
  BY <1>7, <1>8

LEMMA BookCopy == IInv /\ InstallCopy => Books!Publish
<1> SUFFICES ASSUME IInv, InstallCopy PROVE Books!Publish
  OBVIOUS
<1>1. UNCHANGED <<builder, local>>
  BY DEF InstallCopy
<1>2. Books!IsCopy(BookOf(Loaded(installed')), BookOf(Loaded(local)))
  <2>1. CASE local = None
    <3>1. Loaded(installed') = EmptyTable /\ Loaded(local) = EmptyTable
      BY <2>1 DEF InstallCopy, Loaded
    <3>2. Books!Blank \in Books!Book
      BY DEF Books!Blank, Books!Book
    <3> QED
      BY <3>1, <3>2, EmptyBook, BlankCopy
  <2>2. CASE local # None
    BY <2>2, CopyIsCopy
  <2> QED
    BY <2>1, <2>2
<1>3. FileOK(installed')
  BY CopyStep DEF IInv, FilesInv
<1> DEFINE file == installed'
           table == Loaded(file)
<1>4. Books!Answers(Told(table), BookOf(table))
  <2>1. FileOK(file)
    BY <1>3
  <2> HIDE DEF file
  <2> QED
    BY <2>1, LoadedTyped, LoadedOneWild, ToldAnswers
<1> QED
  BY <1>1, <1>2, <1>4 DEF Books!Publish

(* Whatever names collide, whatever is cut off, built over or installed,   *)
(* the hash table, its file and the rules around it are a book, and every  *)
(* reader is answered from it: a name it holds by the first value it was   *)
(* given, or 0, another by -1 unless it shares its bucket with one it      *)
(* holds.                                                                  *)
THEOREM Implements == Spec => ImplementsBook
<1>1. Init => Books!Init
  <2> SUFFICES ASSUME Init PROVE Books!Init
    OBVIOUS
  <2>1. builder.table = EmptyTable /\ Loaded(local) = EmptyTable /\ Loaded(installed) = EmptyTable
    BY DEF Init, Idle, Loaded
  <2>2. Told(EmptyTable) = Books!Blank
    <3>1. \A n \in Names : c_define_value(EmptyTable, n) = None
      <4> SUFFICES ASSUME NEW n \in Names PROVE c_define_value(EmptyTable, n) = None
        OBVIOUS
      <4>1. EmptyTable.chains[Hash[n]] = <<>> /\ EmptyTable.wild = {}
        BY DEF EmptyTable, Buckets
      <4> QED
        BY <4>1 DEF hash_search, c_define_value
    <3> QED
      BY <3>1 DEF Told, Books!Blank
  <2> QED
    BY <2>1, <2>2, EmptyBook DEF Books!Init
<1>2. IInv /\ [Next]_vars => [Books!Next]_(Books!bookVars)
  <2> SUFFICES ASSUME IInv, [Next]_vars PROVE [Books!Next]_(Books!bookVars)
    OBVIOUS
  <2>1. CASE UpgradeHeaders \/ Compile \/ UNCHANGED vars
    <3>1. UNCHANGED <<builder, local, installed>>
      BY <2>1 DEF UpgradeHeaders, Compile, vars
    <3> QED
      BY <3>1 DEF Books!bookVars
  <2>2. CASE HashAdd
    BY <2>2, BookAdd
  <2>3. CASE StartBuild \/ WriteDatabase \/ InstallRemove \/ InstallCopy
    BY <2>3, BookStart, BookWrite, BookRemove, BookCopy DEF Books!Next
  <2> QED
    BY <2>1, <2>2, <2>3 DEF Next
<1> QED
  BY <1>1, <1>2, Inductive, PTL DEF Spec, ImplementsBook, Books!Spec
=============================================================================
