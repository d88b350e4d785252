--------------------------- MODULE SteplistProofs ---------------------------
(***************************************************************************)
(* Theorems about the step lists of the host, for any chunks and lists,    *)
(* linked, scheduled, freed and used again after free_steplist in any      *)
(* order: a list that was never freed, and that no freed list has reached, *)
(* stays what was linked to it, and only the others run wild.              *)
(***************************************************************************)
EXTENDS Steplist, SequenceTheorems, TLAPS

From(c, k) == IF k <= Len(c) THEN c[k] ELSE NULL

(* c is the chain from hd to tl through the pointers nx.                   *)
Chained(c, hd, tl, nx) ==
  IF c = <<>> THEN hd = NULL
  ELSE /\ hd = c[1] /\ tl = c[Len(c)]
       /\ \A i \in 1 .. Len(c) : nx[c[i]] = From(c, i + 1)

Distinct(c) == \A i, j \in 1 .. Len(c) : c[i] = c[j] => i = j

(* In the lists ct a chunk is at one place of one list.                    *)
Separate(ct) ==
  \A l, m \in Steplists : \A i \in 1 .. Len(ct[l]), j \in 1 .. Len(ct[m]) :
    ct[l][i] = ct[m][j] => l = m /\ i = j

(* The chunks of the lists ct, but only those from place k on of list f.   *)
Held(ct, f, k) ==
  {x \in Addrs : \E l \in Steplists : \E i \in 1 .. Len(ct[l]) :
     x = ct[l][i] /\ (l = f => i >= k)}

All(ct) == {x \in Addrs : \E l \in Steplists : \E i \in 1 .. Len(ct[l]) : x = ct[l][i]}

ContentInv ==
  /\ \A l \in Steplists \ sound : content[l] = <<>>
  /\ Separate(content)
  /\ All(content) \cap lost = {}

ChainsInv ==
  \A l \in sound :
    /\ content[l] = <<>> <=> head[l] = NULL
    /\ ~ BeingFreed(l) => Chained(content[l], head[l], tail[l], next)

(* free_steplist has freed the list job up to its cursor, place k of it.   *)
FreedUpTo(k) ==
  LET c == content[job] IN
  /\ cursor = From(c, k)
  /\ live = Held(content, job, k) \cup lost
  /\ \A i \in k .. Len(c) : next[c[i]] = From(c, i + 1)

(* What is allocated is in a list or lost.                                 *)
LiveInv ==
  /\ lost \subseteq live
  /\ IF BeingFreed(job) /\ job \in sound
       THEN \E k \in 1 .. Len(content[job]) + 1 : FreedUpTo(k)
       ELSE live = All(content) \cup lost

(* ExecuteSteplist has issued a sound list up to its cursor and cannot run *)
(* past its last instruction, which is flagged.                            *)
WalkInv ==
  pc \in {"loop", "scheduled"} /\ job \in sound =>
    LET c == content[job]
        n == Len(issued)
    IN  /\ c # <<>> /\ flagged[c[Len(c)]]
        /\ n <= Len(c) /\ \A i \in 1 .. n : issued[i] = c[i]
        /\ cursor = From(c, n + 1)
        /\ ~ done => n < Len(c)
        /\ done /\ n > 0 => flagged[c[n]]
        /\ pc = "scheduled" => done

IInv ==
  TypeOK /\ WildOnlyOnceFreed /\ ContentInv /\ ChainsInv /\ LiveInv /\ WalkInv

-----------------------------------------------------------------------------
LEMMA SeqFacts ==
  ASSUME NEW S, NEW c \in Seq(S)
  PROVE  /\ Len(c) \in Nat /\ DOMAIN c = 1 .. Len(c)
         /\ \A i \in 1 .. Len(c) : c[i] \in S
         /\ c = <<>> <=> Len(c) = 0
OBVIOUS

LEMMA ContentFacts ==
  ASSUME TypeOK, NEW l \in Steplists
  PROVE  /\ content[l] \in Seq(Addrs)
         /\ Len(content[l]) \in Nat /\ DOMAIN content[l] = 1 .. Len(content[l])
         /\ \A i \in 1 .. Len(content[l]) : content[l][i] \in Addrs
         /\ content[l] = <<>> <=> Len(content[l]) = 0
<1>1. content[l] \in Seq(Addrs)
  BY DEF TypeOK
<1> QED
  BY <1>1

(* Linking a chunk extends the chain by it, and writes no other pointer    *)
(* than those of the chunk and of the tail.                                *)
LEMMA RelinkChain ==
  ASSUME TypeOK, NEW l \in Steplists, NEW c \in Seq(Addrs), NEW a \in Addrs,
         Chained(c, head[l], tail[l], next), Distinct(c), \A i \in 1 .. Len(c) : c[i] # a
  PROVE  Chained(Append(c, a), IF head[l] = NULL THEN a ELSE head[l], a, Relink(l, a))
<1> DEFINE nx2 == Relink(l, a)
           d == Append(c, a)
<1>1. /\ Len(c) \in Nat /\ \A i \in 1 .. Len(c) : c[i] \in Addrs
      /\ c = <<>> <=> Len(c) = 0
  OBVIOUS
<1>2. /\ d \in Seq(Addrs) /\ Len(d) = Len(c) + 1 /\ d[Len(c) + 1] = a
      /\ \A i \in 1 .. Len(c) : d[i] = c[i]
  OBVIOUS
<1> HIDE DEF d
<1>3. d # <<>>
  BY <1>1, <1>2
<1>4. NULL \notin Addrs /\ next \in [Addrs -> Pointers]
  BY SteplistAssumption DEF TypeOK
<1>5. CASE c = <<>>
  <2>1. head[l] = NULL /\ nx2 = [next EXCEPT ![a] = NULL]
    BY <1>5 DEF Chained, Relink
  <2>2. nx2[a] = NULL
    BY <1>4, <2>1
  <2>3. Len(d) = 1 /\ d[1] = a
    BY <1>1, <1>2, <1>5
  <2> HIDE DEF nx2
  <2>4. Chained(d, a, a, nx2)
    BY <1>3, <2>2, <2>3 DEF Chained, From
  <2> QED
    BY <2>1, <2>4 DEF d, nx2
<1>6. CASE c # <<>>
  <2>1. /\ head[l] = c[1] /\ tail[l] = c[Len(c)] /\ Len(c) \in 1 .. Len(c)
        /\ \A i \in 1 .. Len(c) : next[c[i]] = From(c, i + 1)
    BY <1>1, <1>6 DEF Chained
  <2>2. head[l] \in Addrs /\ tail[l] \in Addrs /\ head[l] # NULL /\ tail[l] # a
    BY <1>1, <1>4, <1>6, <2>1
  <2>3. nx2 = [next EXCEPT ![a] = NULL, ![tail[l]] = a]
    BY <2>2 DEF Relink
  <2>4. nx2[a] = NULL /\ nx2[tail[l]] = a
        /\ \A x \in Addrs : x # a /\ x # tail[l] => nx2[x] = next[x]
    BY <1>4, <2>2, <2>3
  <2> HIDE DEF nx2
  <2>5. ASSUME NEW i \in 1 .. Len(d)
        PROVE  nx2[d[i]] = From(d, i + 1)
    <3>1. CASE i = Len(d)
      BY <1>1, <1>2, <2>4, <3>1 DEF From
    <3>2. CASE i = Len(c)
      BY <1>1, <1>2, <2>1, <2>4, <3>2 DEF From
    <3>3. CASE i < Len(c)
      <4>1. i \in 1 .. Len(c) /\ i + 1 \in 1 .. Len(c) /\ c[i] # tail[l] /\ c[i] # a
        BY <1>1, <2>1, <3>3 DEF Distinct
      <4>2. nx2[c[i]] = c[i + 1]
        BY <1>1, <2>1, <2>4, <3>3, <4>1 DEF From
      <4> QED
        BY <1>1, <1>2, <3>3, <4>1, <4>2 DEF From
    <3> QED
      BY <1>1, <1>2, <3>1, <3>2, <3>3
  <2>6. d[1] = head[l] /\ d[Len(d)] = a
    BY <1>1, <1>2, <1>6, <2>1
  <2>7. Chained(d, head[l], a, nx2)
    BY <1>3, <2>5, <2>6 DEF Chained
  <2> QED
    BY <2>2, <2>7 DEF d, nx2
<1> QED
  BY <1>5, <1>6

LEMMA RelinkType ==
  ASSUME TypeOK, NEW l \in Steplists, NEW a \in Addrs, head[l] = NULL \/ tail[l] \in Addrs
  PROVE  /\ Relink(l, a) \in [Addrs -> Pointers]
         /\ \A x \in Addrs : x # a /\ (head[l] = NULL \/ x # tail[l]) => Relink(l, a)[x] = next[x]
<1>1. next \in [Addrs -> Pointers] /\ a \in Pointers /\ NULL \in Pointers
  BY DEF TypeOK, Pointers
<1>2. CASE head[l] = NULL
  BY <1>1, <1>2 DEF Relink
<1>3. CASE head[l] # NULL
  BY <1>1, <1>3 DEF Relink
<1> QED
  BY <1>2, <1>3

-----------------------------------------------------------------------------
(* What is left of the lists when list l touches the chunk x.              *)
Left(l, x) == [m \in Steplists |-> IF m \in Touched(l, x) THEN <<>> ELSE content[m]]

LEMMA LeftFacts ==
  ASSUME TypeOK, ContentInv, NEW l \in Steplists, NEW x
  PROVE  /\ Touched(l, x) \subseteq sound /\ l \notin Touched(l, x)
         /\ Left(l, x) \in [Steplists -> Seq(Addrs)]
         /\ \A m \in Steplists \ (sound \ Touched(l, x)) : Left(l, x)[m] = <<>>
         /\ \A m \in sound \ Touched(l, x) : Left(l, x)[m] = content[m]
         /\ Left(l, x)[l] = content[l]
         /\ \A m \in Steplists \ {l} : \A i \in 1 .. Len(Left(l, x)[m]) : Left(l, x)[m][i] # x
         /\ Separate(Left(l, x))
         /\ All(content) = All(Left(l, x)) \cup Chunks(Touched(l, x))
         /\ All(Left(l, x)) \cap Chunks(Touched(l, x)) = {}
<1> DEFINE h == Touched(l, x)
           d == Left(l, x)
<1>1. h \subseteq sound /\ l \notin h /\ h \subseteq Steplists
  BY DEF Touched, TypeOK
<1>2. \A m \in Steplists : d[m] = IF m \in h THEN <<>> ELSE content[m]
  BY DEF Left
<1>3. d \in [Steplists -> Seq(Addrs)]
  <2>1. <<>> \in Seq(Addrs)
    OBVIOUS
  <2> QED
    BY <2>1 DEF Left, TypeOK
<1>4. Len(<<>>) = 0
  OBVIOUS
<1>5. \A m \in Steplists : \A i \in 1 .. Len(d[m]) :
        m \notin h /\ i \in 1 .. Len(content[m]) /\ d[m][i] = content[m][i]
  BY <1>2, <1>4
<1>6. \A m \in Steplists : \A i \in 1 .. Len(content[m]) :
        m \notin h => i \in 1 .. Len(d[m]) /\ d[m][i] = content[m][i]
  BY <1>2
<1>7. \A m \in Steplists \ sound : content[m] = <<>>
  BY DEF ContentInv
<1>8. \A m \in Steplists : /\ DOMAIN content[m] = 1 .. Len(content[m])
                           /\ \A i \in 1 .. Len(content[m]) : content[m][i] \in Addrs
  BY ContentFacts
<1>9. ASSUME NEW m \in Steplists \ {l}, NEW i \in 1 .. Len(d[m])
      PROVE  d[m][i] # x
  <2>1. m \in sound
    BY <1>4, <1>5, <1>7, <1>9
  <2>2. content[m][i] \in Range(content[m])
    BY <1>5, <1>8 DEF Range
  <2> QED
    BY <1>5, <2>1, <2>2 DEF Touched
<1>10. Separate(d)
  <2> SUFFICES ASSUME NEW m \in Steplists, NEW k \in Steplists,
                      NEW i \in 1 .. Len(d[m]), NEW j \in 1 .. Len(d[k]), d[m][i] = d[k][j]
               PROVE  m = k /\ i = j
    BY DEF Separate
  <2> QED
    BY <1>5 DEF ContentInv, Separate
<1>11. All(content) = All(d) \cup Chunks(h)
  <2>1. ASSUME NEW y \in All(content) PROVE y \in All(d) \cup Chunks(h)
    <3>1. PICK m \in Steplists : \E i \in 1 .. Len(content[m]) : y = content[m][i] /\ y \in Addrs
      BY DEF All
    <3>2. CASE m \in h
      BY <1>8, <3>1, <3>2 DEF Chunks, Range
    <3>3. CASE m \notin h
      BY <1>6, <3>1, <3>3 DEF All
    <3> QED
      BY <3>2, <3>3
  <2>2. All(d) \subseteq All(content)
    BY <1>5 DEF All
  <2>3. Chunks(h) \subseteq All(content)
    BY <1>1, <1>8 DEF All, Chunks, Range
  <2> QED
    BY <2>1, <2>2, <2>3
<1>12. ASSUME NEW y \in All(d), y \in Chunks(h) PROVE FALSE
  <2>1. PICK m \in Steplists : \E i \in 1 .. Len(d[m]) : y = d[m][i]
    BY <1>12 DEF All
  <2> HIDE DEF d, h
  <2>4. PICK i \in 1 .. Len(content[m]) : m \notin h /\ y = content[m][i]
    BY <1>5, <2>1
  <2>2. PICK k \in h : y \in Range(content[k])
    BY <1>12 DEF Chunks
  <2>3. PICK j \in 1 .. Len(content[k]) : y = content[k][j]
    BY <1>1, <1>8, <2>2 DEF Range
  <2>5. k \in Steplists /\ k # m
    BY <1>1, <2>4
  <2> QED
    BY <2>3, <2>4, <2>5 DEF ContentInv, Separate
<1>13. \A m \in Steplists \ (sound \ h) : d[m] = <<>>
  BY <1>2, <1>7
<1>14. \A m \in sound \ h : d[m] = content[m]
  BY <1>2 DEF TypeOK
<1>15. d[l] = content[l]
  BY <1>1, <1>2
<1> QED
  BY <1>1, <1>3, <1>9, <1>10, <1>11, <1>12, <1>13, <1>14, <1>15

(* A list's own chunks are in no other list.                               *)
LEMMA TouchesNone ==
  ASSUME TypeOK, ContentInv, NEW l \in Steplists, NEW i \in 1 .. Len(content[l])
  PROVE  Touched(l, content[l][i]) = {}
<1> SUFFICES ASSUME NEW m \in sound \ {l}, content[l][i] \in Range(content[m]) PROVE FALSE
  BY DEF Touched
<1>1. m \in Steplists /\ DOMAIN content[m] = 1 .. Len(content[m])
  BY ContentFacts DEF TypeOK
<1>2. PICK j \in 1 .. Len(content[m]) : content[l][i] = content[m][j]
  BY <1>1 DEF Range
<1> QED
  BY <1>1, <1>2 DEF ContentInv, Separate

(* Nor is a pointer that points at no chunk.                               *)
LEMMA TouchesNothing ==
  ASSUME TypeOK, NEW l \in Steplists, NEW x, x \notin Addrs
  PROVE  Touched(l, x) = {}
<1> SUFFICES ASSUME NEW m \in sound \ {l}, x \in Range(content[m]) PROVE FALSE
  BY DEF Touched
<1>1. /\ m \in Steplists /\ DOMAIN content[m] = 1 .. Len(content[m])
      /\ \A i \in 1 .. Len(content[m]) : content[m][i] \in Addrs
  BY ContentFacts DEF TypeOK
<1> QED
  BY <1>1 DEF Range

LEMMA LeftWhole ==
  ASSUME TypeOK, NEW l \in Steplists, NEW x, Touched(l, x) = {}
  PROVE  Left(l, x) = content
BY DEF Left, TypeOK

LEMMA HeldAll ==
  ASSUME TypeOK, NEW l \in Steplists
  PROVE  Held(content, l, 1) = All(content)
<1>1. \A m \in Steplists : Len(content[m]) \in Nat
  BY ContentFacts
<1>2. \A m \in Steplists : \A i \in 1 .. Len(content[m]) : i >= 1
  BY <1>1
<1> QED
  BY <1>2 DEF Held, All
-----------------------------------------------------------------------------
LEMMA InitInv == Init => IInv
<1> SUFFICES ASSUME Init PROVE IInv
  OBVIOUS
<1>1. TypeOK
  <2>1. <<>> \in Seq(Addrs)
    OBVIOUS
  <2>2. content \in [Steplists -> Seq(Addrs)] /\ issued \in Seq(Addrs)
    BY <2>1 DEF Init
  <2>3. /\ next \in [Addrs -> Pointers] /\ flagged \in [Addrs -> BOOLEAN]
        /\ head \in [Steplists -> Pointers] /\ tail \in [Steplists -> Pointers]
        /\ cursor \in Pointers
    BY DEF Init, Pointers
  <2> QED
    BY <2>2, <2>3 DEF Init, TypeOK
<1>2. All(content) = {}
  BY DEF Init, All
<1>3. WildOnlyOnceFreed /\ ContentInv /\ ChainsInv /\ WalkInv
  BY <1>2 DEF Init, WildOnlyOnceFreed, ContentInv, Separate, ChainsInv, Chained, WalkInv
<1>4. LiveInv
  BY <1>2 DEF Init, LiveInv, BeingFreed
<1> QED
  BY <1>1, <1>3, <1>4 DEF IInv

(* What the host knows of a sound list it is not freeing.                  *)
LEMMA ListFacts ==
  ASSUME IInv, NEW l \in sound, pc # "free"
  PROVE  /\ l \in Steplists /\ Distinct(content[l])
         /\ Chained(content[l], head[l], tail[l], next)
         /\ head[l] = NULL => content[l] = <<>> /\ tail[l] = NULL
         /\ head[l] # NULL =>
              /\ content[l] # <<>> /\ Len(content[l]) \in 1 .. Len(content[l])
              /\ head[l] = content[l][1] /\ tail[l] = content[l][Len(content[l])]
              /\ head[l] \in Addrs /\ tail[l] \in live
         /\ Touched(l, tail[l]) = {}
<1>1. l \in Steplists /\ TypeOK /\ ContentInv
  BY DEF IInv, TypeOK
<1>2. Distinct(content[l])
  BY <1>1 DEF ContentInv, Separate, Distinct
<1>3. Chained(content[l], head[l], tail[l], next) /\ (content[l] = <<>> <=> head[l] = NULL)
  BY DEF IInv, ChainsInv, BeingFreed
<1>4. CASE head[l] = NULL
  <2>1. tail[l] = NULL /\ NULL \notin Addrs
    BY <1>1, <1>4, SteplistAssumption DEF TypeOK
  <2> QED
    BY <1>1, <1>2, <1>3, <1>4, <2>1, TouchesNothing
<1>5. CASE head[l] # NULL
  <2>1. /\ content[l] # <<>> /\ Len(content[l]) \in 1 .. Len(content[l])
        /\ 1 \in 1 .. Len(content[l])
    BY <1>1, <1>3, <1>5, ContentFacts
  <2>2. head[l] = content[l][1] /\ tail[l] = content[l][Len(content[l])]
    BY <1>3, <2>1 DEF Chained
  <2>3. head[l] \in Addrs /\ tail[l] \in Addrs
    BY <1>1, <2>1, <2>2, ContentFacts
  <2>4. tail[l] \in live
    BY <1>1, <2>1, <2>2, <2>3 DEF IInv, LiveInv, BeingFreed, All
  <2>5. Touched(l, tail[l]) = {}
    BY <1>1, <2>1, <2>2, TouchesNone
  <2> QED
    BY <1>1, <1>2, <1>3, <1>5, <2>1, <2>2, <2>3, <2>4, <2>5
<1> QED
  BY <1>4, <1>5

(* Linking to a sound list adds the chunk to it; chunks that nobody frees  *)
(* are lost.                                                               *)
LEMMA FinishSound ==
  ASSUME IInv, NEW l \in sound, pc \in {"idle", "delay"},
         NEW a \in Addrs \ live, NEW extra \in SUBSET (Addrs \ live), a \notin extra,
         NEW more \in BOOLEAN, Finish(l, a, extra, more)
  PROVE  IInv'
<1> DEFINE c == content[l]
           d == Append(c, a)
<1>1. /\ l \in Steplists /\ Distinct(c) /\ Chained(c, head[l], tail[l], next)
      /\ head[l] = NULL => c = <<>> /\ tail[l] = NULL
      /\ head[l] # NULL =>
           /\ c # <<>> /\ Len(c) \in 1 .. Len(c) /\ tail[l] = c[Len(c)]
           /\ head[l] \in Addrs /\ tail[l] \in live
      /\ Touched(l, tail[l]) = {}
  BY ListFacts
<1>2. /\ c \in Seq(Addrs) /\ Len(c) \in Nat
      /\ d \in Seq(Addrs) /\ Len(d) = Len(c) + 1 /\ d[Len(c) + 1] = a /\ d # <<>>
      /\ \A i \in 1 .. Len(c) : d[i] = c[i]
  <2>1. c \in Seq(Addrs)
    BY <1>1 DEF IInv, TypeOK
  <2> QED
    BY <2>1
<1>3. /\ job' = l /\ live' = live \cup {a} \cup extra
      /\ next' = Relink(l, a) /\ flagged' = [flagged EXCEPT ![a] = FALSE]
      /\ head' = (IF head[l] = NULL THEN [head EXCEPT ![l] = a] ELSE head)
      /\ tail' = [tail EXCEPT ![l] = a]
      /\ sound' = sound /\ lost' = lost \cup extra
      /\ content' = [content EXCEPT ![l] = d]
      /\ pc' \in {"idle", "delay"}
      /\ UNCHANGED <<cursor, done, issued>>
  <2>1. Chunks({}) = {}
    BY DEF Chunks
  <2>2. [m \in Steplists |-> IF m \in {} THEN <<>> ELSE IF m = l /\ l \in sound
                               THEN Append(content[m], a) ELSE content[m]]
        = [content EXCEPT ![l] = d]
    BY <1>1 DEF IInv, TypeOK
  <2> QED
    BY <1>1, <2>1, <2>2, Zenon DEF Finish, walk
<1>4. /\ TypeOK /\ live \subseteq Addrs /\ live = All(content) \cup lost /\ ContentInv
  BY DEF IInv, TypeOK, LiveInv, BeingFreed
<1>5. \A m \in Steplists : \A i \in 1 .. Len(content[m]) :
        content[m][i] \in Addrs /\ content[m][i] \in live /\ content[m][i] # a
  BY <1>4, ContentFacts DEF All
<1>6. next' \in [Addrs -> Pointers]
      /\ \A x \in Addrs : x # a /\ (head[l] = NULL \/ x # tail[l]) => next'[x] = next[x]
  BY <1>1, <1>3, <1>4, RelinkType
<1>7. /\ content'[l] = d /\ content' \in [Steplists -> Seq(Addrs)]
      /\ \A m \in Steplists \ {l} : content'[m] = content[m]
  BY <1>1, <1>2, <1>3, <1>4 DEF TypeOK
<1> HIDE DEF d
<1>8. TypeOK'
  <2>1. head' \in [Steplists -> Pointers] /\ tail' \in [Steplists -> Pointers]
        /\ \A m \in Steplists : head'[m] = NULL <=> tail'[m] = NULL
    BY <1>1, <1>3, <1>4, SteplistAssumption DEF TypeOK, Pointers
  <2>2. flagged' \in [Addrs -> BOOLEAN]
    BY <1>3, <1>4 DEF TypeOK
  <2> QED
    BY <1>1, <1>3, <1>4, <1>6, <1>7, <2>1, <2>2 DEF TypeOK
<1>9. All(content') = All(content) \cup {a}
  <2>1. ASSUME NEW y \in All(content') PROVE y \in All(content) \cup {a}
    <3>1. PICK m \in Steplists : \E i \in 1 .. Len(content'[m]) : y = content'[m][i]
      BY DEF All
    <3>2. CASE m = l
      BY <1>1, <1>2, <1>5, <1>7, <3>1, <3>2 DEF All
    <3>3. CASE m # l
      BY <1>5, <1>7, <3>1, <3>3 DEF All
    <3> QED
      BY <3>2, <3>3
  <2>2. ASSUME NEW y \in All(content) PROVE y \in All(content')
    <3>1. PICK m \in Steplists : \E i \in 1 .. Len(content[m]) : y = content[m][i]
      BY DEF All
    <3>2. CASE m = l
      <4>1. PICK i \in 1 .. Len(c) : y = c[i]
        BY <3>1, <3>2
      <4>2. i \in 1 .. Len(d) /\ d[i] = y
        BY <1>2, <4>1
      <4> QED
        BY <1>1, <1>7, <4>2 DEF All
    <3>3. CASE m # l
      BY <1>7, <3>1, <3>3 DEF All
    <3> QED
      BY <3>2, <3>3
  <2>3. a \in All(content')
    <3>1. Len(d) \in 1 .. Len(d) /\ d[Len(d)] = a
      BY <1>2
    <3> QED
      BY <1>1, <1>7, <3>1 DEF All
  <2> QED
    BY <2>1, <2>2, <2>3
<1>10. ContentInv'
  <2>1. \A m \in Steplists \ sound' : content'[m] = <<>>
    BY <1>3, <1>4, <1>7 DEF ContentInv
  <2>2. Separate(content')
    <3> SUFFICES ASSUME NEW m \in Steplists, NEW k \in Steplists,
                        NEW i \in 1 .. Len(content'[m]), NEW j \in 1 .. Len(content'[k]),
                        content'[m][i] = content'[k][j]
                 PROVE  m = k /\ i = j
      BY DEF Separate
    <3>1. ASSUME NEW n \in Steplists, NEW y \in 1 .. Len(content'[n])
          PROVE  \/ y \in 1 .. Len(content[n]) /\ content'[n][y] = content[n][y]
                 \/ n = l /\ y = Len(c) + 1 /\ content'[n][y] = a
      <4>1. CASE n = l
        BY <1>2, <1>7, <4>1
      <4>2. CASE n # l
        BY <1>7, <4>2
      <4> QED
        BY <4>1, <4>2
    <3>2. CASE i \in 1 .. Len(content[m]) /\ content'[m][i] = content[m][i]
      <4>1. content'[k][j] # a
        BY <1>5, <3>2
      <4>2. j \in 1 .. Len(content[k]) /\ content'[k][j] = content[k][j]
        BY <3>1, <4>1
      <4>3. content[m][i] = content[k][j]
        BY <3>2, <4>2
      <4> QED
        BY <1>4, <3>2, <4>2, <4>3 DEF ContentInv, Separate
    <3>3. CASE m = l /\ i = Len(c) + 1 /\ content'[m][i] = a
      <4>1. ~ (j \in 1 .. Len(content[k]) /\ content'[k][j] = content[k][j])
        BY <1>5, <3>3
      <4> QED
        BY <3>1, <3>3, <4>1
    <3> QED
      BY <3>1, <3>2, <3>3
  <2>3. All(content') \cap lost' = {}
    <3>1. All(content) \subseteq live /\ a \notin live /\ lost \subseteq live
      BY <1>4
    <3>2. All(content) \cap lost = {}
      BY <1>4 DEF ContentInv
    <3> QED
      BY <1>3, <1>9, <3>1, <3>2
  <2> QED
    BY <2>1, <2>2, <2>3 DEF ContentInv
<1>11. ChainsInv'
  <2>1. /\ head'[l] = (IF head[l] = NULL THEN a ELSE head[l]) /\ tail'[l] = a
        /\ \A m \in Steplists \ {l} : head'[m] = head[m] /\ tail'[m] = tail[m]
    BY <1>1, <1>3, <1>4 DEF TypeOK
  <2>2. Chained(d, head'[l], tail'[l], next')
    <3>1. \A i \in 1 .. Len(c) : c[i] # a
      BY <1>1, <1>5
    <3>2. Chained(Append(c, a), IF head[l] = NULL THEN a ELSE head[l], a, Relink(l, a))
      BY <1>1, <1>2, <1>4, <3>1, RelinkChain
    <3> QED
      BY <1>3, <2>1, <3>2, Zenon DEF d
  <2>3. head'[l] # NULL
    BY <1>1, <2>1, SteplistAssumption
  <2>4. ASSUME NEW m \in sound, m # l
        PROVE  /\ content'[m] = <<>> <=> head'[m] = NULL
               /\ Chained(content'[m], head'[m], tail'[m], next')
    <3>1. /\ m \in Steplists /\ content'[m] = content[m]
          /\ Chained(content[m], head[m], tail[m], next)
          /\ content[m] = <<>> <=> head[m] = NULL
      BY <1>4, <1>7, <2>4 DEF IInv, ChainsInv, BeingFreed, TypeOK
    <3>2. ASSUME NEW i \in 1 .. Len(content[m]) PROVE next'[content[m][i]] = next[content[m][i]]
      <4>1. head[l] = NULL \/ content[m][i] # tail[l]
        BY <1>1, <1>4, <2>4, <3>1 DEF ContentInv, Separate
      <4> QED
        BY <1>5, <1>6, <3>1, <4>1
    <3>3. Chained(content[m], head[m], tail[m], next')
      BY <3>1, <3>2 DEF Chained
    <3> QED
      BY <2>1, <2>4, <3>1, <3>3
  <2> QED
    BY <1>2, <1>3, <1>7, <2>2, <2>3, <2>4 DEF ChainsInv
<1>12. LiveInv'
  <2>1. live' = All(content') \cup lost' /\ lost' \subseteq live'
    BY <1>3, <1>4, <1>9
  <2> QED
    BY <1>3, <2>1 DEF LiveInv, BeingFreed
<1>13. WildOnlyOnceFreed' /\ WalkInv'
  BY <1>3 DEF WildOnlyOnceFreed, WalkInv
<1> QED
  BY <1>8, <1>10, <1>11, <1>12, <1>13 DEF IInv

(* A list that is not sound may get at the lists that own the chunk its    *)
(* tail points at: they are sound no longer, what they held is lost, and   *)
(* the other lists keep theirs.                                            *)
LEMMA HarmStep ==
  ASSUME IInv, NEW l \in Steplists, NEW x,
         pc = "free" => l = job /\ l \notin sound,
         sound' = sound \ Touched(l, x), content' = Left(l, x),
         NEW S \in SUBSET Addrs, S \cap live = {},
         NEW T, T \subseteq {x}, T \cap All(Left(l, x)) = {},
         live' = (live \cup S) \ T,
         lost' = (lost \cup S \cup Chunks(Touched(l, x))) \ T
  PROVE  /\ sound' \subseteq Steplists /\ content' \in [Steplists -> Seq(Addrs)]
         /\ lost' \subseteq Addrs /\ live' \subseteq Addrs
         /\ ContentInv' /\ lost' \subseteq live' /\ live' = All(content') \cup lost'
<1>1. TypeOK /\ ContentInv /\ live = All(content) \cup lost
  BY DEF IInv, LiveInv, BeingFreed
<1>2. /\ content' \in [Steplists -> Seq(Addrs)] /\ Separate(content')
      /\ \A m \in Steplists \ sound' : content'[m] = <<>>
      /\ All(content) = All(content') \cup Chunks(Touched(l, x))
      /\ All(content') \cap Chunks(Touched(l, x)) = {}
  BY <1>1, LeftFacts
<1>3. All(content) \cap lost = {} /\ lost \subseteq live /\ live \subseteq Addrs
      /\ sound \subseteq Steplists
  BY <1>1 DEF ContentInv, TypeOK
<1>4. All(content') \cap lost' = {}
  BY <1>1, <1>2, <1>3
<1>5. lost' \subseteq live' /\ live' = All(content') \cup lost'
  BY <1>1, <1>2, <1>3
<1> QED
  BY <1>2, <1>3, <1>4, <1>5 DEF ContentInv

LEMMA HarmChains ==
  ASSUME IInv, NEW l \in Steplists, NEW x, l \notin sound, pc = "free" => l = job,
         sound' = sound \ Touched(l, x), content' = Left(l, x),
         \A y \in live : y # x => next'[y] = next[y],
         \A m \in Steplists \ {l} : head'[m] = head[m] /\ tail'[m] = tail[m]
  PROVE  ChainsInv'
<1>1. TypeOK /\ ContentInv /\ live = All(content) \cup lost
  BY DEF IInv, LiveInv, BeingFreed
<1>2. ASSUME NEW m \in sound'
      PROVE  /\ content'[m] = <<>> <=> head'[m] = NULL
             /\ Chained(content'[m], head'[m], tail'[m], next')
  <2>1. m \in Steplists \ {l} /\ m \in sound /\ m \in sound \ Touched(l, x)
    BY <1>1 DEF TypeOK
  <2>2. content'[m] = content[m] /\ \A i \in 1 .. Len(content'[m]) : content'[m][i] # x
    BY <1>1, <2>1, LeftFacts
  <2>3. /\ Chained(content[m], head[m], tail[m], next)
        /\ content[m] = <<>> <=> head[m] = NULL
    BY <2>1 DEF IInv, ChainsInv, BeingFreed
  <2>4. \A i \in 1 .. Len(content[m]) : content[m][i] \in live
    BY <1>1, <2>1, ContentFacts DEF All
  <2>5. \A i \in 1 .. Len(content[m]) : next'[content[m][i]] = next[content[m][i]]
    BY <2>2, <2>4
  <2>6. Chained(content[m], head[m], tail[m], next')
    BY <2>3, <2>5 DEF Chained
  <2> QED
    BY <2>1, <2>2, <2>3, <2>6
<1> QED
  BY <1>2 DEF ChainsInv

LEMMA FinishOther ==
  ASSUME IInv, NEW l \in Steplists, l \notin sound, pc \in {"idle", "delay"},
         NEW a \in Addrs \ live, NEW extra \in SUBSET (Addrs \ live), a \notin extra,
         NEW more \in BOOLEAN, Finish(l, a, extra, more),
         head[l] = NULL \/ tail[l] \in live \cup {a} \cup extra
  PROVE  IInv'
<1> DEFINE x == tail[l]
           S == {a} \cup extra
           T == {}
<1>1. TypeOK /\ live \subseteq Addrs
  BY DEF IInv, TypeOK
<1>2. /\ job' = l /\ live' = live \cup {a} \cup extra
      /\ next' = Relink(l, a) /\ flagged' = [flagged EXCEPT ![a] = FALSE]
      /\ head' = (IF head[l] = NULL THEN [head EXCEPT ![l] = a] ELSE head)
      /\ tail' = [tail EXCEPT ![l] = a]
      /\ sound' = sound \ Touched(l, x)
      /\ lost' = lost \cup extra \cup Chunks(Touched(l, x)) \cup {a}
      /\ content' = Left(l, x)
      /\ pc' \in {"idle", "delay"}
      /\ UNCHANGED <<cursor, done, issued>>
  <2>1. [m \in Steplists |-> IF m \in Touched(l, x) THEN <<>>
                             ELSE IF m = l /\ l \in sound THEN Append(content[m], a) ELSE content[m]]
        = Left(l, x)
    BY DEF Left
  <2> QED
    BY <2>1, Zenon DEF Finish, walk
<1>3. S \in SUBSET Addrs /\ S \cap live = {}
  OBVIOUS
<1>4. /\ live' = (live \cup S) \ T /\ lost' = (lost \cup S \cup Chunks(Touched(l, x))) \ T
      /\ T \subseteq {x} /\ T \cap All(Left(l, x)) = {}
      /\ pc = "free" => l = job /\ l \notin sound
  BY <1>2
<1> HIDE DEF x, S, T
<1>5. /\ sound' \subseteq Steplists /\ content' \in [Steplists -> Seq(Addrs)]
      /\ lost' \subseteq Addrs /\ live' \subseteq Addrs
      /\ ContentInv' /\ lost' \subseteq live' /\ live' = All(content') \cup lost'
  BY <1>2, <1>3, <1>4, HarmStep
<1>6. next' \in [Addrs -> Pointers]
      /\ \A y \in Addrs : y # a /\ (head[l] = NULL \/ y # tail[l]) => next'[y] = next[y]
  <2>1. head[l] = NULL \/ tail[l] \in Addrs
    BY <1>1
  <2> QED
    BY <1>1, <1>2, <2>1, RelinkType
<1>7. TypeOK'
  <2>1. head' \in [Steplists -> Pointers] /\ tail' \in [Steplists -> Pointers]
        /\ \A m \in Steplists : head'[m] = NULL <=> tail'[m] = NULL
    BY <1>1, <1>2, SteplistAssumption DEF TypeOK, Pointers
  <2>2. flagged' \in [Addrs -> BOOLEAN]
    BY <1>1, <1>2 DEF TypeOK
  <2> QED
    BY <1>1, <1>2, <1>5, <1>6, <2>1, <2>2 DEF TypeOK
<1>8. ChainsInv'
  <2>1. \A m \in Steplists \ {l} : head'[m] = head[m] /\ tail'[m] = tail[m]
    BY <1>1, <1>2 DEF TypeOK
  <2>2. \A y \in live : y # x => next'[y] = next[y]
    BY <1>1, <1>6 DEF x
  <2> QED
    BY <1>2, <2>1, <2>2, HarmChains
<1>9. WildOnlyOnceFreed' /\ WalkInv' /\ LiveInv'
  BY <1>2, <1>5 DEF WildOnlyOnceFreed, WalkInv, LiveInv, BeingFreed
<1> QED
  BY <1>5, <1>7, <1>8, <1>9 DEF IInv

(* A step that runs wild works on a list that is not sound.                *)
LEMMA WildStep ==
  ASSUME IInv, NEW l \in Steplists, l \notin sound, pc = "free" => l = job, Wild(l)
  PROVE  IInv'
<1>1. /\ pc' = "wild" /\ job' = l
      /\ UNCHANGED <<live, next, flagged, head, tail, cursor, done, sound, content, lost, issued>>
  BY DEF Wild, heap, lists, walk, history
<1>2. TypeOK'
  BY <1>1 DEF IInv, TypeOK
<1>3. ContentInv' /\ WildOnlyOnceFreed' /\ WalkInv'
  BY <1>1 DEF IInv, ContentInv, Separate, All, WildOnlyOnceFreed, WalkInv
<1>4. ChainsInv'
  BY <1>1 DEF IInv, ChainsInv, BeingFreed
<1>5. LiveInv'
  BY <1>1 DEF IInv, LiveInv, BeingFreed, All
<1> QED
  BY <1>2, <1>3, <1>4, <1>5 DEF IInv

LEMMA FinishStep ==
  ASSUME IInv, NEW l \in Steplists, pc \in {"idle", "delay"},
         NEW a \in Addrs \ live, NEW extra \in SUBSET (Addrs \ live), a \notin extra,
         NEW more \in BOOLEAN, Finish(l, a, extra, more)
  PROVE  IInv'
<1>1. CASE l \in sound
  BY <1>1, FinishSound
<1>2. CASE l \notin sound /\ (head[l] = NULL \/ tail[l] \in live \cup {a} \cup extra)
  BY <1>2, FinishOther
<1>3. CASE l \notin sound /\ ~ (head[l] = NULL \/ tail[l] \in live \cup {a} \cup extra)
  <2>1. Wild(l)
    BY <1>3, Zenon DEF Finish
  <2> QED
    BY <1>3, <2>1, WildStep
<1> QED
  BY <1>1, <1>2, <1>3

LEMMA LinkSteps ==
  ASSUME IInv, LinkDelay \/ \E l \in Steplists : LinkOnce(l) \/ LinkTwice(l)
  PROVE  IInv'
<1>1. job \in Steplists
  BY DEF IInv, TypeOK
<1>2. ASSUME NEW l \in Steplists, LinkOnce(l) PROVE IInv'
  <2>1. PICK a \in Addrs \ live : \E more \in BOOLEAN : Finish(l, a, {}, more)
    BY <1>2 DEF LinkOnce
  <2>2. pc = "idle"
    BY <1>2 DEF LinkOnce
  <2> QED
    BY <2>1, <2>2, FinishStep
<1>3. ASSUME NEW l \in Steplists, pc \in {"idle", "delay"},
             \E a, b \in Addrs \ live : \E more \in BOOLEAN : a # b /\ Finish(l, a, {b}, more)
      PROVE  IInv'
  <2>1. PICK a \in Addrs \ live, b \in Addrs \ live, more \in BOOLEAN :
          a # b /\ Finish(l, a, {b}, more)
    BY <1>3
  <2>2. {b} \in SUBSET (Addrs \ live) /\ a \notin {b}
    BY <2>1
  <2> QED
    BY <1>3, <2>1, <2>2, FinishStep
<1>4. ASSUME NEW l \in Steplists, LinkTwice(l) PROVE IInv'
  BY <1>3, <1>4 DEF LinkTwice
<1>5. CASE LinkDelay
  BY <1>1, <1>3, <1>5 DEF LinkDelay
<1> QED
  BY <1>2, <1>4, <1>5

-----------------------------------------------------------------------------
LEMMA ScheduleStep ==
  ASSUME IInv, NEW l \in Steplists, Schedule(l)
  PROVE  IInv'
<1> DEFINE x == tail[l]
           S == {}
           T == {}
<1>1. TypeOK /\ ContentInv /\ pc = "idle" /\ head[l] # NULL /\ live \subseteq Addrs
  BY DEF IInv, TypeOK, Schedule
<1>2. CASE x \notin live
  <2>1. l \notin sound
    BY <1>1, <1>2, ListFacts
  <2> QED
    BY <1>1, <1>2, <2>1, WildStep DEF Schedule
<1>3. CASE x \in live
  <2>1. /\ flagged' = [flagged EXCEPT ![x] = TRUE]
        /\ cursor' = head[l] /\ done' \in BOOLEAN /\ job' = l /\ issued' = <<>>
        /\ sound' = sound \ Touched(l, x) /\ content' = Left(l, x)
        /\ lost' = lost \cup Chunks(Touched(l, x))
        /\ pc' = "loop" /\ UNCHANGED <<live, next, head, tail>>
    BY <1>3 DEF Schedule, lists, Left
  <2>2. flagged' \in [Addrs -> BOOLEAN] /\ flagged'[x] = TRUE
    BY <1>1, <1>3, <2>1 DEF TypeOK
  <2>3. /\ S \in SUBSET Addrs /\ S \cap live = {} /\ T \subseteq {x}
        /\ T \cap All(Left(l, x)) = {}
        /\ pc = "free" => l = job /\ l \notin sound
        /\ live' = (live \cup S) \ T /\ lost' = (lost \cup S \cup Chunks(Touched(l, x))) \ T
    BY <1>1, <2>1
  <2> HIDE DEF S, T
  <2>4. /\ sound' \subseteq Steplists /\ content' \in [Steplists -> Seq(Addrs)]
        /\ lost' \subseteq Addrs /\ live' \subseteq Addrs
        /\ ContentInv' /\ lost' \subseteq live' /\ live' = All(content') \cup lost'
    <3>1. sound' = sound \ Touched(l, x) /\ content' = Left(l, x)
      BY <2>1
    <3> HIDE DEF x
    <3> QED
      BY <2>3, <3>1, HarmStep
  <2>5. TypeOK'
    <3>1. <<>> \in Seq(Addrs)
      OBVIOUS
    <3> QED
      BY <1>1, <2>1, <2>2, <2>4, <3>1 DEF TypeOK
  <2>6. WildOnlyOnceFreed' /\ LiveInv'
    BY <2>1, <2>4 DEF WildOnlyOnceFreed, LiveInv, BeingFreed
  <2>7. CASE l \in sound
    <3>1. /\ content[l] # <<>> /\ Len(content[l]) \in 1 .. Len(content[l])
          /\ head[l] = content[l][1] /\ x = content[l][Len(content[l])]
          /\ Touched(l, x) = {} /\ content' = content /\ sound' = sound
      BY <1>1, <2>1, <2>7, ListFacts, LeftWhole
    <3>2. ChainsInv'
      BY <1>1, <2>1, <3>1 DEF IInv, ChainsInv, BeingFreed
    <3>3. WalkInv'
      <4>1. Len(issued') = 0 /\ From(content[l], 1) = content[l][1]
        BY <1>1, <2>1, <3>1, ContentFacts DEF From
      <4>2. 0 < Len(content[l]) /\ 1 .. 0 = {}
        BY <1>1, <3>1, ContentFacts
      <4> QED
        BY <2>1, <2>2, <3>1, <4>1, <4>2 DEF WalkInv
    <3> QED
      BY <2>4, <2>5, <2>6, <3>2, <3>3 DEF IInv
  <2>8. CASE l \notin sound
    <3>1. ChainsInv'
      <4> HIDE DEF x
      <4>1. /\ \A y \in live : y # x => next'[y] = next[y]
            /\ \A m \in Steplists \ {l} : head'[m] = head[m] /\ tail'[m] = tail[m]
        BY <2>1
      <4> QED
        BY <1>1, <2>1, <2>8, <4>1, HarmChains
    <3>2. WalkInv'
      BY <2>1, <2>8 DEF WalkInv
    <3> QED
      BY <2>4, <2>5, <2>6, <3>1, <3>2 DEF IInv
  <2> QED
    BY <2>7, <2>8
<1> QED
  BY <1>2, <1>3

LEMMA IssueStep ==
  ASSUME IInv, Issue
  PROVE  IInv'
<1> DEFINE c == content[job]
           n == Len(issued)
<1>1. job \in Steplists /\ TypeOK /\ pc = "loop" /\ ~ done
  BY DEF IInv, TypeOK, Issue
<1>2. CASE job \in sound
  <2>1. /\ c # <<>> /\ flagged[c[Len(c)]]
        /\ n \in Nat /\ n < Len(c) /\ \A i \in 1 .. n : issued[i] = c[i]
        /\ cursor = From(c, n + 1)
    BY <1>1, <1>2 DEF IInv, WalkInv, TypeOK
  <2>2. c \in Seq(Addrs) /\ Len(c) \in Nat /\ n + 1 \in 1 .. Len(c)
    BY <1>1, <2>1, ContentFacts
  <2>3. cursor = c[n + 1] /\ cursor \in Addrs
    BY <2>1, <2>2 DEF From
  <2>4. cursor \in live
    BY <1>1, <2>2, <2>3 DEF IInv, LiveInv, BeingFreed, All
  <2>5. /\ issued' = Append(issued, cursor) /\ done' = flagged[cursor] /\ cursor' = next[cursor]
        /\ UNCHANGED <<live, next, flagged, head, tail, content, sound, lost, job, pc>>
    BY <1>2, <2>4 DEF Issue, heap, lists
  <2>6. next[cursor] = From(c, n + 2)
    BY <1>1, <1>2, <2>1, <2>2, <2>3 DEF IInv, ChainsInv, Chained, From, BeingFreed
  <2>7. TypeOK'
    BY <1>1, <2>3, <2>5 DEF TypeOK
  <2>8. WildOnlyOnceFreed' /\ ContentInv' /\ ChainsInv' /\ LiveInv'
    BY <1>1, <2>5 DEF IInv, WildOnlyOnceFreed, ContentInv, Separate, All, ChainsInv, LiveInv,
                      BeingFreed
  <2>9. WalkInv'
    <3>1. /\ Len(issued') = n + 1
          /\ \A i \in 1 .. n + 1 : issued'[i] = c[i]
      BY <1>1, <2>1, <2>2, <2>3, <2>5 DEF TypeOK
    <3>2. cursor' = From(c, Len(issued') + 1)
      BY <2>1, <2>5, <2>6, <3>1
    <3>3. ~ done' => n + 1 < Len(c)
      BY <2>1, <2>2, <2>3, <2>5
    <3> QED
      BY <1>1, <2>1, <2>2, <2>3, <2>5, <3>1, <3>2, <3>3 DEF WalkInv
  <2> QED
    BY <2>7, <2>8, <2>9 DEF IInv
<1>3. CASE job \notin sound /\ cursor \in live
  <2>1. /\ issued' = issued /\ done' = flagged[cursor] /\ cursor' = next[cursor]
        /\ UNCHANGED <<live, next, flagged, head, tail, content, sound, lost, job, pc>>
    BY <1>3 DEF Issue, heap, lists
  <2>2. TypeOK'
    BY <1>1, <1>3, <2>1 DEF TypeOK
  <2>3. WildOnlyOnceFreed' /\ ContentInv' /\ ChainsInv' /\ LiveInv'
    BY <1>1, <2>1 DEF IInv, WildOnlyOnceFreed, ContentInv, Separate, All, ChainsInv, LiveInv,
                      BeingFreed
  <2>4. WalkInv'
    BY <1>3, <2>1 DEF WalkInv
  <2> QED
    BY <2>2, <2>3, <2>4 DEF IInv
<1>4. CASE job \notin sound /\ cursor \notin live
  BY <1>1, <1>4, WildStep DEF Issue
<1> QED
  BY <1>2, <1>3, <1>4

(* The steps that only move the host on.                                   *)
LEMMA MoveStep ==
  ASSUME IInv, Issued \/ Keep \/ DelayAborts
  PROVE  IInv'
<1>1. /\ pc \in {"loop", "scheduled", "delay"} /\ pc' \in {"scheduled", "idle", "aborted"}
      /\ pc' = "scheduled" =>
           pc = "loop" /\ done /\ UNCHANGED <<cursor, done, issued>>
      /\ cursor' \in {cursor, NULL} /\ done' \in BOOLEAN /\ issued' \in {issued, <<>>}
      /\ UNCHANGED <<live, next, flagged, head, tail, content, sound, lost, job>>
  BY DEF Issued, Keep, DelayAborts, heap, lists, walk, history, IInv, TypeOK
<1>2. TypeOK'
  <2>1. <<>> \in Seq(Addrs) /\ NULL \in Pointers
    BY DEF Pointers
  <2> QED
    BY <1>1, <2>1 DEF IInv, TypeOK
<1>3. WildOnlyOnceFreed' /\ ContentInv' /\ ChainsInv' /\ LiveInv'
  BY <1>1 DEF IInv, WildOnlyOnceFreed, ContentInv, Separate, All, ChainsInv, LiveInv, BeingFreed
<1>4. WalkInv'
  BY <1>1 DEF IInv, WalkInv
<1> QED
  BY <1>2, <1>3, <1>4 DEF IInv

LEMMA FreeSteplistStep ==
  ASSUME IInv, NEW l \in Steplists, FreeSteplist(l)
  PROVE  IInv'
<1>1. /\ pc \in {"idle", "scheduled"} /\ cursor' = head[l] /\ job' = l /\ pc' = "free"
      /\ done' = FALSE /\ issued' = <<>>
      /\ UNCHANGED <<live, next, flagged, head, tail, content, sound, lost>>
  BY DEF FreeSteplist, heap, lists
<1>2. TypeOK'
  <2>1. <<>> \in Seq(Addrs)
    OBVIOUS
  <2> QED
    BY <1>1, <2>1 DEF IInv, TypeOK
<1>3. TypeOK /\ live = All(content) \cup lost
  BY <1>1 DEF IInv, LiveInv, BeingFreed
<1>4. WildOnlyOnceFreed' /\ ContentInv' /\ ChainsInv' /\ WalkInv'
  BY <1>1 DEF IInv, WildOnlyOnceFreed, ContentInv, Separate, All, ChainsInv, BeingFreed, WalkInv
<1>5. LiveInv'
  <2>1. CASE l \in sound
    <3>1. live' = Held(content', job', 1) \cup lost'
      <4>1. Held(content, l, 1) = All(content)
        BY <1>3, HeldAll
      <4> QED
        BY <1>1, <1>3, <4>1
    <3>2. /\ Chained(content[l], head[l], tail[l], next)
          /\ Len(content[l]) \in Nat /\ (content[l] = <<>> <=> Len(content[l]) = 0)
      BY <1>1, <1>3, <2>1, ListFacts, ContentFacts
    <3>3. cursor' = From(content[l], 1)
      BY <1>1, <3>2 DEF Chained, From
    <3>4. \A i \in 1 .. Len(content[l]) : next[content[l][i]] = From(content[l], i + 1)
      BY <3>2 DEF Chained
    <3>5. FreedUpTo(1)'
      BY <1>1, <3>1, <3>3, <3>4 DEF FreedUpTo
    <3>6. 1 \in 1 .. Len(content'[job']) + 1
      BY <1>1, <3>2
    <3>7. lost' \subseteq live'
      BY <1>1 DEF IInv, LiveInv
    <3> QED
      BY <1>1, <2>1, <3>5, <3>6, <3>7 DEF LiveInv, BeingFreed
  <2>2. CASE l \notin sound
    BY <1>1, <1>3, <2>2 DEF IInv, LiveInv, BeingFreed, All
  <2> QED
    BY <2>1, <2>2
<1> QED
  BY <1>2, <1>4, <1>5 DEF IInv

(* Freeing a sound list frees its own chunks one by one.                   *)
LEMMA FreeInstrSound ==
  ASSUME IInv, FreeInstr, job \in sound
  PROVE  IInv'
<1> DEFINE c == content[job]
<1>1. /\ TypeOK /\ ContentInv /\ pc = "free" /\ cursor # NULL /\ job \in Steplists
      /\ c \in Seq(Addrs) /\ Len(c) \in Nat /\ \A i \in 1 .. Len(c) : c[i] \in Addrs
      /\ lost \subseteq live
  BY ContentFacts DEF IInv, TypeOK, FreeInstr, LiveInv
<1>2. PICK k \in 1 .. Len(c) + 1 : FreedUpTo(k)
  BY <1>1 DEF IInv, LiveInv, BeingFreed
<1>3. k \in 1 .. Len(c) /\ cursor = c[k] /\ cursor \in Addrs /\ next[cursor] = From(c, k + 1)
  <2>1. k \in 1 .. Len(c) /\ cursor = c[k]
    BY <1>1, <1>2 DEF FreedUpTo, From
  <2> QED
    BY <1>1, <1>2, <2>1 DEF FreedUpTo
<1>4. cursor \in live
  BY <1>1, <1>2, <1>3 DEF FreedUpTo, Held
<1>5. Touched(job, cursor) = {}
  BY <1>1, <1>3, TouchesNone
<1>6. /\ live' = live \ {cursor} /\ next' = [next EXCEPT ![cursor] = NULL]
      /\ flagged' = [flagged EXCEPT ![cursor] = FALSE] /\ cursor' = next[cursor]
      /\ sound' = sound /\ content' = content /\ lost' = lost \ {cursor}
      /\ UNCHANGED <<head, tail, done, pc, job, issued>>
  <2>1. [m \in Steplists |-> IF m \in {} THEN <<>> ELSE content[m]] = content
    BY <1>1 DEF TypeOK
  <2>2. Chunks({}) = {}
    BY DEF Chunks
  <2> QED
    BY <1>4, <1>5, <2>1, <2>2 DEF FreeInstr, lists
<1>7. cursor \notin lost
  BY <1>1, <1>3 DEF ContentInv, All
<1>8. TypeOK'
  <2>1. next' \in [Addrs -> Pointers] /\ flagged' \in [Addrs -> BOOLEAN] /\ cursor' \in Pointers
    BY <1>1, <1>3, <1>6 DEF TypeOK, Pointers
  <2> QED
    BY <1>1, <1>6, <2>1 DEF TypeOK
<1>9. WildOnlyOnceFreed' /\ WalkInv' /\ ContentInv'
  BY <1>1, <1>6, <1>7 DEF IInv, WildOnlyOnceFreed, WalkInv, ContentInv, Separate, All
<1>10. ChainsInv'
  <2>1. ASSUME NEW m \in sound, m # job
        PROVE  Chained(content[m], head[m], tail[m], next')
    <3>1. m \in Steplists /\ Chained(content[m], head[m], tail[m], next)
      BY <1>1, <2>1 DEF IInv, ChainsInv, BeingFreed, TypeOK
    <3>2. ASSUME NEW i \in 1 .. Len(content[m]) PROVE next'[content[m][i]] = next[content[m][i]]
      <4>1. content[m][i] \in Addrs
        BY <3>1, <1>1, ContentFacts
      <4>2. content[m][i] # cursor
        BY <1>1, <1>3, <2>1, <3>1 DEF ContentInv, Separate
      <4> QED
        BY <1>1, <1>6, <4>1, <4>2 DEF TypeOK
    <3> QED
      BY <3>1, <3>2 DEF Chained
  <2> QED
    BY <1>1, <1>6, <2>1 DEF IInv, ChainsInv, BeingFreed
<1>11. LiveInv'
  <2>1. k + 1 \in 1 .. Len(c) + 1 /\ cursor' = From(c, k + 1)
    BY <1>1, <1>3, <1>6
  <2>2. Held(content, job, k + 1) = Held(content, job, k) \ {cursor}
    <3>1. ASSUME NEW y \in Held(content, job, k + 1)
          PROVE  y \in Held(content, job, k) /\ y # cursor
      <4>1. PICK m \in Steplists : \E i \in 1 .. Len(content[m]) :
              y = content[m][i] /\ (m = job => i >= k + 1)
        BY DEF Held
      <4>2. PICK i \in 1 .. Len(content[m]) : y = content[m][i] /\ (m = job => i >= k + 1)
        BY <4>1
      <4>3. y # cursor
        BY <1>1, <1>3, <4>2 DEF ContentInv, Separate
      <4>4. m = job => i >= k
        BY <1>3, <4>2
      <4> QED
        BY <4>2, <4>3, <4>4 DEF Held
    <3>2. ASSUME NEW y \in Held(content, job, k), y # cursor
          PROVE  y \in Held(content, job, k + 1)
      <4>1. PICK m \in Steplists : \E i \in 1 .. Len(content[m]) :
              y = content[m][i] /\ (m = job => i >= k)
        BY DEF Held
      <4>2. PICK i \in 1 .. Len(content[m]) : y = content[m][i] /\ (m = job => i >= k)
        BY <4>1
      <4>3. m = job => i >= k + 1
        BY <1>3, <3>2, <4>2
      <4> QED
        BY <4>2, <4>3 DEF Held
    <3> QED
      BY <3>1, <3>2
  <2>3. live' = Held(content, job, k + 1) \cup lost'
    BY <1>2, <1>6, <2>2 DEF FreedUpTo
  <2>4. \A i \in k + 1 .. Len(c) : next'[c[i]] = From(c, i + 1)
    <3> TAKE i \in k + 1 .. Len(c)
    <3>1. i \in 1 .. Len(c) /\ i \in k .. Len(c) /\ i # k
      BY <1>1, <1>3
    <3>2. c[i] # cursor
      BY <1>1, <1>3, <3>1 DEF ContentInv, Separate
    <3>3. next'[c[i]] = next[c[i]]
      BY <1>1, <1>6, <3>1, <3>2 DEF TypeOK
    <3> QED
      BY <1>2, <3>1, <3>3 DEF FreedUpTo
  <2>5. FreedUpTo(k + 1)'
    BY <1>6, <2>1, <2>3, <2>4 DEF FreedUpTo
  <2>6. lost' \subseteq live'
    BY <1>1, <1>6
  <2> QED
    BY <1>1, <1>6, <2>1, <2>5, <2>6 DEF LiveInv, BeingFreed
<1> QED
  BY <1>8, <1>9, <1>10, <1>11 DEF IInv

LEMMA FreeInstrStep ==
  ASSUME IInv, FreeInstr
  PROVE  IInv'
<1> DEFINE x == cursor
           S == {}
           T == {cursor}
<1>1. TypeOK /\ ContentInv /\ job \in Steplists /\ pc = "free" /\ live \subseteq Addrs
  BY DEF IInv, TypeOK, FreeInstr
<1>2. CASE job \in sound
  BY <1>2, FreeInstrSound
<1>3. CASE job \notin sound /\ cursor \notin live
  BY <1>1, <1>3, WildStep DEF FreeInstr
<1>4. CASE job \notin sound /\ cursor \in live
  <2>1. /\ live' = live \ {cursor} /\ next' = [next EXCEPT ![cursor] = NULL]
        /\ flagged' = [flagged EXCEPT ![cursor] = FALSE] /\ cursor' = next[cursor]
        /\ sound' = sound \ Touched(job, cursor) /\ content' = Left(job, cursor)
        /\ lost' = (lost \cup Chunks(Touched(job, cursor))) \ {cursor}
        /\ UNCHANGED <<head, tail, done, pc, job, issued>>
    BY <1>4 DEF FreeInstr, lists, Left
  <2>2. T \cap All(Left(job, x)) = {}
    <3>1. Left(job, x)[job] = <<>> /\ Len(<<>>) = 0
      BY <1>1, <1>4, LeftFacts DEF ContentInv
    <3>2. \A m \in Steplists : \A i \in 1 .. Len(Left(job, x)[m]) : Left(job, x)[m][i] # x
      BY <1>1, <3>1, LeftFacts
    <3> QED
      BY <3>2 DEF All
  <2>3. /\ S \in SUBSET Addrs /\ S \cap live = {} /\ T \subseteq {x}
        /\ pc = "free" => job = job /\ job \notin sound
        /\ live' = (live \cup S) \ T /\ lost' = (lost \cup S \cup Chunks(Touched(job, x))) \ T
    BY <1>4, <2>1
  <2>4. sound' = sound \ Touched(job, x) /\ content' = Left(job, x)
    BY <2>1
  <2>5. next' \in [Addrs -> Pointers] /\ flagged' \in [Addrs -> BOOLEAN] /\ cursor' \in Pointers
        /\ \A y \in live : y # x => next'[y] = next[y]
    BY <1>1, <1>4, <2>1 DEF TypeOK, Pointers
  <2> HIDE DEF S, T, x
  <2>6. /\ sound' \subseteq Steplists /\ content' \in [Steplists -> Seq(Addrs)]
        /\ lost' \subseteq Addrs /\ live' \subseteq Addrs
        /\ ContentInv' /\ lost' \subseteq live' /\ live' = All(content') \cup lost'
    BY <1>1, <2>2, <2>3, <2>4, HarmStep
  <2>7. TypeOK'
    BY <1>1, <2>1, <2>5, <2>6 DEF TypeOK
  <2>8. ChainsInv'
    BY <1>1, <1>4, <2>1, <2>4, <2>5, HarmChains
  <2>9. WildOnlyOnceFreed' /\ WalkInv' /\ LiveInv'
    BY <1>1, <1>4, <2>1, <2>6 DEF WildOnlyOnceFreed, WalkInv, LiveInv, BeingFreed
  <2> QED
    BY <2>6, <2>7, <2>8, <2>9 DEF IInv
<1> QED
  BY <1>2, <1>3, <1>4

LEMMA FreedStep ==
  ASSUME IInv, Freed
  PROVE  IInv'
<1> DEFINE c == content[job]
<1>1. /\ TypeOK /\ ContentInv /\ job \in Steplists /\ pc = "free" /\ cursor = NULL
      /\ Len(c) \in Nat /\ \A i \in 1 .. Len(c) : c[i] \in Addrs
  BY ContentFacts DEF IInv, TypeOK, Freed
<1>2. /\ content' = [content EXCEPT ![job] = <<>>] /\ pc' = "idle"
      /\ sound' = (IF head[job] = NULL THEN sound ELSE sound \ {job})
      /\ UNCHANGED <<live, next, flagged, head, tail, cursor, done, job, lost, issued>>
  BY DEF Freed, heap, lists, walk
<1>3. /\ content' \in [Steplists -> Seq(Addrs)] /\ content'[job] = <<>>
      /\ \A m \in Steplists \ {job} : content'[m] = content[m]
  <2>1. <<>> \in Seq(Addrs)
    OBVIOUS
  <2> QED
    BY <1>1, <1>2, <2>1 DEF TypeOK
<1>4. \A m \in Steplists : \A i \in 1 .. Len(content'[m]) :
        m # job /\ i \in 1 .. Len(content[m]) /\ content'[m][i] = content[m][i]
  <2>1. Len(<<>>) = 0
    OBVIOUS
  <2> QED
    BY <1>3, <2>1
<1>5. TypeOK'
  BY <1>1, <1>2, <1>3 DEF TypeOK
<1>6. ContentInv'
  <2>1. Separate(content')
    <3> SUFFICES ASSUME NEW m \in Steplists, NEW k \in Steplists,
                        NEW i \in 1 .. Len(content'[m]), NEW j \in 1 .. Len(content'[k]),
                        content'[m][i] = content'[k][j]
                 PROVE  m = k /\ i = j
      BY DEF Separate
    <3> QED
      BY <1>1, <1>4 DEF ContentInv, Separate
  <2>2. All(content') \cap lost' = {}
    BY <1>1, <1>2, <1>4 DEF ContentInv, All
  <2>3. \A m \in Steplists \ sound' : content'[m] = <<>>
    BY <1>1, <1>2, <1>3 DEF ContentInv
  <2> QED
    BY <2>1, <2>2, <2>3 DEF ContentInv
<1>7. ChainsInv'
  <2> SUFFICES ASSUME NEW m \in sound'
               PROVE  /\ content'[m] = <<>> <=> head'[m] = NULL
                      /\ Chained(content'[m], head'[m], tail'[m], next')
    BY DEF ChainsInv
  <2>1. m \in sound /\ m \in Steplists
    BY <1>1, <1>2 DEF TypeOK
  <2>2. CASE m = job
    BY <1>2, <1>3, <2>2 DEF Chained
  <2>3. CASE m # job
    BY <1>1, <1>2, <1>3, <2>1, <2>3 DEF IInv, ChainsInv, BeingFreed
  <2> QED
    BY <2>2, <2>3
<1>8. LiveInv'
  <2>1. live = All(content') \cup lost /\ lost \subseteq live
    <3>1. CASE job \in sound
      <4>1. PICK k \in 1 .. Len(c) + 1 : FreedUpTo(k)
        BY <1>1, <3>1 DEF IInv, LiveInv, BeingFreed
      <4>2. k = Len(c) + 1
        BY <1>1, <4>1, SteplistAssumption DEF FreedUpTo, From
      <4>3. \A i \in 1 .. Len(c) : ~ i >= k
        BY <1>1, <4>2
      <4>4. Held(content, job, k) = All(content')
        <5>1. ASSUME NEW y \in Held(content, job, k) PROVE y \in All(content')
          <6>1. PICK m \in Steplists : y \in Addrs /\ \E i \in 1 .. Len(content[m]) :
                  y = content[m][i] /\ (m = job => i >= k)
            BY DEF Held
          <6>2. m # job
            BY <4>3, <6>1
          <6> QED
            BY <1>3, <6>1, <6>2 DEF All
        <5>2. ASSUME NEW y \in All(content') PROVE y \in Held(content, job, k)
          BY <1>4 DEF All, Held
        <5> QED
          BY <5>1, <5>2
      <4> QED
        BY <4>1, <4>4 DEF IInv, LiveInv, FreedUpTo
    <3>2. CASE job \notin sound
      <4>1. c = <<>>
        BY <1>1, <3>2 DEF ContentInv
      <4>2. content' = content
        BY <1>1, <1>2, <4>1 DEF TypeOK
      <4> QED
        BY <3>2, <4>2 DEF IInv, LiveInv
    <3> QED
      BY <3>1, <3>2
  <2> QED
    BY <1>2, <2>1 DEF LiveInv, BeingFreed
<1>9. WildOnlyOnceFreed' /\ WalkInv'
  BY <1>2 DEF WildOnlyOnceFreed, WalkInv
<1> QED
  BY <1>5, <1>6, <1>7, <1>8, <1>9 DEF IInv
-----------------------------------------------------------------------------
LEMMA StepInv == IInv /\ [Next]_vars => IInv'
<1> SUFFICES ASSUME IInv, [Next]_vars PROVE IInv'
  OBVIOUS
<1>1. CASE UNCHANGED vars
  <2>1. UNCHANGED <<live, next, flagged, head, tail, content, sound, lost,
                    cursor, done, job, issued, pc>>
    BY <1>1 DEF vars, heap, lists, walk, history
  <2>2. TypeOK' /\ WildOnlyOnceFreed' /\ WalkInv'
    BY <2>1 DEF IInv, TypeOK, WildOnlyOnceFreed, WalkInv
  <2>3. ContentInv' /\ ChainsInv'
    BY <2>1 DEF IInv, ContentInv, Separate, All, ChainsInv, BeingFreed
  <2>4. LiveInv'
    <3>1. \A k : FreedUpTo(k)' <=> FreedUpTo(k)
      BY <2>1 DEF FreedUpTo, Held
    <3> QED
      BY <2>1, <3>1 DEF IInv, LiveInv, All, BeingFreed
  <2> QED
    BY <2>2, <2>3, <2>4 DEF IInv
<1>2. CASE Stop
  BY <1>1, <1>2 DEF Stop
<1>3. CASE LinkDelay \/ \E l \in Steplists : LinkOnce(l) \/ LinkTwice(l)
  BY <1>3, LinkSteps
<1>4. ASSUME NEW l \in Steplists, Schedule(l) PROVE IInv'
  BY <1>4, ScheduleStep
<1>5. ASSUME NEW l \in Steplists, FreeSteplist(l) PROVE IInv'
  BY <1>5, FreeSteplistStep
<1>6. CASE Keep \/ DelayAborts
  BY <1>6, MoveStep
<1>7. CASE HostLoop
  BY <1>7, IssueStep, MoveStep, FreeInstrStep, FreedStep DEF HostLoop
<1> QED
  BY <1>1, <1>2, <1>3, <1>4, <1>5, <1>6, <1>7 DEF Next

THEOREM Inductive == Spec => []IInv
BY InitInv, StepInv, PTL DEF Spec

(* The state keeps its types.                                              *)
THEOREM TypeCorrect == Spec => []TypeOK
<1>1. IInv => TypeOK
  BY DEF IInv
<1> QED
  BY <1>1, Inductive, PTL

(* However the lists are linked, scheduled, extended, freed and used after *)
(* their free, the host runs wild only on a list that was freed, or that a *)
(* freed one has got at (Cam8::link, schedule_list, ExecuteSteplist,       *)
(* free_steplist).                                                         *)
THEOREM TouchesItsOwn == Spec => []WildOnlyOnceFreed
<1>1. IInv => WildOnlyOnceFreed
  BY DEF IInv
<1> QED
  BY <1>1, Inductive, PTL

(* A sound list is the chain of what was linked to it, whatever is done    *)
(* with the other lists, those used after their free among them            *)
(* (Cam8Steplist::link).                                                   *)
THEOREM Chains == Spec => []ChainInv
<1>1. ASSUME IInv PROVE ChainInv
  <2> SUFFICES ASSUME NEW l \in sound, ~ BeingFreed(l), content[l] # <<>>,
                      NEW i \in 1 .. Len(content[l])
               PROVE  next[content[l][i]] = IF i = Len(content[l]) THEN NULL ELSE content[l][i + 1]
    BY <1>1 DEF IInv, ChainsInv, Chained, ChainInv
  <2>1. next[content[l][i]] = From(content[l], i + 1)
    BY <1>1 DEF IInv, ChainsInv, Chained
  <2>2. Len(content[l]) \in Nat
    BY <1>1, ContentFacts DEF IInv, TypeOK
  <2> QED
    BY <2>1, <2>2 DEF From
<1> QED
  BY <1>1, Inductive, PTL

(* Every allocated chunk is in exactly one sound list or lost, and a sound *)
(* list is allocated until it is itself being freed (fname(sl, ...),       *)
(* free_steplist).                                                         *)
THEOREM Ownership == Spec => []OwnershipInv
<1>1. ASSUME IInv PROVE OwnershipInv
  <2>1. /\ TypeOK /\ ContentInv /\ sound \subseteq Steplists /\ job \in Steplists
        /\ \A l \in Steplists : /\ DOMAIN content[l] = 1 .. Len(content[l])
                                /\ \A i \in 1 .. Len(content[l]) : content[l][i] \in Addrs
                                /\ Len(content[l]) \in Nat
        /\ \A l \in Steplists \ sound : content[l] = <<>>
    BY <1>1, ContentFacts DEF IInv, TypeOK, ContentInv
  <2>2. All(content) = Chunks(sound)
    <3>1. Len(<<>>) = 0
      OBVIOUS
    <3>2. ASSUME NEW y \in All(content) PROVE y \in Chunks(sound)
      <4>1. PICK l \in Steplists : \E i \in 1 .. Len(content[l]) : y = content[l][i]
        BY DEF All
      <4>2. l \in sound
        BY <2>1, <3>1, <4>1
      <4> QED
        BY <2>1, <4>1, <4>2 DEF Chunks, Range
    <3>3. Chunks(sound) \subseteq All(content)
      BY <2>1 DEF All, Chunks, Range
    <3> QED
      BY <3>2, <3>3
  <2>3. live \subseteq lost \cup Chunks(sound) /\ lost \subseteq live
    <3>1. \A k : Held(content, job, k) \subseteq All(content)
      BY DEF Held, All
    <3> QED
      BY <1>1, <2>2, <3>1 DEF IInv, LiveInv, FreedUpTo
  <2>4. ASSUME NEW l \in sound, ~ BeingFreed(l)
        PROVE  Range(content[l]) \subseteq live
    <3> SUFFICES ASSUME NEW i \in 1 .. Len(content[l]) PROVE content[l][i] \in live
      BY <2>1 DEF Range
    <3>1. CASE BeingFreed(job) /\ job \in sound
      <4>1. PICK k : live = Held(content, job, k) \cup lost
        BY <1>1, <3>1 DEF IInv, LiveInv, FreedUpTo
      <4>2. l # job
        BY <2>4, <3>1 DEF BeingFreed
      <4> QED
        BY <2>1, <4>1, <4>2 DEF Held
    <3>2. CASE ~ (BeingFreed(job) /\ job \in sound)
      BY <1>1, <2>1, <3>2 DEF IInv, LiveInv, All
    <3> QED
      BY <3>1, <3>2
  <2>5. ASSUME NEW l \in sound
        PROVE  /\ Range(content[l]) \cap lost = {}
               /\ \A m \in sound \ {l} : Range(content[l]) \cap Range(content[m]) = {}
    <3>1. Range(content[l]) \cap lost = {}
      BY <2>1 DEF ContentInv, All, Range
    <3>2. \A m \in sound \ {l} : Range(content[l]) \cap Range(content[m]) = {}
      BY <2>1 DEF ContentInv, Separate, Range
    <3> QED
      BY <3>1, <3>2
  <2> QED
    BY <2>3, <2>4, <2>5 DEF OwnershipInv
<1> QED
  BY <1>1, Inductive, PTL

(* What is issued of a sound list is a prefix of it, and the whole list    *)
(* where it was not extended after it was flagged (ExecuteSteplist).       *)
THEOREM IssuesWhole == Spec => []IssuedWhole
<1>1. ASSUME IInv PROVE IssuedWhole
  <2> DEFINE c == content[job]
             n == Len(issued)
  <2> SUFFICES ASSUME pc = "scheduled", job \in sound
               PROVE  /\ IsPrefix(issued, c)
                      /\ issued # <<>> /\ (\A i \in 1 .. Len(c) - 1 : ~ flagged[c[i]])
                           => issued = c
    BY DEF IssuedWhole
  <2>1. /\ issued \in Seq(Addrs) /\ c \in Seq(Addrs) /\ n \in Nat /\ Len(c) \in Nat
        /\ n <= Len(c) /\ \A i \in 1 .. n : issued[i] = c[i]
        /\ n > 0 => flagged[c[n]]
    BY <1>1 DEF IInv, TypeOK, WalkInv
  <2>2. IsPrefix(issued, c)
    <3>1. \A i \in 1 .. n : i \in 1 .. Len(c)
      BY <2>1
    <3>2. SubSeq(issued, 1, n) = [i \in 1 .. n |-> issued[i]]
          /\ SubSeq(c, 1, n) = [i \in 1 .. n |-> c[i]]
      BY <2>1
    <3>3. [i \in 1 .. n |-> issued[i]] = [i \in 1 .. n |-> c[i]]
      BY <2>1
    <3> QED
      BY <2>1, <3>2, <3>3 DEF IsPrefix
  <2>3. ASSUME issued # <<>>, \A i \in 1 .. Len(c) - 1 : ~ flagged[c[i]]
        PROVE  issued = c
    <3>1. n > 0
      BY <2>1, <2>3
    <3>2. n = Len(c)
      BY <2>1, <2>3, <3>1
    <3> QED
      BY <2>1, <3>2, SeqEqual
  <2> QED
    BY <2>2, <2>3
<1> QED
  BY <1>1, Inductive, PTL
=============================================================================
