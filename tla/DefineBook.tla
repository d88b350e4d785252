----------------------------- MODULE DefineBook -----------------------------
(***************************************************************************)
(* What the table of C #defines promises, without hashing, chains or file  *)
(* formats: a book gives names their values.  A builder drafts one, puts a *)
(* copy on its shelf, and publishes a copy of that.  A copy may have lost  *)
(* names, and in at most one place it may read 0 for a value, but what it  *)
(* holds for a name is never the value of another.                         *)
(*                                                                         *)
(* A reader is told what the published book holds for a name.  The book    *)
(* keeps no names apart that are alike: asked for one it does not hold, it *)
(* may take the only one like it for an answer, or lose the reader.        *)
(***************************************************************************)
EXTENDS Naturals

CONSTANTS
  Names,    (* what can be looked up                                       *)
  Values,   (* what a name may stand for                                   *)
  None,     (* the name is not in the book                                 *)
  Lost,     (* the reader does not return                                  *)
  Alike     (* the pairs of names that may be taken for one another        *)

VARIABLES
  draft, shelf, published,
  told      (* what is answered for each name                              *)

bookVars == <<draft, shelf, published, told>>

Book == [Names -> Values \cup {None}]
Blank == [n \in Names |-> None]

(* A name keeps the first value it was given.                              *)
Collected(book, n, v) == IF book[n] = None THEN [book EXCEPT ![n] = v] ELSE book

IsCopy(copy, book) ==
  /\ copy \in Book
  /\ \E smudged \in Names : \A n \in Names :
       \/ copy[n] \in {book[n], None}
       \/ n = smudged /\ book[n] # None /\ copy[n] = 0

(* What may be answered from a book.                                       *)
Holding(book, n) == {m \in Names : <<n, m>> \in Alike /\ book[m] # None}

Answers(said, book) ==
  /\ said \in [Names -> Values \cup {None, Lost}]
  /\ \A n \in Names :
       \/ book[n] # None /\ said[n] = book[n]
       \/ book[n] = None /\ said[n] = None
       \/ book[n] = None /\ said[n] = Lost /\ Holding(book, n) # {}
       \/ /\ book[n] = None
          /\ \E m \in Names : Holding(book, n) = {m} /\ said[n] = book[m]
  /\ \A m, n \in Names :
       /\ (<<m, n>> \in Alike /\ book[m] = None /\ book[n] = None) => said[m] = said[n]
       /\ (said[m] = Lost /\ said[n] = Lost) => <<m, n>> \in Alike

Init == draft = Blank /\ shelf = Blank /\ published = Blank /\ told = Blank

StartOver == draft' = Blank /\ shelf' = Blank /\ UNCHANGED <<published, told>>

(* The draft is continued, or begun from what is published.                *)
Collect ==
  /\ \E from \in {draft, published}, to \in {draft'} :
       \E n \in Names, v \in Values : to = Collected(from, n, v)
  /\ UNCHANGED <<shelf, published, told>>

(* The builder's copy is the file it leaves; its own memory is gone.       *)
Shelve == IsCopy(shelf', draft) /\ draft' = Blank /\ UNCHANGED <<published, told>>

Withdraw ==
  published' = Blank /\ Answers(told', published') /\ UNCHANGED <<draft, shelf>>

Publish ==
  /\ IsCopy(published', shelf) /\ Answers(told', published')
  /\ UNCHANGED <<draft, shelf>>

Next == StartOver \/ Collect \/ Shelve \/ Withdraw \/ Publish

Spec == Init /\ [][Next]_bookVars
=============================================================================
