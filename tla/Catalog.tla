------------------------------- MODULE Catalog -------------------------------
(***************************************************************************)
(* The tree of categories that administrators edit, and who refers to it:  *)
(* the specializations of a professional and the service requests.         *)
(*                                                                         *)
(* A move is checked in one step and written in another.  What the other   *)
(* handlers check, the schema enforces again as they write (unique names,  *)
(* foreign keys with onDelete: Restrict): each is one step.                *)
(* The listing is ordered by displayOrder and then by name, which is       *)
(* unique: the pair is the rank of a category.                             *)
(***************************************************************************)
EXTENDS Naturals, Sequences, FiniteSets

CONSTANTS Categories,  \* ids of Category rows, in creation order
          Ranks,       \* pairs of displayOrder and name, in their order
          Jobs,        \* ids of ServiceRequest rows
          Movers,      \* moves that can be in flight at once
          Nothing, Keep \* no parent; a field the patch does not name

ASSUME CatalogAssumption ==
  /\ Categories \subseteq Nat \ {0} /\ IsFiniteSet(Categories)
  /\ Ranks \subseteq Nat
  /\ {Nothing, Keep} \cap (Categories \cup Ranks) = {}

VARIABLES category,     \* the Category rows
          specialized,  \* the categories of the professional's specializations
          job,          \* the category of each ServiceRequest
          moving        \* the moves in flight

catalogVars == <<category, specialized, job, moving>>

Parents == Categories \cup {Nothing}
CategoryRow == [status : {"NONE", "LIVE", "DELETED"}, rank : Ranks \cup {Nothing}, parentId : Parents]
NoCategory == [status |-> "NONE", rank |-> Nothing, parentId |-> Nothing]

\* What a move carries: the category, its new parent, and whether another move
\* came after its reads.
MovePcs == {"idle", "move"}
MoveRequest == [pc : MovePcs, c : Parents, parentId : Parents, overtaken : BOOLEAN]
NoMove == [pc |-> "idle", c |-> Nothing, parentId |-> Nothing, overtaken |-> FALSE]

\* The types of the rows and of what moves carry.
CatalogTypeOK ==
  /\ category \in [Categories -> CategoryRow]
  /\ specialized \subseteq Categories
  /\ job \in [Jobs -> Parents]
  /\ moving \in [Movers -> MoveRequest]

------------------------------------------------------------------------------
(* The tree                                                                *)

LiveCategories == {c \in Categories : category[c].status = "LIVE"}
Children(p) == {c \in LiveCategories : category[c].parentId = p}

\* orderBy displayOrder, then name; the variant is the order of creation.
Older(c, d) == c < d
Before(c, d) == category[c].rank < category[d].rank
First(S) == CHOOSE c \in S : \A d \in S \ {c} : Before(c, d)

\* groupByParentId and the visit of sortCategoriesInTreeOrder: a category, and
\* all below it, before its next sibling.  From the roots down there is no
\* path longer than there are categories.
Visit[at \in Nat \X SUBSET LiveCategories] ==
  LET depth == at[1]
      siblings == at[2]
  IN  IF depth = 0 \/ siblings = {} THEN << >>
      ELSE LET c == First(siblings)
           IN  <<c>> \o Visit[<<depth - 1, Children(c)>>] \o Visit[<<depth, siblings \ {c}>>]
Listing == Visit[<<Cardinality(Categories), Children(Nothing)>>]
Listed == LET listing == Listing IN {listing[i] : i \in 1..Len(listing)}

\* findDescendantCategoryIds: breadth first from the categories given, one
\* level further each time; the variant goes one level down only.
Widen(S) == S \cup UNION {Children(c) : c \in S}
Descendants(S) ==
  LET visited[n \in Nat] == IF n = 0 THEN S ELSE Widen(visited[n - 1])
  IN  visited[Cardinality(Categories)]

------------------------------------------------------------------------------
(* Helpers                                                                 *)

FinishMove(r) == moving' = [moving EXCEPT ![r] = NoMove]
RankFree(k, c) == \A d \in LiveCategories \ {c} : category[d].rank # k
IsNext(c) == category[c].status = "NONE" /\ \A d \in Categories : d < c => category[d].status # "NONE"
InUse(c) == Children(c) # {} \/ c \in specialized \/ \E j \in Jobs : job[j] = c

\* A field of the patch that is absent keeps its column.
Patch(old, new) == IF new = Keep THEN old ELSE new

CatalogInit == /\ category = [c \in Categories |-> NoCategory]
               /\ specialized = {}
               /\ job = [j \in Jobs |-> Nothing]
               /\ moving = [r \in Movers |-> NoMove]

------------------------------------------------------------------------------
(* Administrators                                                          *)

CreateCategory(c, k, p) ==
  /\ IsNext(c)
  /\ RankFree(k, Nothing)
  /\ p \in LiveCategories \cup {Nothing}
  /\ category' = [category EXCEPT ![c] = [status |-> "LIVE", rank |-> k, parentId |-> p]]
  /\ UNCHANGED <<specialized, job, moving>>

\* The new parent exists and is not below the category; the variant asks only
\* that it is another one.
AnotherCategory(c, p) == p \in LiveCategories /\ p # c
MoveAllowed(c, p) == p \in LiveCategories /\ p # c /\ p \notin Descendants({c})

\* updateCategory, of the rank only.
UpdateInPlace(c, k) ==
  /\ c \in LiveCategories
  /\ k # category[c].rank
  /\ RankFree(k, c)
  /\ category' = [category EXCEPT ![c].rank = k]
  /\ UNCHANGED <<specialized, job, moving>>

\* updateCategory, with a new parent.
ReadForMove(r, c, p) ==
  /\ moving[r].pc = "idle"
  /\ c \in LiveCategories
  /\ p # category[c].parentId
  /\ p # Nothing => MoveAllowed(c, p)
  /\ moving' = [moving EXCEPT ![r] = [pc |-> "move", c |-> c, parentId |-> p, overtaken |-> FALSE]]
  /\ UNCHANGED <<category, specialized, job>>

\* The transaction looks at nothing again but what the schema enforces.  A rank
\* in the same patch is chosen here: what was checked of it is checked again.
Move(r, k) ==
  LET c == moving[r].c IN
  /\ moving[r].pc = "move"
  /\ c \in LiveCategories
  /\ k # Keep => RankFree(k, c)
  /\ moving[r].parentId \in LiveCategories \cup {Nothing}
  /\ category' = [category EXCEPT ![c].rank = Patch(@, k), ![c].parentId = moving[r].parentId]
  /\ moving' = [s \in Movers |-> IF s = r THEN NoMove
                                 ELSE [moving[s] EXCEPT !.overtaken = @ \/ moving[s].pc = "move"]]
  /\ UNCHANGED <<specialized, job>>

DeleteCategory(c) ==
  /\ c \in LiveCategories
  /\ ~ InUse(c)
  /\ category' = [category EXCEPT ![c] = [NoCategory EXCEPT !.status = "DELETED"]]
  /\ UNCHANGED <<specialized, job, moving>>

------------------------------------------------------------------------------
(* Professionals and customers                                             *)

\* The whole set is replaced.
ReplaceSpecializations(S) ==
  /\ S # {} /\ S \subseteq LiveCategories
  /\ specialized' = S
  /\ UNCHANGED <<category, job, moving>>

Publish(j, c) ==
  /\ job[j] = Nothing
  /\ c \in LiveCategories
  /\ job' = [job EXCEPT ![j] = c]
  /\ UNCHANGED <<category, specialized, moving>>

\* listCompatibleServiceRequests; nothing without a specialization.
Compatible == LET seen == Descendants(specialized) IN {j \in Jobs : job[j] \in seen}

\* The write was refused, or the process died.
GiveUpMove(r) ==
  /\ moving[r].pc # "idle"
  /\ FinishMove(r)
  /\ UNCHANGED <<category, specialized, job>>

CatalogNext ==
  \/ \E r \in Movers :
       \/ \E c \in Categories, p \in Parents : ReadForMove(r, c, p)
       \/ \E k \in Ranks \cup {Keep} : Move(r, k)
       \/ GiveUpMove(r)
  \/ \E c \in Categories, k \in Ranks : UpdateInPlace(c, k) \/ \E p \in Parents : CreateCategory(c, k, p)
  \/ \E c \in Categories : DeleteCategory(c) \/ \E j \in Jobs : Publish(j, c)
  \/ \E S \in SUBSET Categories : ReplaceSpecializations(S)

CatalogSpec == CatalogInit /\ [][CatalogNext]_catalogVars

------------------------------------------------------------------------------
(* Properties                                                              *)

\* The listing that every flat consumer of the catalog shares reads as a tree
\* (sortCategoriesInTreeOrder): no category twice, each one after its parent
\* with only categories of the same branch in between, siblings in their order.
ListingIsATree ==
  LET listing == Listing
      Parent(i) == category[listing[i]].parentId
  IN
  \A i \in 1..Len(listing) :
    /\ \A j \in 1..Len(listing) : i < j =>
         /\ listing[i] # listing[j]
         /\ Parent(i) = Parent(j) => category[listing[i]].rank < category[listing[j]].rank
    /\ Parent(i) # Nothing => \E k \in 1..(i - 1) :
         /\ listing[k] = Parent(i)
         /\ \A j \in (k + 1)..i : Parent(j) \in {listing[h] : h \in k..(j - 1)}

\* A professional sees the requests of the categories he chose and of all below
\* them, and no others, also while moves have closed a cycle: the search finds
\* the least set that holds the chosen ones and the children of its members
\* (findDescendantCategoryIds).
Closed(S) == \A c \in S : Children(c) \subseteq S
CompatibleIsTheSubtree ==
  Compatible = {j \in Jobs : /\ job[j] # Nothing
                             /\ \A S \in SUBSET LiveCategories :
                                  specialized \subseteq S /\ Closed(S) => job[j] \in S}

\* Only a move that another move overtook between its check and its write can
\* take categories off the listing (updateCategory checks for a cycle before
\* its transaction).
UndisturbedEdit == /\ category' # category /\ LiveCategories = Listed
                   /\ \A r \in Movers : moving[r].overtaken => moving'[r] = moving[r]
OnlyARaceHides == [][UndisturbedEdit => (LiveCategories = Listed)']_catalogVars
=============================================================================
