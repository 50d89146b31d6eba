------------------------------ MODULE Categories -----------------------------
(***************************************************************************)
(* The category tree administrators edit and the copy of it that a process *)
(* keeps for visitors.  A request reads what it checks, then writes, then  *)
(* drops the copy.                                                         *)
(***************************************************************************)
EXTENDS Integers, Sequences

CONSTANTS
  Cats, NoCat,
  Admins,            \* requests of administrators
  Planted,           \* a chain of categories, the root first, the tree starts with
  MaxDepth,          \* MAX_CATEGORY_DEPTH
  MaxEdits           \* bound on the edits of a behaviour

ASSUME CategoriesAssumption ==
  NoCat \notin Cats /\ Planted \in Seq(Cats) /\ MaxDepth \in Nat \ {0} /\ MaxEdits \in Nat

VARIABLES
  cat,               \* rows of categories
  edit,              \* what each administrator's request is doing
  edits,             \* edits begun
  visit,             \* a getTree() between its read and its assignment
  treeCache          \* treeCache, dropped by an edit or by its time to live

categoriesVars == <<cat, edit, edits, visit, treeCache>>

Cat == [ state : {"new", "live", "removed"}, parent : Cats \cup {NoCat},
         depth : Int, active : BOOLEAN ]
NewCat == [ state |-> "new", parent |-> NoCat, depth |-> 0, active |-> TRUE ]
Edit == [ op : {"none", "create", "reparent", "toggle", "remove"},
          step : {"idle", "begun", "checked", "written"},
          of : Cats \cup {NoCat}, to : Cats \cup {NoCat},
          was : Int, depth : Int,      \* current.depth as read, the depth to write
          raced : BOOLEAN ]            \* another edit was written since it began
NoEdit == [ op |-> "none", step |-> "idle", of |-> NoCat, to |-> NoCat,
            was |-> 0, depth |-> 0, raced |-> FALSE ]
Copy == [ filled : BOOLEAN, tree : SUBSET Cats, raced : BOOLEAN ]  \* an edit came after its read
NoCopy == [ filled |-> FALSE, tree |-> {}, raced |-> FALSE ]

Live(c)     == c \in Cats /\ cat[c].state = "live"
Shown(c)    == Live(c) /\ cat[c].active
Children(c) == { d \in Cats : Live(d) /\ cat[d].parent = c }

\* A category lies one below its parent; a tree no two edits have raced on is sound.
Placed(c) ==
  /\ cat[c].depth \in 1 .. MaxDepth
  /\ IF cat[c].parent = NoCat THEN cat[c].depth = 1
     ELSE Live(cat[c].parent) /\ cat[c].depth = cat[cat[c].parent].depth + 1
Sound == \A c \in Cats : Live(c) => Placed(c)

InitCategories ==
  /\ cat = [c \in Cats |->
       IF \E i \in DOMAIN Planted : Planted[i] = c
       THEN LET i == CHOOSE j \in DOMAIN Planted : Planted[j] = c
            IN  [ NewCat EXCEPT !.state = "live", !.depth = i,
                                !.parent = IF i = 1 THEN NoCat ELSE Planted[i - 1] ]
       ELSE NewCat]
  /\ edit = [a \in Admins |-> NoEdit]
  /\ edits = 0
  /\ visit = NoCopy
  /\ treeCache = NoCopy

-----------------------------------------------------------------------------
\* assertNotDescendant: the chain of parents, from c up.
Parents(some) == { cat[d].parent : d \in { b \in some : Live(b) } }
Up(c) ==
  LET up[n \in 0 .. MaxDepth] == IF n = 0 THEN {c} ELSE Parents(up[n - 1])
  IN  up
Above(c) == UNION { Up(c)[n] : n \in 0 .. MaxDepth }

\* subtreeMaxDepth, less the depth it starts from, and what shiftSubtreeDepth walks.
Offspring(some) == UNION { Children(d) : d \in some }
Down(c) ==
  LET down[n \in 0 .. MaxDepth] == IF n = 0 THEN {c} ELSE Offspring(down[n - 1])
  IN  down
Height(c) ==
  CHOOSE n \in 0 .. MaxDepth :
    Down(c)[n] # {} /\ \A m \in n + 1 .. MaxDepth : Down(c)[m] = {}

DepthUnder(c) == IF c = NoCat THEN 1 ELSE cat[c].depth + 1

RootFits(e) == DepthUnder(e.to) <= MaxDepth    \* mutant: the subtree is not looked at
Fits(e) == e.was + Height(e.of) + (DepthUnder(e.to) - e.was) <= MaxDepth

\* findByIdOrThrow.  A PATCH that names the present parent writes neither it nor the depth.
\* Bound: MaxEdits, and edits begin on a sound tree.
BeginEdit(a, op, c, to) ==
  /\ edit[a].step = "idle" /\ edits < MaxEdits /\ Sound
  /\ IF op = "create" THEN cat[c].state = "new" ELSE Live(c)
  /\ op = "reparent" => to # cat[c].parent
  /\ op \in {"toggle", "remove"} => to = NoCat
  /\ edit' = [edit EXCEPT ![a] = [ NoEdit EXCEPT !.op = op, !.step = "begun", !.of = c,
                                                 !.to = to, !.was = cat[c].depth ]]
  /\ edits' = edits + 1
  /\ UNCHANGED <<cat, visit, treeCache>>

Allowed(e) ==
  CASE e.op = "create"   -> e.to # NoCat => Live(e.to) /\ cat[e.to].depth < MaxDepth
    [] e.op = "reparent" -> /\ e.to # NoCat => e.of \notin Above(e.to) /\ Live(e.to)
                            /\ Fits(e)
    [] e.op = "toggle"   -> TRUE
    [] e.op = "remove"   -> Children(e.of) = {}

CheckEdit(a) ==
  /\ edit[a].step = "begun"
  /\ edit' = [edit EXCEPT ![a] =
       IF Allowed(edit[a]) THEN [ @ EXCEPT !.step = "checked", !.depth = DepthUnder(edit[a].to) ]
       ELSE NoEdit]
  /\ UNCHANGED <<cat, edits, visit, treeCache>>

\* shiftSubtreeDepth: an increment of every descendant's depth.
Shifted(e, c) ==
  IF \E n \in 1 .. MaxDepth : c \in Down(e.of)[n]
  THEN cat[c].depth + (e.depth - e.was)
  ELSE cat[c].depth

RowAfter(e, c) ==
  CASE e.op = "reparent" /\ c = e.of -> [ cat[c] EXCEPT !.parent = e.to, !.depth = e.depth ]
    [] e.op = "reparent" /\ c # e.of -> [ cat[c] EXCEPT !.depth = Shifted(e, c) ]
    [] e.op # "reparent" /\ c # e.of -> cat[c]
    [] e.op = "create" /\ c = e.of   -> [ NewCat EXCEPT !.state = "live", !.parent = e.to, !.depth = e.depth ]
    [] e.op = "toggle" /\ c = e.of   -> [ cat[c] EXCEPT !.active = ~@ ]
    [] e.op = "remove" /\ c = e.of   -> [ cat[c] EXCEPT !.state = "removed" ]

\* The id of a new row is its own: the second of two inserts is another row, left out.
WriteEdit(a) ==
  /\ edit[a].step = "checked"
  /\ edit[a].op = "create" => cat[edit[a].of].state = "new"
  /\ cat' = [c \in Cats |-> RowAfter(edit[a], c)]
  /\ edit' = [b \in Admins |->
       IF b = a THEN [ edit[a] EXCEPT !.step = "written" ]
       ELSE [ edit[b] EXCEPT !.raced = @ \/ edit[b].step \in {"begun", "checked"} ]]
  /\ visit' = [ visit EXCEPT !.raced = visit.filled ]
  /\ UNCHANGED <<edits, treeCache>>

Invalidated(a) == NoCopy

InvalidateTreeCache(a) ==
  /\ edit[a].step = "written"
  /\ treeCache' = Invalidated(a)
  /\ edit' = [edit EXCEPT ![a] = NoEdit]
  /\ UNCHANGED <<cat, edits, visit>>

-----------------------------------------------------------------------------
\* buildCategoryTree: what can be reached from the roots through the rows fetched.
Below(rows) ==
  LET below[n \in 0 .. MaxDepth] ==
        { c \in rows : cat[c].parent \in IF n = 0 THEN {NoCat} ELSE below[n - 1] }
  IN  below
Built(rows) == UNION { Below(rows)[n] : n \in 0 .. MaxDepth }

ReadTree ==
  /\ ~treeCache.filled /\ ~visit.filled
  /\ visit' = [ filled |-> TRUE, tree |-> Built({ c \in Cats : Shown(c) }), raced |-> FALSE ]
  /\ UNCHANGED <<cat, edit, edits, treeCache>>

FillCache ==
  /\ visit.filled
  /\ treeCache' = visit
  /\ visit' = NoCopy
  /\ UNCHANGED <<cat, edit, edits>>

ExpireCache ==
  /\ treeCache.filled
  /\ treeCache' = NoCopy
  /\ UNCHANGED <<cat, edit, edits, visit>>

\* getBySlug: the category and every ancestor must be active.
PageShown(c) == \A d \in Above(c) \ {NoCat} : Shown(d)

NextCategories ==
  \/ \E a \in Admins, c \in Cats, to \in Cats \cup {NoCat},
        op \in {"create", "reparent", "toggle", "remove"} : BeginEdit(a, op, c, to)
  \/ \E a \in Admins : CheckEdit(a) \/ WriteEdit(a) \/ InvalidateTreeCache(a)
  \/ ReadTree \/ FillCache \/ ExpireCache
CategoriesSpec == InitCategories /\ [][NextCategories]_categoriesVars

-----------------------------------------------------------------------------
CategoriesTypeOK ==
  /\ cat \in [Cats -> Cat]
  /\ edit \in [Admins -> Edit]
  /\ edits \in 0 .. MaxEdits
  /\ visit \in Copy /\ treeCache \in Copy

\* An edit no other was written before, since its request began, keeps the tree sound.
TreeKept == \A a \in Admins : WriteEdit(a) /\ ~edit[a].raced /\ Sound => Sound'

\* A copy read after the last edit, and kept once that edit's request has ended, lists
\* what has a page.
CopyCurrent ==
  (/\ treeCache.filled /\ ~treeCache.raced
   /\ \A a \in Admins : edit[a].step # "written"
   /\ Sound)
  => treeCache.tree = { c \in Cats : PageShown(c) }

\* CategoriesService: an edit no other was written before, since its request began, leaves
\* every category one below a live parent and none deeper than the maximum; and the tree a
\* process keeps for visitors (getTree) agrees with the pages they can open (getBySlug).
CategoriesKept == [][TreeKept /\ CopyCurrent']_categoriesVars
=============================================================================
