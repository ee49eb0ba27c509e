------------------------------- MODULE GtkTree -------------------------------
(***************************************************************************)
(* hw15/gtk_tree.c: populate_tree_model walks a directory tree; the        *)
(* iterator of the directory entered last is static, so the recursive      *)
(* calls share it.  Every directory gets a row of its own at the top.      *)
(***************************************************************************)
EXTENDS Integers, SequencesExt

CONSTANTS Root, Dir, RegularFile, Trees

VARIABLES
  parent,  \* the directory each file and each directory but Root is in
  stack,   \* the directories whose enumeration is under way, the innermost last
  order,   \* what was enumerated, in this order
  iter1,   \* the row of the directory entered last
  under    \* the row each file was put under

vars == <<parent, stack, order, iter1, under>>

Init ==
  /\ parent \in Trees
  /\ stack = <<Root>> /\ iter1 = Root
  /\ order = <<>>
  /\ under = [f \in {} |-> Root]

Unlisted == { n \in DOMAIN parent : parent[n] = Last(stack) } \ Range(order)

\* Mutant of EnterDirectory: the row is taken before it is appended.
EnterLate(d) ==
  /\ stack # <<>> /\ d \in Unlisted
  /\ iter1' = Last(stack)
  /\ stack' = Append(stack, d)
  /\ order' = Append(order, d)
  /\ UNCHANGED <<parent, under>>

\* The directory gives its entries in any order.
EnterDirectory(d) ==
  /\ stack # <<>> /\ d \in Unlisted
  /\ iter1' = d
  /\ stack' = Append(stack, d)
  /\ order' = Append(order, d)
  /\ UNCHANGED <<parent, under>>

AddFile(f) ==
  /\ stack # <<>> /\ f \in Unlisted
  /\ under' = [x \in DOMAIN under \cup {f} |-> IF x = f THEN iter1 ELSE under[x]]
  /\ order' = Append(order, f)
  /\ UNCHANGED <<parent, stack, iter1>>

LeaveDirectory ==
  /\ stack # <<>> /\ Unlisted = {}
  /\ stack' = Front(stack)
  /\ UNCHANGED <<parent, order, iter1, under>>

Next == LeaveDirectory \/ (\E d \in Dir : EnterDirectory(d)) \/ (\E f \in RegularFile : AddFile(f))

-----------------------------------------------------------------------------
\* e is d or somewhere in it: whoever goes up from e comes to d.
Inside(e, d) ==
  \A S \in SUBSET Dir : e \in S /\ (\A x \in S \ {Root} : parent[x] \in S) => d \in S

\* A file is shown somewhere in its own directory, and under the directory's own row
\* if no subdirectory of it was listed before, whatever the tree and the order of the
\* listing, though all calls share the iterator (gtk_tree.c:13-16, 51-53).
HangsInOwnDirectory ==
  \A f \in DOMAIN under :
    /\ Inside(under[f], parent[f])
    /\ (\A m, n \in DOMAIN order :
          m < n /\ order[n] = f /\ order[m] \in Dir => parent[order[m]] # parent[f])
         => under[f] = parent[f]

\* A file is shown under its own directory, as gtk_tree.c:51 has it.  It is not: see
\* the run tree_files.
HangsUnderOwnDirectory == \A f \in DOMAIN under : under[f] = parent[f]
=============================================================================
