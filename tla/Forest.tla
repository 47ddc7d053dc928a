------------------------------- MODULE Forest -------------------------------
(***************************************************************************)
(* What the item trees promise: an array or an object is a sequence of     *)
(* items, a call changes one sequence at one place, and deleting an item   *)
(* takes the tree below it and nothing else.  There are no pointers here.  *)
(***************************************************************************)
EXTENDS Naturals, SequencesExt

CONSTANTS Item, Name, NoName

VARIABLES
  live,        \* the items there are
  kids,        \* the members of each, in order
  name         \* the key of each

vars == <<live, kids, name>>

Init ==
  /\ live = {} /\ kids = [i \in Item |-> << >>] /\ name = [i \in Item |-> NoName]

Roots(L, k) == {i \in L : \A p \in L : i \notin ToSet(k[p])}

(* An item and all below it: what every set has that has the item, and the *)
(* members of whatever it has.                                             *)
Tree(i) ==
  {j \in Item : \A S \in SUBSET Item :
                 i \in S /\ (\A x \in S : ToSet(kids[x]) \subseteq S) => j \in S}

(* What is left of k and of the names when only L lives. *)
Trim(L, k) ==
  /\ live' = L
  /\ kids' = [j \in Item |-> IF j \in L THEN k[j] ELSE << >>]
  /\ \A j \in L : name'[j] = name[j]

(* New items come, as trees of their own. *)
Grow ==
  /\ live \subseteq live'
  /\ \A i \in live : kids'[i] = kids[i] /\ name'[i] = name[i]
  /\ \A i \in live' \ live : ToSet(kids'[i]) \cap live = {}
  /\ Roots(live, kids) \subseteq Roots(live', kids')

(* A root, or a new item, is put into a sequence, maybe under a new name. *)
Put ==
  \E p \in live : \E i \in ToSet(kids'[p]) \ ToSet(kids[p]) :
    /\ live' = live \cup {i}
    /\ i \in live => i \in Roots(live, kids)
    /\ \E k \in 1 .. Len(kids[p]) + 1 : kids' = [kids EXCEPT ![p] = InsertAt(@, k, i)]
    /\ \A j \in live \ {i} : name'[j] = name[j]

Take ==
  /\ UNCHANGED <<live, name>>
  /\ \E p \in live : \E k \in 1 .. Len(kids[p]) :
       kids' = [kids EXCEPT ![p] = RemoveAt(@, k)]

(* A member goes, with its tree. *)
RemoveTree ==
  \E p \in live : \E k \in 1 .. Len(kids[p]) :
    /\ kids[p][k] \notin live'
    /\ Trim(live \ Tree(kids[p][k]), [kids EXCEPT ![p] = RemoveAt(@, k)])

(* A root takes the place of a member, which goes with its tree. *)
Exchange ==
  \E p \in live : \E k \in 1 .. Len(kids[p]) :
    /\ kids[p][k] \notin live'
    /\ \E r \in Roots(live, kids) :
         LET L == live \ Tree(kids[p][k])
         IN  /\ live' = L
             /\ kids' = [j \in Item |-> IF j \notin L THEN << >>
                                        ELSE IF j = p THEN [kids[p] EXCEPT ![k] = r] ELSE kids[j]]
             /\ \A j \in L \ {r} : name'[j] = name[j]

Rename ==
  /\ UNCHANGED <<live, kids>>
  /\ \E r \in Roots(live, kids) : \A j \in live \ {r} : name'[j] = name[j]

Drop == \E i \in Roots(live, kids) \ live' : Trim(live \ Tree(i), kids)

Next == Rename \/ Take \/ Grow \/ Put \/ Drop \/ RemoveTree \/ Exchange

Spec == Init /\ [][Next]_vars
=============================================================================
