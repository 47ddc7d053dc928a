-------------------------- MODULE CjsonTreeProofs --------------------------
(***************************************************************************)
(* Why the calls of cjson.c keep the item trees whole: the items are a     *)
(* forest whatever the calls link, unlink, copy and delete, what memory    *)
(* is allocated is what the items own, every member of an object has a     *)
(* name, through all the pointer work each call is one step of the module  *)
(* Forest, and a copy is identical to what it copies.                      *)
(***************************************************************************)
EXTENDS CjsonTreeOpsProofs

(* The invariant: some owners of the items make the heap whole.            *)
Sound(h, R) == (\E up : Whole(h, R, up)) /\ Alone(h, R)

(* Nothing owns what the application holds, nor what is lost; and a lost   *)
(* reference owns nothing.                                                 *)
Roots == held \cup lost

Inv ==
  /\ Sound(heap, Roots)
  /\ held \cap lost = {}
  /\ \A r \in lost : heap.cell[r].isRef

(* What a call does to the roots.                                          *)
LEMMA InvSame ==
  ASSUME Inv, Sound(heap', Roots), Kept(heap, heap'), held' = held, lost' = lost
  PROVE  Inv'
<1>1. lost \subseteq Live(heap) /\ lost \subseteq Live(heap')
  BY WholeParts DEF Inv, Sound, Roots
<1> QED
  BY <1>1 DEF Inv, Roots, Kept

LEMMA InvGiven ==
  ASSUME Inv, NEW i \in held, Sound(heap', Roots \ {i}), Kept(heap, heap'),
         held' = held \ {i}, lost' = lost
  PROVE  Inv'
<1>1. Roots \ {i} = held' \cup lost'
  BY DEF Inv, Roots
<1>2. lost \subseteq Live(heap) /\ lost \subseteq Live(heap')
  BY <1>1, WholeParts DEF Inv, Sound, Roots
<1>3. Sound(heap', held' \cup lost')
  BY <1>1
<1> QED
  BY <1>2, <1>3 DEF Inv, Roots, Kept

LEMMA InvTaken ==
  ASSUME Inv, NEW n, n \notin Roots, Sound(heap', Roots \cup {n}), Kept(heap, heap'),
         held' = held \cup {n}, lost' = lost
  PROVE  Inv'
<1>1. Roots \cup {n} = held' \cup lost'
  BY DEF Roots
<1>2. lost \subseteq Live(heap) /\ lost \subseteq Live(heap')
  BY <1>1, WholeParts DEF Inv, Sound, Roots
<1>3. Sound(heap', held' \cup lost')
  BY <1>1
<1> QED
  BY <1>2, <1>3 DEF Inv, Roots, Kept

LEMMA UnchangedKeeps == ASSUME Inv, heap' = heap, held' = held, lost' = lost PROVE Inv'
BY DEF Inv, Roots

(* Kept of the operators that the calls are made of.                       *)
LEMMA AddedKept ==
  ASSUME NEW h, NEW n \in Item \ Live(h), NEW c, NEW g, Added(h, g, n, c)
  PROVE  Kept(h, g)
BY DEF Added, Kept, Live

LEMMA KeptThen ==
  ASSUME NEW h, NEW e, NEW g, Kept(h, e), Kept(e, g), Live(h) \subseteq Live(e)
  PROVE  Kept(h, g)
BY DEF Kept

LEMMA NewSound ==
  ASSUME NEW h, NEW R, NEW up, Whole(h, R, up), Alone(h, R), NEW n \in Item \ Live(h),
         NEW c, NewCell(h, up, c), NEW g, Added(h, g, n, c)
  PROVE  Sound(g, R \cup {n})
<1>1. h \in Heap /\ R \in SUBSET Live(h) /\ Live(h) \in SUBSET Item
  BY WholeParts
<1>2. \E up2 : Whole(g, R \cup {n}, up2)
  BY NewWhole
<1>3. Alone(g, R \cup {n})
  <2>1. \A j \in Item : g.cell[j] = IF j = n THEN c ELSE h.cell[j]
    BY DEF Added
  <2>2. c.next = NULL
    BY DEF NewCell
  <2> QED
    BY <1>1, <2>1, <2>2 DEF Alone, Nx
<1> QED
  BY <1>2, <1>3 DEF Sound

(* An item with nothing behind it and nothing that it owns.                *)
LEMMA Bare ==
  ASSUME NEW h \in Heap, NEW n \in Item, Nx(h)[n] = NULL, Kd(h)[n] = NULL
  PROVE  Doomed(h, n) \subseteq {n}
<1> DEFINE Step == [j \in Item |-> After(h, j)]
<1>1. Step \in [Item -> SUBSET Item] /\ \A j \in Item : Step[j] = After(h, j)
  BY HeapTypes
<1>2. After(h, n) = {}
  BY HeapTypes DEF After
<1>3. Doomed(h, n) = Reached({n}, Step)
  BY DEF Doomed
<1> HIDE DEF Step
<1>4. Closed(Step, {n})
  BY <1>1, <1>2 DEF Closed
<1> QED
  BY <1>1, <1>3, <1>4, ReachedLeast

(* What is below an item for all to see is not less than what it owns.     *)
LEMMA FitsOut ==
  ASSUME heap \in Heap, NEW p, NEW i \in Item, Nx(heap)[i] = NULL, Fits(p, i)
  PROVE  p \notin Doomed(heap, i)
<1> DEFINE Step == [j \in Item |-> After(heap, j)]
           Seen == [k \in Item |-> {heap.cell[k].next, heap.cell[k].child} \ {NULL}]
           From == {heap.cell[i].child} \ {NULL}
           B == Below(i)
           S == {i} \cup B
<1>1. Step \in [Item -> SUBSET Item] /\ \A j \in Item : Step[j] = After(heap, j)
  BY HeapTypes
<1>2. \A j \in Item : heap.cell[j].next \in Item \cup {NULL} /\ heap.cell[j].child \in Item \cup {NULL}
  BY CellsOfHeap DEF Cell
<1>3. Seen \in [Item -> SUBSET Item] /\ From \in SUBSET Item
  BY <1>2
<1>4. \A j \in Item : Seen[j] = {heap.cell[j].next, heap.cell[j].child} \ {NULL}
  OBVIOUS
<1>5. \A j \in Item : After(heap, j) \subseteq Seen[j]
  BY <1>4, NoItem DEF After, OwnsChild
<1>6. After(heap, i) \subseteq From
  BY DEF After, Nx, OwnsChild
<1>7. B = Reached(From, Seen)
  BY DEF Below
<1> HIDE DEF Step, Seen, From, B
<1>8. B \in SUBSET Item /\ From \subseteq B /\ Closed(Seen, B)
  BY <1>3, <1>7, ReachedClosed
<1>9. Closed(Step, S)
  BY <1>1, <1>5, <1>6, <1>8 DEF Closed
<1>10. Doomed(heap, i) = Reached({i}, Step)
  BY DEF Doomed, Step
<1>11. {i} \in SUBSET Item /\ {i} \subseteq S
  OBVIOUS
<1> HIDE DEF S
<1>12. Doomed(heap, i) \subseteq S
  BY <1>1, <1>9, <1>10, <1>11, ReachedLeast
<1> QED
  BY <1>12 DEF Fits, S, B

(* The lists an application changes, and what it finds in them.            *)
LEMMA ContainerIs ==
  ASSUME NEW t, NEW p \in Container(t)
  PROVE  /\ p \in Live(heap) /\ ~heap.cell[p].isRef /\ heap.cell[p].type = t
         /\ \A r \in Live(heap) : heap.cell[r].isRef => heap.cell[r].child \notin Members(p)
BY DEF Container, Owner, References

LEMMA FoundMember ==
  ASSUME NEW R, NEW up, Whole(heap, R, up), NEW t, NEW p \in Container(t),
         NEW i, i # NULL,
         (\E k \in 0 .. MaxItems : i = get_array_item(heap, p, k))
           \/ (\E n, cs : i = get_object_item(heap, p, n, cs))
  PROVE  Member(heap, up, p, i)
<1>1. heap \in Heap /\ HeapGraph(heap, R, up)
  BY WholeParts
<1>2. /\ p \in Live(heap) /\ ~heap.cell[p].isRef
      /\ \A r \in Live(heap) : heap.cell[r].isRef => heap.cell[r].child \notin Members(p)
  BY ContainerIs
<1>3. /\ i \in Live(heap) /\ up[i] = p
      /\ i \in {Walk(heap, heap.cell[p].child)[k] : k \in 0 .. MaxItems}
  <2>1. ASSUME NEW k \in 0 .. MaxItems, i = get_array_item(heap, p, k)
        PROVE  /\ i \in Live(heap) /\ up[i] = p
               /\ i \in {Walk(heap, heap.cell[p].child)[m] : m \in 0 .. MaxItems}
    <3>1. i \in Live(heap) /\ up[i] = p
      BY <1>1, <1>2, <2>1, GetArrayItem
    <3>2. i = Walk(heap, heap.cell[p].child)[k]
      BY <2>1 DEF get_array_item
    <3> QED
      BY <3>1, <3>2
  <2>2. ASSUME NEW n, NEW cs, i = get_object_item(heap, p, n, cs)
        PROVE  /\ i \in Live(heap) /\ up[i] = p
               /\ i \in {Walk(heap, heap.cell[p].child)[m] : m \in 0 .. MaxItems}
    BY <1>1, <1>2, <2>2, GetObjectItem
  <2> QED
    BY <2>1, <2>2
<1>4. i \in Members(p)
  BY <1>3 DEF Members
<1> QED
  BY <1>2, <1>3, <1>4 DEF Member

-----------------------------------------------------------------------------
(* One lemma for each call.                                                *)
LEMMA CreateKeeps ==
  ASSUME Inv, NEW t \in Created, Create(t)
  PROVE  Inv'
<1>1. PICK up : Whole(heap, Roots, up)
  BY DEF Inv, Sound
<1> DEFINE n == Fresh(heap)
<1>2. n # NULL /\ heap' = CreateItem(heap, n, t) /\ held' = held \cup {n} /\ lost' = lost
      /\ Alone(heap, Roots)
  BY DEF Create, Inv, Sound
<1>3. heap \in Heap /\ t \in Type
  BY <1>1, WholeParts, TreeAssumption
<1>4. n \in Item \ Live(heap)
  BY <1>2, <1>3, FreshIs
<1> HIDE DEF n
<1>5. NewCell(heap, up, NewOf(n, t)) /\ Added(heap, heap', n, NewOf(n, t))
  BY <1>2, <1>3, <1>4, CreateAdds
<1>6. Sound(heap', Roots \cup {n})
  BY <1>1, <1>2, <1>4, <1>5, NewSound
<1>7. Kept(heap, heap') /\ n \notin Roots
  BY <1>1, <1>4, <1>5, AddedKept, WholeParts
<1> QED
  BY <1>2, <1>6, <1>7, InvTaken

LEMMA CreateStringReferenceKeeps ==
  ASSUME Inv, CreateStringReference
  PROVE  Inv'
<1>1. PICK up : Whole(heap, Roots, up)
  BY DEF Inv, Sound
<1> DEFINE n == Fresh(heap)
<1>2. /\ n # NULL /\ held' = held \cup {n} /\ lost' = lost /\ Alone(heap, Roots)
      /\ heap' = [cJSON_New_Item(heap, n, "string") EXCEPT
                    !.cell[n].isRef = TRUE, !.cell[n].value = Static]
  BY DEF CreateStringReference, Inv, Sound
<1>3. heap \in Heap
  BY <1>1, WholeParts
<1>4. n \in Item \ Live(heap)
  BY <1>2, <1>3, FreshIs
<1> HIDE DEF n
<1>5. PICK c : NewCell(heap, up, c) /\ Added(heap, heap', n, c)
  BY <1>2, <1>3, <1>4, StringReferenceAdds
<1>6. Sound(heap', Roots \cup {n})
  BY <1>1, <1>2, <1>4, <1>5, NewSound
<1>7. Kept(heap, heap') /\ n \notin Roots
  BY <1>1, <1>4, <1>5, AddedKept, WholeParts
<1> QED
  BY <1>2, <1>6, <1>7, InvTaken

LEMMA CreateListReferenceKeeps ==
  ASSUME Inv, NEW t \in {"array", "object"}, NEW p \in Owner(t),
         CreateListReference(t, heap.cell[p].child)
  PROVE  Inv'
<1>1. PICK up : Whole(heap, Roots, up)
  BY DEF Inv, Sound
<1> DEFINE n == Fresh(heap)
<1>2. /\ n # NULL /\ held' = held \cup {n} /\ lost' = lost /\ Alone(heap, Roots)
      /\ heap' = [cJSON_New_Item(heap, n, t) EXCEPT
                    !.cell[n].isRef = TRUE, !.cell[n].child = heap.cell[p].child]
  BY DEF CreateListReference, Inv, Sound
<1>3. heap \in Heap /\ t \in Type /\ p \in Live(heap) /\ ~heap.cell[p].isRef /\ heap.cell[p].type = t
  BY <1>1, WholeParts DEF Owner, References, Type
<1>4. n \in Item \ Live(heap)
  BY <1>2, <1>3, FreshIs
<1> HIDE DEF n
<1>5. PICK c : NewCell(heap, up, c) /\ Added(heap, heap', n, c)
  BY <1>1, <1>2, <1>3, <1>4, ListReferenceAdds
<1>6. Sound(heap', Roots \cup {n})
  BY <1>1, <1>2, <1>4, <1>5, NewSound
<1>7. Kept(heap, heap') /\ n \notin Roots
  BY <1>1, <1>4, <1>5, AddedKept, WholeParts
<1> QED
  BY <1>2, <1>6, <1>7, InvTaken

LEMMA AddItemToArrayKeeps ==
  ASSUME Inv, NEW p \in Container("array"), NEW i \in held, AddItemToArray(p, i)
  PROVE  Inv'
<1>1. PICK up : Whole(heap, Roots, up)
  BY DEF Inv, Sound
<1>2. /\ Fits(p, i) /\ heap' = add_item_to_array(heap, p, i) /\ held' = held \ {i} /\ lost' = lost
      /\ Alone(heap, Roots) /\ i \in Roots
  BY DEF AddItemToArray, Inv, Sound, Roots
<1>3. /\ heap \in Heap /\ i \in Item /\ Nx(heap)[i] = NULL
      /\ p \in Live(heap) /\ ~heap.cell[p].isRef /\ heap.cell[p].type # "object"
  BY <1>1, <1>2, WholeParts, ContainerIs DEF Alone
<1>4. p \notin Doomed(heap, i)
  BY <1>2, <1>3, FitsOut
<1>5. (\E up2 : Whole(heap', Roots \ {i}, up2)) /\ Alone(heap', Roots \ {i}) /\ Kept(heap, heap')
  BY <1>1, <1>2, <1>3, <1>4, AddWhole
<1>6. Sound(heap', Roots \ {i})
  BY <1>5 DEF Sound
<1> QED
  BY <1>2, <1>5, <1>6, InvGiven

LEMMA InsertItemInArrayKeeps ==
  ASSUME Inv, NEW p \in Container("array"), NEW k \in 0 .. MaxItems, NEW i \in held,
         InsertItemInArray(p, k, i)
  PROVE  Inv'
<1>1. PICK up : Whole(heap, Roots, up)
  BY DEF Inv, Sound
<1>2. /\ Fits(p, i) /\ heap' = cJSON_InsertItemInArray(heap, p, k, i) /\ held' = held \ {i}
      /\ lost' = lost /\ Alone(heap, Roots) /\ i \in Roots
  BY DEF InsertItemInArray, Inv, Sound, Roots
<1>3. /\ heap \in Heap /\ i \in Item /\ Nx(heap)[i] = NULL
      /\ p \in Live(heap) /\ ~heap.cell[p].isRef /\ heap.cell[p].type # "object"
  BY <1>1, <1>2, WholeParts, ContainerIs DEF Alone
<1>4. p \notin Doomed(heap, i)
  BY <1>2, <1>3, FitsOut
<1>5. (\E up2 : Whole(heap', Roots \ {i}, up2)) /\ Alone(heap', Roots \ {i}) /\ Kept(heap, heap')
  BY <1>1, <1>2, <1>3, <1>4, InsertWhole
<1>6. Sound(heap', Roots \ {i})
  BY <1>5 DEF Sound
<1> QED
  BY <1>2, <1>5, <1>6, InvGiven

(* A held item goes into an object under a new key.                        *)
LEMMA KeyedAdds ==
  ASSUME NEW h, NEW R, NEW up, Whole(h, R, up), Alone(h, R), NEW i \in R,
         NEW p \in Live(h), ~h.cell[p].isRef, p \notin Doomed(h, i),
         NEW n \in Name, NEW constant \in BOOLEAN,
         NEW g, g = add_item_to_object(h, p, n, i, constant)
  PROVE  Sound(g, R \ {i}) /\ Live(g) = Live(h) /\ Kept(h, g)
<1>1. h \in Heap /\ R \in SUBSET Live(h)
  BY WholeParts
<1> DEFINE e == NewKey(h, i, n, constant)
<1>2. e = NewKey(h, i, n, constant) /\ g = add_item_to_array(e, p, i)
  BY DEF add_item_to_object
<1> HIDE DEF e
<1>3. i \in Live(h)
  BY <1>1
<1>4. /\ Whole(e, R, up) /\ e.cell[i].string # NoName
      /\ Live(e) = Live(h) /\ Nx(e) = Nx(h) /\ Pv(e) = Pv(h) /\ Kd(e) = Kd(h)
      /\ \A j \in Item : /\ e.cell[j].isRef = h.cell[j].isRef /\ e.cell[j].type = h.cell[j].type
                         /\ e.cell[j].child = h.cell[j].child
  BY <1>2, <1>3, KeyWhole
<1>5. e \in Heap /\ Doomed(e, i) = Doomed(h, i)
  <2>1. e \in Heap
    BY <1>4 DEF Whole
  <2> QED
    BY <1>1, <1>4, <2>1, DoomedSame
<1>6. Alone(e, R)
  BY <1>4 DEF Alone
<1>7. p \in Live(e) /\ ~e.cell[p].isRef /\ p \notin Doomed(e, i)
  BY <1>4, <1>5 DEF Live
<1>8. /\ (\E up2 : Whole(g, R \ {i}, up2)) /\ Alone(g, R \ {i})
      /\ Live(g) = Live(e) /\ Kept(e, g)
  BY <1>2, <1>4, <1>6, <1>7, AddWhole
<1>9. Kept(h, e)
  BY <1>4 DEF Kept, Live
<1> QED
  BY <1>4, <1>8, <1>9, KeptThen DEF Sound

LEMMA AddItemToObjectKeeps ==
  ASSUME Inv, NEW p \in Container("object"), NEW n \in Name, NEW i \in held,
         NEW constant \in BOOLEAN, AddItemToObject(p, n, i, constant)
  PROVE  Inv'
<1>1. PICK up : Whole(heap, Roots, up)
  BY DEF Inv, Sound
<1>2. /\ Fits(p, i) /\ heap' = add_item_to_object(heap, p, n, i, constant) /\ held' = held \ {i}
      /\ lost' = lost /\ Alone(heap, Roots) /\ i \in Roots
  BY DEF AddItemToObject, Inv, Sound, Roots
<1>3. /\ heap \in Heap /\ i \in Item /\ Nx(heap)[i] = NULL
      /\ p \in Live(heap) /\ ~heap.cell[p].isRef
  BY <1>1, <1>2, WholeParts, ContainerIs DEF Alone
<1>4. p \notin Doomed(heap, i)
  BY <1>2, <1>3, FitsOut
<1>5. Sound(heap', Roots \ {i}) /\ Kept(heap, heap')
  BY <1>1, <1>2, <1>3, <1>4, KeyedAdds
<1> QED
  BY <1>2, <1>5, InvGiven

LEMMA AddedThere ==
  ASSUME NEW h, NEW R, NEW up, Whole(h, R, up), NEW n \in Item \ Live(h),
         NEW c, NewCell(h, up, c), NEW e, Added(h, e, n, c), NEW g, Kept(e, g)
  PROVE  Kept(h, g)
<1>1. /\ Live(e) = Live(h) \cup {n}
      /\ \E up2 \in Pointers : Whole(e, R \cup {n}, up2) /\ Orphaned(up, up2, n)
  BY NewWhole
<1> QED
  BY <1>1, AddedKept, KeptThen

(* A new item is there, and all else as it was.                            *)
LEMMA NewThere ==
  ASSUME NEW h, NEW R, NEW up, Whole(h, R, up), Alone(h, R), NEW n \in Item \ Live(h),
         NEW c, NewCell(h, up, c), NEW g, Added(h, g, n, c), NEW p \in Live(h)
  PROVE  /\ p \in Live(g) /\ g.cell[p] = h.cell[p] /\ p \notin Doomed(g, n)
         /\ (R \cup {n}) \ {n} = R /\ n \in R \cup {n} /\ Doomed(g, n) = {n}
         /\ \E up2 : Whole(g, R \cup {n}, up2) /\ Orphaned(up, up2, n)
         /\ Alone(g, R \cup {n})
<1>1. h \in Heap /\ R \in SUBSET Live(h) /\ Live(h) \in SUBSET Item
  BY WholeParts
<1>2. Live(g) = Live(h) \cup {n} /\ \E up2 \in Pointers : Whole(g, R \cup {n}, up2) /\ Orphaned(up, up2, n)
  BY NewWhole
<1>3. g \in Heap /\ \A j \in Item : g.cell[j] = IF j = n THEN c ELSE h.cell[j]
  BY DEF Added
<1>4. Alone(g, R \cup {n})
  BY NewSound DEF Sound
<1>5. Nx(g)[n] = NULL /\ Kd(g)[n] = NULL
  BY <1>3 DEF NewCell, OwnsChild, Nx, Kd
<1>6. Doomed(g, n) \subseteq {n}
  BY <1>3, <1>5, Bare
<1>7. n \in Doomed(g, n)
  <2>1. PICK up2 \in Pointers : Whole(g, R \cup {n}, up2)
    BY <1>2
  <2>2. HeapGraph(g, R \cup {n}, up2) /\ n \in R \cup {n}
    BY <2>1, WholeParts
  <2>3. Tree(Nx(g), Pv(g), Kd(g), up2, n, Doomed(g, n))
    BY <1>3, <2>2, DoomedTree
  <2> QED
    BY <2>3 DEF Tree
<1> QED
  BY <1>1, <1>2, <1>3, <1>4, <1>6, <1>7

LEMMA AddItemReferenceToArrayKeeps ==
  ASSUME Inv, NEW p \in Container("array"), NEW i \in Live(heap), AddItemReferenceToArray(p, i)
  PROVE  Inv'
<1>1. PICK up : Whole(heap, Roots, up)
  BY DEF Inv, Sound
<1> DEFINE r == Fresh(heap)
           g == create_reference(heap, i, r)
<1>2. /\ r # NULL /\ heap' = add_item_to_array(g, p, r) /\ held' = held /\ lost' = lost
      /\ Alone(heap, Roots)
  BY DEF AddItemReferenceToArray, Inv, Sound
<1>3. heap \in Heap /\ p \in Live(heap) /\ ~heap.cell[p].isRef /\ heap.cell[p].type = "array"
  BY <1>1, WholeParts, ContainerIs
<1>4. r \in Item \ Live(heap)
  BY <1>2, <1>3, FreshIs
<1>5. g = create_reference(heap, i, r)
  OBVIOUS
<1> HIDE DEF r, g
<1>6. PICK c : NewCell(heap, up, c) /\ Added(heap, g, r, c)
  BY <1>1, <1>4, <1>5, CreateReferenceAdds
<1>7. /\ p \in Live(g) /\ g.cell[p] = heap.cell[p] /\ p \notin Doomed(g, r)
      /\ (Roots \cup {r}) \ {r} = Roots /\ r \in Roots \cup {r} /\ Doomed(g, r) = {r}
      /\ \E up2 : Whole(g, Roots \cup {r}, up2) /\ Orphaned(up, up2, r)
      /\ Alone(g, Roots \cup {r})
  BY <1>1, <1>2, <1>3, <1>4, <1>6, NewThere
<1>8. PICK up2 : Whole(g, Roots \cup {r}, up2)
  BY <1>7
<1>9. ~g.cell[p].isRef /\ g.cell[p].type # "object"
  BY <1>3, <1>7
<1>10. /\ (\E up3 : Whole(heap', (Roots \cup {r}) \ {r}, up3)) /\ Alone(heap', (Roots \cup {r}) \ {r})
       /\ Kept(g, heap')
  BY <1>2, <1>7, <1>8, <1>9, AddWhole
<1>11. Sound(heap', Roots)
  BY <1>7, <1>10 DEF Sound
<1>12. Kept(heap, heap')
  BY <1>1, <1>4, <1>6, <1>10, AddedThere
<1> QED
  BY <1>2, <1>11, <1>12, InvSame

(* A lost reference is an item like another, to which nothing leads.       *)
LEMMA LostAdds ==
  ASSUME NEW h \in Heap, NEW up, NEW n \in Item \ Live(h),
         NEW g, g = [h EXCEPT !.cell[n] = Unreachable]
  PROVE  /\ NewCell(h, up, Unreachable) /\ Added(h, g, n, Unreachable)
         /\ g.cell[n].isRef
<1> DEFINE c == Unreachable
<1>1. /\ c \in Cell /\ c.live = TRUE /\ c.next = NULL /\ c.prev = NULL /\ c.child = NULL
      /\ c.isRef = TRUE /\ c.string = NoName /\ c.isConst = FALSE /\ c.value = NULL
  BY DEF Unreachable, Zeroed, Cell
<1>2. /\ g = [cell |-> [h.cell EXCEPT ![n] = c], blocks |-> h.blocks, misused |-> h.misused]
      /\ h.cell \in [Item -> Cell]
  BY DEF Heap
<1> HIDE DEF c
<1>3. Shown(h, up, c)
  BY <1>1 DEF Shown
<1>4. NewCell(h, up, c) /\ Added(h, g, n, c)
  BY <1>1, <1>2, <1>3, ReferenceAdds
<1>5. g.cell[n].isRef
  BY <1>1, <1>2
<1> QED
  BY <1>4, <1>5 DEF c

LEMMA AddItemReferenceToObjectKeeps ==
  ASSUME Inv, NEW p \in Container("object"), NEW n \in Name, NEW i \in Live(heap),
         NEW keyCopied \in BOOLEAN, AddItemReferenceToObject(p, n, i, keyCopied)
  PROVE  Inv'
<1>1. PICK up : Whole(heap, Roots, up)
  BY DEF Inv, Sound
<1> DEFINE r == Fresh(heap)
           g == create_reference(heap, i, r)
<1>2. /\ r # NULL /\ held' = held /\ Alone(heap, Roots)
      /\ heap' = IF keyCopied THEN add_item_to_object(g, p, n, r, FALSE)
                 ELSE [heap EXCEPT !.cell[r] = Unreachable]
      /\ lost' = IF keyCopied THEN lost ELSE lost \cup {r}
  BY DEF AddItemReferenceToObject, Inv, Sound
<1>3. heap \in Heap /\ p \in Live(heap) /\ ~heap.cell[p].isRef
  BY <1>1, WholeParts, ContainerIs
<1>4. r \in Item \ Live(heap)
  BY <1>2, <1>3, FreshIs
<1>5. g = create_reference(heap, i, r)
  OBVIOUS
<1> HIDE DEF r, g
<1>6. CASE keyCopied
  <2>1. PICK c : NewCell(heap, up, c) /\ Added(heap, g, r, c)
    BY <1>1, <1>4, <1>5, CreateReferenceAdds
  <2>2. /\ p \in Live(g) /\ g.cell[p] = heap.cell[p] /\ p \notin Doomed(g, r)
        /\ (Roots \cup {r}) \ {r} = Roots /\ r \in Roots \cup {r} /\ Doomed(g, r) = {r}
        /\ \E up2 : Whole(g, Roots \cup {r}, up2) /\ Orphaned(up, up2, r)
        /\ Alone(g, Roots \cup {r})
    BY <1>1, <1>2, <1>3, <1>4, <2>1, NewThere
  <2>3. PICK up2 : Whole(g, Roots \cup {r}, up2)
    BY <2>2
  <2>4. ~g.cell[p].isRef
    BY <1>3, <2>2
  <2>5. heap' = add_item_to_object(g, p, n, r, FALSE) /\ lost' = lost
    BY <1>2, <1>6
  <2>6. Sound(heap', (Roots \cup {r}) \ {r}) /\ Kept(g, heap')
    BY <2>2, <2>3, <2>4, <2>5, KeyedAdds
  <2>7. Kept(heap, heap')
    BY <1>1, <1>4, <2>1, <2>6, AddedThere
  <2>8. Sound(heap', Roots)
    BY <2>2, <2>6
  <2> QED
    BY <1>2, <2>5, <2>7, <2>8, InvSame
<1>7. CASE ~keyCopied
  <2>1. heap' = [heap EXCEPT !.cell[r] = Unreachable] /\ lost' = lost \cup {r}
    BY <1>2, <1>7
  <2>2. /\ NewCell(heap, up, Unreachable) /\ Added(heap, heap', r, Unreachable)
        /\ heap'.cell[r].isRef
    BY <1>3, <1>4, <2>1, LostAdds
  <2>3. Sound(heap', Roots \cup {r})
    BY <1>1, <1>2, <1>4, <2>2, NewSound
  <2>4. Roots \cup {r} = held' \cup lost'
    BY <1>2, <2>1 DEF Roots
  <2>5. Roots \in SUBSET Live(heap) /\ Live(heap) \in SUBSET Item
    BY <1>1, WholeParts
  <2>6. held' \cap lost' = {}
    BY <1>2, <1>4, <2>1, <2>5 DEF Inv, Roots
  <2>7. \A x \in lost' : heap'.cell[x].isRef
    <3> SUFFICES ASSUME NEW x \in lost' PROVE heap'.cell[x].isRef
      OBVIOUS
    <3>1. CASE x = r
      BY <2>2, <3>1
    <3>2. CASE x # r
      <4>1. x \in lost /\ x \in Live(heap) /\ x \in Item
        BY <2>1, <2>5, <3>2 DEF Roots
      <4> QED
        BY <2>2, <3>2, <4>1 DEF Added, Inv
    <3> QED
      BY <3>1, <3>2
  <2> QED
    BY <2>3, <2>4, <2>6, <2>7 DEF Inv, Roots
<1> QED
  BY <1>6, <1>7

LEMMA AddToObjectKeeps ==
  ASSUME Inv, NEW p \in Container("object"), NEW n \in Name, NEW t \in Created,
         NEW keyCopied \in BOOLEAN, AddToObject(p, n, t, keyCopied)
  PROVE  Inv'
<1>1. PICK up : Whole(heap, Roots, up)
  BY DEF Inv, Sound
<1> DEFINE r == Fresh(heap)
           g == CreateItem(heap, r, t)
           c == NewOf(r, t)
<1>2. /\ r # NULL /\ held' = held /\ lost' = lost /\ Alone(heap, Roots)
      /\ heap' = IF keyCopied THEN add_item_to_object(g, p, n, r, FALSE) ELSE cJSON_Delete(g, r)
  BY DEF AddToObject, Inv, Sound
<1>3. heap \in Heap /\ p \in Live(heap) /\ ~heap.cell[p].isRef /\ t \in Type
      /\ Roots \in SUBSET Live(heap) /\ Live(heap) \in SUBSET Item
  BY <1>1, WholeParts, ContainerIs, TreeAssumption
<1>4. r \in Item \ Live(heap)
  BY <1>2, <1>3, FreshIs
<1>5. g = CreateItem(heap, r, t)
  OBVIOUS
<1> HIDE DEF r, g, c
<1>6. NewCell(heap, up, c) /\ Added(heap, g, r, c)
  BY <1>3, <1>4, <1>5, CreateAdds DEF c
<1>7. /\ p \in Live(g) /\ g.cell[p] = heap.cell[p] /\ p \notin Doomed(g, r)
      /\ (Roots \cup {r}) \ {r} = Roots /\ r \in Roots \cup {r} /\ Doomed(g, r) = {r}
      /\ \E up2 : Whole(g, Roots \cup {r}, up2) /\ Orphaned(up, up2, r)
      /\ Alone(g, Roots \cup {r})
  BY <1>1, <1>2, <1>3, <1>4, <1>6, NewThere
<1>8. PICK up2 : Whole(g, Roots \cup {r}, up2)
  BY <1>7
<1>9. ~g.cell[p].isRef
  BY <1>3, <1>7
<1>10. CASE keyCopied
  <2>1. heap' = add_item_to_object(g, p, n, r, FALSE)
    BY <1>2, <1>10
  <2>2. Sound(heap', (Roots \cup {r}) \ {r}) /\ Kept(g, heap')
    BY <1>7, <1>8, <1>9, <2>1, KeyedAdds
  <2>3. Kept(heap, heap')
    BY <1>1, <1>4, <1>6, <2>2, AddedThere
  <2>4. Sound(heap', Roots)
    BY <1>7, <2>2
  <2> QED
    BY <1>2, <2>3, <2>4, InvSame
<1>11. CASE ~keyCopied
  <2>1. heap' = cJSON_Delete(g, r)
    BY <1>2, <1>11
  <2>2. ASSUME NEW x \in Live(g) \ {r}, g.cell[x].isRef PROVE g.cell[x].child \notin {r}
    <3>1. /\ g \in Heap /\ \A j \in Item : g.cell[j] = IF j = r THEN c ELSE heap.cell[j]
      BY <1>6 DEF Added
    <3>2. x \in Item /\ x \in Live(heap) /\ g.cell[x] = heap.cell[x]
      BY <2>2, <3>1 DEF Live
    <3>3. Shown(heap, up, heap.cell[x])
      BY <1>1, <3>2 DEF Whole
    <3>4. heap.cell[x].child # NULL => heap.cell[x].child \in Live(heap)
      BY <2>2, <3>2, <3>3 DEF Shown
    <3> QED
      BY <1>4, <3>2, <3>4, NoItem
  <2>3. /\ Whole(heap', (Roots \cup {r}) \ {r}, up2)
        /\ \A j \in Item \ {r} : heap'.cell[j] = g.cell[j]
    BY <1>7, <1>8, <2>1, <2>2, DeleteWhole, SMTT(30)
  <2>4. Alone(heap', Roots)
    <3>1. \A j \in Roots : j \in Item \ {r}
      BY <1>3, <1>4
    <3> QED
      BY <1>7, <2>3, <3>1 DEF Alone, Nx
  <2>5. Sound(heap', Roots)
    BY <1>7, <2>3, <2>4 DEF Sound
  <2>6. Kept(heap, heap')
    <3> SUFFICES ASSUME NEW j \in Live(heap) PROVE heap'.cell[j].isRef = heap.cell[j].isRef
      BY DEF Kept
    <3>1. j \in Item \ {r} /\ j # r
      BY <1>3, <1>4
    <3> QED
      BY <1>6, <2>3, <3>1 DEF Added
  <2> QED
    BY <1>2, <2>5, <2>6, InvSame
<1> QED
  BY <1>10, <1>11

-----------------------------------------------------------------------------
LEMMA DeleteSound ==
  ASSUME NEW h, NEW R, NEW up, Whole(h, R, up), Alone(h, R), NEW k \in R,
         NEW D, D = Doomed(h, k),
         \A r \in Live(h) \ D : h.cell[r].isRef => h.cell[r].child \notin D,
         NEW g, g = cJSON_Delete(h, k)
  PROVE  Sound(g, R \ {k}) /\ Kept(h, g)
<1>1. /\ Whole(g, R \ {k}, up) /\ D \in SUBSET Live(h) /\ Live(g) = Live(h) \ D
      /\ \A j \in Item \ D : g.cell[j] = h.cell[j]
  BY DeleteWhole
<1>2. R \ {k} \in SUBSET Live(g) /\ Live(g) \in SUBSET Item
  BY <1>1, WholeParts
<1>3. Alone(g, R \ {k})
  <2> SUFFICES ASSUME NEW j \in R \ {k} PROVE Nx(g)[j] = NULL
    BY DEF Alone
  <2>1. j \in Item \ D /\ j \in Item
    BY <1>1, <1>2
  <2>2. Nx(h)[j] = NULL
    BY DEF Alone
  <2> QED
    BY <1>1, <2>1, <2>2 DEF Nx
<1>4. Kept(h, g)
  <2>1. \A j \in Live(g) : j \in Item \ D
    BY <1>1, <1>2
  <2> QED
    BY <1>1, <2>1 DEF Kept
<1> QED
  BY <1>1, <1>3, <1>4 DEF Sound

(* Nothing that stays refers to what goes.                                 *)
LEMMA UnwatchedIs ==
  ASSUME NEW D, Unwatched(D)
  PROVE  \A r \in Live(heap) \ D : heap.cell[r].isRef => heap.cell[r].child \notin D
BY DEF Unwatched, References

LEMMA DeleteKeeps ==
  ASSUME Inv, NEW i \in held, Delete(i)
  PROVE  Inv'
<1>1. PICK up : Whole(heap, Roots, up)
  BY DEF Inv, Sound
<1> DEFINE D == Doomed(heap, i)
<1>2. /\ Unwatched(D) /\ heap' = cJSON_Delete(heap, i) /\ held' = held \ {i} /\ lost' = lost
      /\ Alone(heap, Roots) /\ i \in Roots
  BY DEF Delete, Inv, Sound, Roots
<1>3. D = Doomed(heap, i)
  OBVIOUS
<1> HIDE DEF D
<1>4. \A r \in Live(heap) \ D : heap.cell[r].isRef => heap.cell[r].child \notin D
  BY <1>2, UnwatchedIs
<1>5. Sound(heap', Roots \ {i}) /\ Kept(heap, heap')
  BY <1>1, <1>2, <1>3, <1>4, DeleteSound
<1> QED
  BY <1>2, <1>5, InvGiven

(* What Found(p) is of a container.                                        *)
LEMMA FoundIs ==
  ASSUME NEW R, NEW up, Whole(heap, R, up), NEW t, NEW p \in Container(t),
         NEW i \in Found(p), i # NULL
  PROVE  Member(heap, up, p, i)
<1>1. (\E k \in 0 .. MaxItems : i = get_array_item(heap, p, k))
        \/ (\E n, cs : i = get_object_item(heap, p, n, cs))
  BY DEF Found
<1> QED
  BY <1>1, FoundMember

LEMMA DetachKeeps ==
  ASSUME Inv, NEW t, NEW p \in Container(t), NEW i \in Found(p), Detach(p, i)
  PROVE  Inv'
<1>1. PICK up : Whole(heap, Roots, up)
  BY DEF Inv, Sound
<1>2. /\ heap' = cJSON_DetachItemViaPointer(heap, p, i) /\ held' = held \cup ({i} \ {NULL})
      /\ lost' = lost /\ Alone(heap, Roots)
  BY DEF Detach, Inv, Sound
<1>3. CASE i = NULL
  <2>1. heap' = heap /\ held' = held
    BY <1>2, <1>3 DEF cJSON_DetachItemViaPointer
  <2> QED
    BY <1>2, <2>1, UnchangedKeeps
<1>4. CASE i # NULL
  <2>1. Member(heap, up, p, i)
    BY <1>1, <1>4, FoundIs
  <2>2. /\ Rewired(heap, heap') /\ Alone(heap', Roots \cup {i})
        /\ \E up2 \in Pointers : Whole(heap', Roots \cup {i}, up2) /\ Orphaned(up, up2, i)
    BY <1>1, <1>2, <2>1, DetachWhole
  <2>3. held' = held \cup {i}
    BY <1>2, <1>4
  <2>4. Sound(heap', Roots \cup {i})
    BY <2>2 DEF Sound
  <2>5. Kept(heap, heap') /\ i \notin Roots
    BY <1>1, <1>2, <2>1, <2>2, MemberFacts, WholeParts, RewiredKept
  <2> QED
    BY <1>2, <2>3, <2>4, <2>5, InvTaken
<1> QED
  BY <1>3, <1>4

(* Who is a reference and what it shows is as before the detaching.        *)
LEMMA DetachShows ==
  ASSUME NEW h, NEW R, NEW up, Whole(h, R, up), Alone(h, R), NEW p, NEW i, Member(h, up, p, i),
         NEW g, g = cJSON_DetachItemViaPointer(h, p, i)
  PROVE  /\ Live(g) = Live(h)
         /\ \A j \in Item : /\ g.cell[j].isRef = h.cell[j].isRef
                            /\ h.cell[j].isRef => g.cell[j].child = h.cell[j].child
<1>1. h \in Heap
  BY WholeParts
<1>2. /\ i \in Item /\ p \in Item /\ (h.cell[p].child = i <=> Pv(h)[i] = NULL) /\ ~h.cell[p].isRef
  BY MemberFacts DEF Member
<1>3. Rewired(h, g)
  BY DetachWhole
<1>4. \A j \in Item : Cd(g)[j] = IF Pv(h)[i] = NULL /\ j = p THEN Nx(h)[i] ELSE Cd(h)[j]
  BY <1>1, <1>2, DetachIs
<1>5. g \in Heap /\ Live(g) = Live(h) /\ \A j \in Item : g.cell[j].isRef = h.cell[j].isRef
  BY <1>1, <1>3, KdIs DEF Rewired, SameItem
<1>6. \A j \in Item : Cd(g)[j] = g.cell[j].child /\ Cd(h)[j] = h.cell[j].child
  BY DEF Cd
<1> QED
  BY <1>2, <1>4, <1>5, <1>6

LEMMA DeleteItemKeeps ==
  ASSUME Inv, NEW t, NEW p \in Container(t), NEW i \in Found(p), DeleteItem(p, i)
  PROVE  Inv'
<1>1. PICK up : Whole(heap, Roots, up)
  BY DEF Inv, Sound
<1> DEFINE e == cJSON_DetachItemViaPointer(heap, p, i)
           D == Doomed(e, i)
<1>2. /\ MayDelete(p, i) /\ heap' = cJSON_Delete(e, i) /\ held' = held /\ lost' = lost
      /\ Alone(heap, Roots)
  BY DEF DeleteItem, Inv, Sound
<1>3. CASE i = NULL
  <2>1. heap' = heap /\ held' = held
    BY <1>2, <1>3 DEF cJSON_DetachItemViaPointer, cJSON_Delete
  <2> QED
    BY <1>2, <2>1, UnchangedKeeps
<1>4. CASE i # NULL
  <2>1. Member(heap, up, p, i)
    BY <1>1, <1>4, FoundIs
  <2>2. e = cJSON_DetachItemViaPointer(heap, p, i) /\ D = Doomed(e, i)
    OBVIOUS
  <2>3. Unwatched(D)
    BY <1>2, <1>4 DEF MayDelete
  <2> HIDE DEF e, D
  <2>4. /\ Rewired(heap, e) /\ Alone(e, Roots \cup {i})
        /\ \E up2 \in Pointers : Whole(e, Roots \cup {i}, up2) /\ Orphaned(up, up2, i)
    BY <1>1, <1>2, <2>1, <2>2, DetachWhole
  <2>5. PICK up2 : Whole(e, Roots \cup {i}, up2)
    BY <2>4
  <2>6. /\ Live(e) = Live(heap)
        /\ \A j \in Item : /\ e.cell[j].isRef = heap.cell[j].isRef
                           /\ heap.cell[j].isRef => e.cell[j].child = heap.cell[j].child
    BY <1>1, <1>2, <2>1, <2>2, DetachShows
  <2>7. \A r \in Live(heap) \ D : heap.cell[r].isRef => heap.cell[r].child \notin D
    BY <2>3, UnwatchedIs
  <2>8. \A r \in Live(e) \ D : e.cell[r].isRef => e.cell[r].child \notin D
    <3>1. Live(heap) \in SUBSET Item
      BY <1>1, WholeParts
    <3> SUFFICES ASSUME NEW r \in Live(e) \ D, e.cell[r].isRef PROVE e.cell[r].child \notin D
      OBVIOUS
    <3>2. r \in Item /\ r \in Live(heap) \ D
      BY <2>6, <3>1
    <3>3. e.cell[r].isRef = heap.cell[r].isRef
      BY <2>6, <3>2
    <3>4. heap.cell[r].isRef
      BY <3>3
    <3>5. e.cell[r].child = heap.cell[r].child
      BY <2>6, <3>2, <3>4
    <3> QED
      BY <2>7, <3>2, <3>4, <3>5
  <2>9. Sound(heap', (Roots \cup {i}) \ {i}) /\ Kept(e, heap')
    BY <1>2, <2>2, <2>4, <2>5, <2>8, DeleteSound
  <2>10. i \notin Roots
    BY <1>1, <1>2, <2>1, MemberFacts
  <2>11. (Roots \cup {i}) \ {i} = Roots
    BY <2>10
  <2>12. Kept(heap, heap')
    BY <1>1, <2>4, <2>9, RewiredKept, KeptThen, WholeParts
  <2> QED
    BY <1>2, <2>9, <2>11, <2>12, InvSame
<1> QED
  BY <1>3, <1>4

LEMMA ReplaceItemKeeps ==
  ASSUME Inv, NEW p \in Container("array"), NEW i \in Found(p), NEW r \in held,
         ReplaceItem(p, i, r)
  PROVE  Inv'
<1>1. PICK up : Whole(heap, Roots, up)
  BY DEF Inv, Sound
<1> DEFINE D == Doomed(cJSON_DetachItemViaPointer(heap, p, i), i)
<1>2. /\ Fits(p, r) /\ MayDelete(p, i) /\ heap' = cJSON_ReplaceItemViaPointer(heap, p, i, r)
      /\ held' = (IF i = NULL THEN held ELSE held \ {r}) /\ lost' = lost
      /\ Alone(heap, Roots) /\ r \in Roots
  BY DEF ReplaceItem, Inv, Sound, Roots
<1>3. CASE i = NULL
  <2>1. heap' = heap /\ held' = held
    BY <1>2, <1>3 DEF cJSON_ReplaceItemViaPointer
  <2> QED
    BY <1>2, <2>1, UnchangedKeeps
<1>4. CASE i # NULL
  <2>1. Member(heap, up, p, i)
    BY <1>1, <1>4, FoundIs
  <2>2. D = Doomed(cJSON_DetachItemViaPointer(heap, p, i), i) /\ Unwatched(D)
    BY <1>2, <1>4 DEF MayDelete
  <2> HIDE DEF D
  <2>3. \A x \in Live(heap) \ D : heap.cell[x].isRef => heap.cell[x].child \notin D
    BY <2>2, UnwatchedIs
  <2>4. /\ heap \in Heap /\ r \in Item /\ Nx(heap)[r] = NULL
        /\ p \in Live(heap) /\ ~heap.cell[p].isRef /\ heap.cell[p].type # "object"
    BY <1>1, <1>2, WholeParts, ContainerIs DEF Alone
  <2>5. Addable(heap, Roots, p, r)
    BY <1>2, <2>4, FitsOut DEF Addable
  <2>6. (\E up2 : Whole(heap', Roots \ {r}, up2)) /\ Alone(heap', Roots \ {r}) /\ Kept(heap, heap')
    BY <1>1, <1>2, <2>1, <2>2, <2>3, <2>5, ReplaceWhole
  <2>7. held' = held \ {r}
    BY <1>2, <1>4
  <2>8. Sound(heap', Roots \ {r})
    BY <2>6 DEF Sound
  <2> QED
    BY <1>2, <2>6, <2>7, <2>8, InvGiven
<1> QED
  BY <1>3, <1>4

(* The name of the replacement has no part in what is deleted.             *)
LEMMA DetachedSame ==
  ASSUME NEW h, NEW R, NEW up, Whole(h, R, up), Alone(h, R), NEW p, NEW i, Member(h, up, p, i),
         NEW e, Whole(e, R, up), Alone(e, R), Member(e, up, p, i),
         Nx(e) = Nx(h), Pv(e) = Pv(h), \A j \in Item : e.cell[j].isRef = h.cell[j].isRef,
         Cd(e) = Cd(h)
  PROVE  Doomed(cJSON_DetachItemViaPointer(e, p, i), i)
           = Doomed(cJSON_DetachItemViaPointer(h, p, i), i)
<1> DEFINE f == cJSON_DetachItemViaPointer(h, p, i)
           g == cJSON_DetachItemViaPointer(e, p, i)
<1>1. h \in Heap /\ e \in Heap
  BY WholeParts
<1>2. i \in Item /\ p \in Item /\ (h.cell[p].child = i <=> Pv(h)[i] = NULL)
  BY MemberFacts
<1>3. e.cell[p].child = i <=> Pv(e)[i] = NULL
  BY MemberFacts
<1>4. f = cJSON_DetachItemViaPointer(h, p, i) /\ g = cJSON_DetachItemViaPointer(e, p, i)
  OBVIOUS
<1> HIDE DEF f, g
<1>5. Rewired(h, f) /\ Rewired(e, g)
  BY <1>4, DetachWhole
<1>6. /\ \A j \in Item : Nx(f)[j] = IF j = i THEN NULL ELSE IF j = Pv(h)[i] THEN Nx(h)[i] ELSE Nx(h)[j]
      /\ \A j \in Item : Cd(f)[j] = IF Pv(h)[i] = NULL /\ j = p THEN Nx(h)[i] ELSE Cd(h)[j]
  BY <1>1, <1>2, <1>4, DetachIs
<1>7. /\ \A j \in Item : Nx(g)[j] = IF j = i THEN NULL ELSE IF j = Pv(e)[i] THEN Nx(e)[i] ELSE Nx(e)[j]
      /\ \A j \in Item : Cd(g)[j] = IF Pv(e)[i] = NULL /\ j = p THEN Nx(e)[i] ELSE Cd(e)[j]
  BY <1>1, <1>2, <1>3, <1>4, DetachIs
<1>8. \A j \in Item : Nx(g)[j] = Nx(f)[j] /\ Cd(g)[j] = Cd(f)[j]
  BY <1>6, <1>7
<1>9. /\ \A j \in Item : Kd(f)[j] = IF h.cell[j].isRef THEN NULL ELSE Cd(f)[j]
      /\ \A j \in Item : Kd(g)[j] = IF e.cell[j].isRef THEN NULL ELSE Cd(g)[j]
  BY <1>1, <1>5, KdIs
<1>10. \A j \in Item : Kd(g)[j] = Kd(f)[j]
  BY <1>8, <1>9
<1>11. Nx(g) = Nx(f)
  BY <1>8 DEF Nx
<1>12. Kd(g) = Kd(f)
  BY <1>10 DEF Kd
<1>13. f \in Heap /\ g \in Heap
  BY <1>5 DEF Rewired
<1> QED
  BY <1>4, <1>11, <1>12, <1>13, DoomedSame

Given == Name \cup {NoCopy}

LEMMA GivenWhole ==
  ASSUME NEW h, NEW R, NEW up, Whole(h, R, up), NEW i \in Live(h), NEW n \in Given,
         NEW constant \in BOOLEAN, NEW g, g = NewKey(h, i, n, constant)
  PROVE  /\ Whole(g, R, up) /\ g.cell[i].string # NoName
         /\ Live(g) = Live(h) /\ Nx(g) = Nx(h) /\ Pv(g) = Pv(h) /\ Kd(g) = Kd(h)
         /\ \A j \in Item : /\ g.cell[j].isRef = h.cell[j].isRef /\ g.cell[j].type = h.cell[j].type
                            /\ g.cell[j].child = h.cell[j].child
<1>1. n \in Name \cup {NoCopy}
  BY DEF Given
<1> QED
  BY <1>1, KeyWhole

LEMMA ReplaceItemInObjectKeeps ==
  ASSUME Inv, NEW p \in Container("object"), NEW n \in Name, NEW r \in held, NEW cs \in BOOLEAN,
         NEW keyCopied \in BOOLEAN, ReplaceItemInObject(p, n, r, cs, keyCopied)
  PROVE  Inv'
<1>1. PICK up : Whole(heap, Roots, up)
  BY DEF Inv, Sound
<1> DEFINE i == get_object_item(heap, p, n, cs)
           D == Doomed(cJSON_DetachItemViaPointer(heap, p, i), i)
           name == IF keyCopied THEN n ELSE NoCopy
           e == NewKey(heap, r, name, FALSE)
<1>2. /\ Fits(p, r) /\ MayDelete(p, i) /\ heap' = cJSON_ReplaceItemViaPointer(e, p, i, r)
      /\ held' = (IF i = NULL THEN held ELSE held \ {r}) /\ lost' = lost
      /\ Alone(heap, Roots) /\ r \in Roots
  BY DEF ReplaceItemInObject, Inv, Sound, Roots
<1>9. PICK no \in BOOLEAN : no = FALSE
  OBVIOUS
<1>3. /\ i = get_object_item(heap, p, n, cs) /\ e = NewKey(heap, r, name, no)
      /\ name \in Given
  BY <1>9 DEF Given
<1> HIDE DEF i, e, name
<1>4. /\ heap \in Heap /\ r \in Item /\ Nx(heap)[r] = NULL /\ r \in Live(heap)
      /\ p \in Live(heap) /\ ~heap.cell[p].isRef /\ Live(heap) \in SUBSET Item
  BY <1>1, <1>2, WholeParts, ContainerIs DEF Alone
<1>5. /\ Whole(e, Roots, up) /\ e.cell[r].string # NoName
      /\ Live(e) = Live(heap) /\ Nx(e) = Nx(heap) /\ Pv(e) = Pv(heap) /\ Kd(e) = Kd(heap)
      /\ \A j \in Item : /\ e.cell[j].isRef = heap.cell[j].isRef
                         /\ e.cell[j].type = heap.cell[j].type
                         /\ e.cell[j].child = heap.cell[j].child
  BY <1>1, <1>3, <1>4, GivenWhole
<1>6. Alone(e, Roots)
  BY <1>2, <1>5 DEF Alone
<1>10. Kept(heap, e)
  BY <1>4, <1>5 DEF Kept
<1>7. CASE i = NULL
  <2>1. heap' = e /\ held' = held
    BY <1>2, <1>7 DEF cJSON_ReplaceItemViaPointer
  <2>2. Sound(heap', Roots)
    BY <1>5, <1>6, <2>1 DEF Sound
  <2> QED
    BY <1>2, <1>10, <2>1, <2>2, InvSame
<1>8. CASE i # NULL
  <2>1. Member(heap, up, p, i)
    BY <1>1, <1>3, <1>8, FoundMember
  <2>2. D = Doomed(cJSON_DetachItemViaPointer(heap, p, i), i) /\ Unwatched(D)
    BY <1>2, <1>8 DEF MayDelete
  <2> HIDE DEF D
  <2>3. \A x \in Live(heap) \ D : heap.cell[x].isRef => heap.cell[x].child \notin D
    BY <2>2, UnwatchedIs
  <2>4. Member(e, up, p, i)
    BY <1>4, <1>5, <2>1 DEF Member
  <2>5. Cd(e) = Cd(heap)
    BY <1>5 DEF Cd
  <2>6. Doomed(cJSON_DetachItemViaPointer(e, p, i), i)
          = Doomed(cJSON_DetachItemViaPointer(heap, p, i), i)
    BY <1>1, <1>2, <1>5, <1>6, <2>1, <2>4, <2>5, DetachedSame
  <2>7. e \in Heap
    BY <1>5, WholeParts
  <2>8. Doomed(e, r) = Doomed(heap, r)
    BY <1>4, <1>5, <2>7, DoomedSame
  <2>9. Addable(e, Roots, p, r)
    BY <1>2, <1>4, <1>5, <2>8, FitsOut DEF Addable
  <2>10. \A x \in Live(e) \ D : e.cell[x].isRef => e.cell[x].child \notin D
    BY <1>4, <1>5, <2>3
  <2>11. D = Doomed(cJSON_DetachItemViaPointer(e, p, i), i)
    BY <2>2, <2>6
  <2>12. (\E up2 : Whole(heap', Roots \ {r}, up2)) /\ Alone(heap', Roots \ {r}) /\ Kept(e, heap')
    BY <1>2, <1>5, <1>6, <2>4, <2>9, <2>10, <2>11, ReplaceWhole
  <2>13. held' = held \ {r}
    BY <1>2, <1>8
  <2>14. Sound(heap', Roots \ {r})
    BY <2>12 DEF Sound
  <2>15. Kept(heap, heap')
    BY <1>5, <1>10, <2>12, KeptThen
  <2> QED
    BY <1>2, <2>13, <2>14, <2>15, InvGiven
<1> QED
  BY <1>7, <1>8

-----------------------------------------------------------------------------
(* The recursion of copy: what a call makes of the copies of its members   *)
(* and of its siblings.                                                    *)
KidsCall(c) ==
  [heap |-> CopyItem(c.heap, c.item, Fresh(c.heap)), item |-> c.heap.cell[c.item].child,
   siblings |-> TRUE]

Attached(f, c) == SetChild(f[KidsCall(c)].heap, Fresh(c.heap), f[KidsCall(c)].item)

RestCall(f, c) ==
  [heap |-> Attached(f, c), item |-> c.heap.cell[c.item].next, siblings |-> TRUE]

Made(h, i, ok) == [heap |-> h, item |-> i, ok |-> ok]

Body(f, c) ==
  IF c.item = NULL THEN Made(c.heap, NULL, TRUE)
  ELSE IF Fresh(c.heap) = NULL THEN Made(c.heap, NULL, FALSE)
  ELSE IF ~f[KidsCall(c)].ok THEN Made(cJSON_Delete(Attached(f, c), Fresh(c.heap)), NULL, FALSE)
  ELSE IF ~c.siblings THEN Made(Attached(f, c), Fresh(c.heap), TRUE)
  ELSE Made(suffix_object(f[RestCall(f, c)].heap, Fresh(c.heap), f[RestCall(f, c)].item),
            Fresh(c.heap), f[RestCall(f, c)].ok)

LEMMA CopyIs == copy = CHOOSE f : f = [c \in Call |-> Body(f, c)]
BY DEF copy, Body, Call, KidsCall, RestCall, Attached, Made

Free(h) == Cardinality(Item \ Live(h))

LEMMA FreeFewer ==
  ASSUME NEW h, NEW g, Live(h) \subseteq Live(g), NEW n \in Live(g), n \notin Live(h)
  PROVE  Free(g) < Free(h) /\ Free(g) \in Nat /\ Free(h) \in Nat
<1>1. n \in Item
  BY DEF Live
<1> DEFINE A == Item \ Live(h)
           B == Item \ Live(g)
<1>2. IsFiniteSet(A) /\ B \subseteq A /\ B # A
  BY <1>1, ItemsFinite
<1>3. Cardinality(A) \in Nat /\ Cardinality(B) \in Nat
  BY ItemsFinite
<1>4. Cardinality(B) <= Cardinality(A) /\ (Cardinality(B) = Cardinality(A) => B = A)
  BY <1>2, FS_Subset
<1> QED
  BY <1>2, <1>3, <1>4 DEF Free

LEMMA FreeNat == ASSUME NEW h PROVE Free(h) \in Nat /\ Free(h) <= MaxItems
<1>1. Item \ Live(h) \in SUBSET Item
  OBVIOUS
<1> QED
  BY <1>1, ItemsFinite DEF Free

(* The calls with less than m items free.                                  *)
Stage(m) == {c \in Call : Free(c.heap) < m}

(* What comes of a call that had memory enough.                            *)
Sane(c, r) ==
  r.ok => /\ r.heap \in Heap /\ Live(c.heap) \subseteq Live(r.heap)
          /\ r.item \in Item \cup {NULL}

LEMMA KidsCallIs ==
  ASSUME NEW c \in Call, c.item # NULL, Fresh(c.heap) # NULL
  PROVE  /\ KidsCall(c) \in Call /\ Free(KidsCall(c).heap) < Free(c.heap)
         /\ Fresh(c.heap) \in Item \ Live(c.heap)
         /\ Fresh(c.heap) \in Live(KidsCall(c).heap)
         /\ Live(c.heap) \subseteq Live(KidsCall(c).heap)
<1> DEFINE h == c.heap
           i == c.item
           n == Fresh(h)
           g == CopyItem(h, i, n)
<1>1. h \in Heap /\ i \in Item
  BY DEF Call
<1>2. n \in Item \ Live(h)
  BY <1>1, FreshIs
<1>3. g = CopyItem(h, i, n) /\ n = Fresh(c.heap)
  OBVIOUS
<1>4. KidsCall(c).heap = g /\ KidsCall(c).item = h.cell[i].child /\ KidsCall(c).siblings = TRUE
  BY DEF KidsCall
<1>10. KidsCall(c) = [heap |-> g, item |-> h.cell[i].child, siblings |-> TRUE]
  BY DEF KidsCall
<1> HIDE DEF g, n
<1>5. Added(h, g, n, CopyOf(h.cell[i], n))
  BY <1>1, <1>2, <1>3, CopyAdds
<1>6. /\ g \in Heap /\ \A j \in Item : g.cell[j] = IF j = n THEN CopyOf(h.cell[i], n) ELSE h.cell[j]
  BY <1>5 DEF Added
<1>7. n \in Live(g) /\ Live(h) \subseteq Live(g)
  BY <1>2, <1>6 DEF Live, CopyOf
<1>8. Free(g) < Free(h)
  BY <1>2, <1>7, FreeFewer
<1>9. h.cell[i].child \in Item \cup {NULL}
  BY <1>1, HeapTypes DEF Pointers
<1>11. KidsCall(c) \in Call
  BY <1>6, <1>9, <1>10 DEF Call
<1> QED
  BY <1>2, <1>3, <1>4, <1>7, <1>8, <1>11

LEMMA AttachedIs ==
  ASSUME NEW f, NEW c \in Call, c.item # NULL, Fresh(c.heap) # NULL,
         Sane(KidsCall(c), f[KidsCall(c)]), f[KidsCall(c)].ok
  PROVE  /\ Attached(f, c) \in Heap /\ Live(c.heap) \subseteq Live(Attached(f, c))
         /\ Fresh(c.heap) \in Item \ Live(c.heap) /\ Fresh(c.heap) \in Live(Attached(f, c))
         /\ RestCall(f, c) \in Call /\ Free(RestCall(f, c).heap) < Free(c.heap)
         /\ RestCall(f, c).heap = Attached(f, c)
<1> DEFINE n == Fresh(c.heap)
           k == KidsCall(c)
           e == Attached(f, c)
<1>1. /\ k \in Call /\ n \in Item \ Live(c.heap)
      /\ n \in Live(k.heap) /\ Live(c.heap) \subseteq Live(k.heap)
  BY KidsCallIs
<1>2. /\ f[k].heap \in Heap /\ Live(k.heap) \subseteq Live(f[k].heap)
      /\ f[k].item \in Item \cup {NULL}
  BY DEF Sane
<1>3. e = SetChild(f[k].heap, n, f[k].item)
  BY DEF Attached
<1> HIDE DEF e, n, k
<1>4. Rewired(f[k].heap, e)
  BY <1>1, <1>2, <1>3, SetChildIs
<1>5. e \in Heap /\ Live(e) = Live(f[k].heap)
  BY <1>2, <1>4, KdIs DEF Rewired
<1>6. Live(c.heap) \subseteq Live(e) /\ n \in Live(e)
  BY <1>1, <1>2, <1>5
<1>7. Free(e) < Free(c.heap)
  BY <1>1, <1>6, FreeFewer
<1>8. RestCall(f, c) = [heap |-> e, item |-> c.heap.cell[c.item].next, siblings |-> TRUE]
  BY DEF RestCall, e
<1>9. c.heap.cell[c.item].next \in Item \cup {NULL}
  <2>1. c.heap \in Heap /\ c.item \in Item
    BY DEF Call
  <2> QED
    BY <2>1, HeapTypes DEF Pointers
<1>10. RestCall(f, c) \in Call /\ RestCall(f, c).heap = e
  BY <1>5, <1>8, <1>9 DEF Call
<1> QED
  BY <1>1, <1>5, <1>6, <1>7, <1>10 DEF e, n

(* A call looks only at calls with less memory.                            *)
LEMMA BodyLocal ==
  ASSUME NEW f, NEW e, NEW c \in Call,
         \A d \in Stage(Free(c.heap)) : f[d] = e[d] /\ Sane(d, f[d])
  PROVE  Body(f, c) = Body(e, c) /\ Sane(c, Body(f, c))
<1> DEFINE n == Fresh(c.heap)
           k == KidsCall(c)
           r == RestCall(f, c)
<1>1. CASE c.item = NULL
  <2>1. Body(f, c) = Made(c.heap, NULL, TRUE) /\ Body(e, c) = Made(c.heap, NULL, TRUE)
    BY <1>1 DEF Body
  <2> QED
    BY <2>1 DEF Made, Sane, Call
<1>2. CASE c.item # NULL /\ n = NULL
  <2>1. Body(f, c) = Made(c.heap, NULL, FALSE) /\ Body(e, c) = Made(c.heap, NULL, FALSE)
    BY <1>2 DEF Body
  <2> QED
    BY <2>1 DEF Made, Sane
<1>3. CASE c.item # NULL /\ n # NULL
  <2>1. k \in Stage(Free(c.heap))
    BY <1>3, KidsCallIs DEF Stage
  <2>2. f[k] = e[k] /\ Sane(k, f[k])
    BY <2>1
  <2>3. Attached(e, c) = Attached(f, c)
    BY <2>2 DEF Attached
  <2>4. RestCall(e, c) = r
    BY <2>3 DEF RestCall
  <2>5. CASE ~f[k].ok
    <3>1. Body(f, c) = Made(cJSON_Delete(Attached(f, c), n), NULL, FALSE)
      BY <1>3, <2>5 DEF Body
    <3>2. ~e[k].ok
      BY <2>2, <2>5
    <3>3. Body(e, c) = Made(cJSON_Delete(Attached(e, c), n), NULL, FALSE)
      BY <1>3, <3>2 DEF Body
    <3> QED
      BY <2>3, <3>1, <3>3 DEF Made, Sane
  <2>6. CASE f[k].ok /\ ~c.siblings
    <3>1. Body(f, c) = Made(Attached(f, c), n, TRUE)
      BY <1>3, <2>6 DEF Body
    <3>2. e[k].ok
      BY <2>2, <2>6
    <3>3. Body(e, c) = Made(Attached(e, c), n, TRUE)
      BY <1>3, <2>6, <3>2 DEF Body
    <3>4. /\ Attached(f, c) \in Heap /\ Live(c.heap) \subseteq Live(Attached(f, c)) /\ n \in Item
      BY <1>3, <2>2, <2>6, AttachedIs
    <3> QED
      BY <2>3, <3>1, <3>3, <3>4 DEF Made, Sane
  <2>7. CASE f[k].ok /\ c.siblings
    <3>1. /\ Live(c.heap) \subseteq Live(Attached(f, c)) /\ n \in Item
          /\ r \in Call /\ Free(r.heap) < Free(c.heap) /\ r.heap = Attached(f, c)
      BY <1>3, <2>2, <2>7, AttachedIs
    <3>2. r \in Stage(Free(c.heap))
      BY <3>1 DEF Stage
    <3>3. f[r] = e[r] /\ Sane(r, f[r])
      BY <3>2
    <3>4. Body(f, c) = Made(suffix_object(f[r].heap, n, f[r].item), n, f[r].ok)
      BY <1>3, <2>7 DEF Body
    <3>5. e[k].ok
      BY <2>2, <2>7
    <3>6. Body(e, c) = Made(suffix_object(e[r].heap, n, e[r].item), n, e[r].ok)
      BY <1>3, <2>4, <2>7, <3>5 DEF Body
    <3>7. ASSUME f[r].ok
          PROVE  /\ suffix_object(f[r].heap, n, f[r].item) \in Heap
                 /\ Live(c.heap) \subseteq Live(suffix_object(f[r].heap, n, f[r].item))
      <4>1. /\ f[r].heap \in Heap /\ Live(r.heap) \subseteq Live(f[r].heap)
            /\ f[r].item \in Item \cup {NULL}
        BY <3>3, <3>7 DEF Sane
      <4> DEFINE a == SetNext(f[r].heap, n, f[r].item)
                 b == SetPrev(a, f[r].item, n)
      <4>2. b = suffix_object(f[r].heap, n, f[r].item) /\ a = SetNext(f[r].heap, n, f[r].item)
            /\ b = SetPrev(a, f[r].item, n)
        BY DEF suffix_object
      <4>3. n \in Item \cup {NULL}
        BY <3>1
      <4> HIDE DEF a, b
      <4>4. Rewired(f[r].heap, a)
        BY <4>1, <4>2, <4>3, SetNextIs
      <4>5. a \in Heap /\ Live(a) = Live(f[r].heap)
        BY <4>1, <4>4, KdIs DEF Rewired
      <4>8. PICK x \in Item \cup {NULL} : x = f[r].item
        BY <4>1
      <4>9. b = SetPrev(a, x, n)
        BY <4>2, <4>8
      <4>6. Rewired(a, b)
        BY <4>3, <4>5, <4>9, SetPrevIs
      <4>7. b \in Heap /\ Live(b) = Live(a)
        BY <4>5, <4>6, KdIs DEF Rewired
      <4> QED
        BY <3>1, <4>1, <4>2, <4>5, <4>7
    <3>8. Body(f, c) = Body(e, c)
      BY <3>3, <3>4, <3>6
    <3>9. Body(f, c).heap = suffix_object(f[r].heap, n, f[r].item) /\ Body(f, c).item = n
          /\ Body(f, c).ok = f[r].ok
      BY <3>4 DEF Made
    <3>10. Sane(c, Body(f, c))
      BY <3>1, <3>7, <3>9 DEF Sane
    <3> QED
      BY <3>8, <3>10
  <2> QED
    BY <2>5, <2>6, <2>7
<1> QED
  BY <1>1, <1>2, <1>3

(* So there is a function that does it: for the calls with no item free,   *)
(* with one, and so on.                                                    *)
Copies(m, f) ==
  /\ f = [c \in Stage(m) |-> Body(f, c)]
  /\ \A c \in Stage(m) : Sane(c, f[c])

LEMMA CopyStages ==
  ASSUME NEW m \in Nat
  PROVE  \E f : Copies(m, f)
<1> DEFINE Bad == {k \in Nat : ~ \E f : Copies(k, f)}
<1> SUFFICES ASSUME Bad # {} PROVE FALSE
  OBVIOUS
<1>1. PICK k \in Bad : \A l \in Bad : k <= l
  <2>1. Bad \in SUBSET Nat
    OBVIOUS
  <2> HIDE DEF Bad
  <2> QED
    BY <2>1, LeastNat
<1>2. k # 0
  <2> SUFFICES ASSUME k = 0 PROVE FALSE
    OBVIOUS
  <2>1. Stage(0) = {}
    <3>1. ASSUME NEW c \in Stage(0) PROVE FALSE
      <4>1. Free(c.heap) < 0
        BY DEF Stage
      <4> QED
        BY <4>1, FreeNat
    <3> QED
      BY <3>1
  <2> DEFINE z == [c \in {} |-> {}]
  <2>2. z = [c \in Stage(0) |-> Body(z, c)]
    BY <2>1
  <2>3. Copies(0, z)
    <3> HIDE DEF z
    <3> QED
      BY <2>1, <2>2 DEF Copies
  <2> QED
    BY <2>3
<1>3. k \in Nat /\ k - 1 \in Nat /\ k - 1 \notin Bad
  <2>1. k \in Nat
    OBVIOUS
  <2> HIDE DEF Bad
  <2>2. k - 1 \in Nat /\ ~ (k <= k - 1)
    BY <1>2, <2>1
  <2> QED
    BY <1>1, <2>1, <2>2
<1>4. PICK f : Copies(k - 1, f)
  BY <1>3
<1>5. f = [c \in Stage(k - 1) |-> Body(f, c)] /\ \A c \in Stage(k - 1) : Sane(c, f[c])
  BY <1>4 DEF Copies
<1> DEFINE e == [c \in Stage(k) |-> IF c \in Stage(k - 1) THEN f[c] ELSE Body(f, c)]
<1>6. \A c \in Stage(k) : e[c] = IF c \in Stage(k - 1) THEN f[c] ELSE Body(f, c)
  OBVIOUS
<1>7. Stage(k - 1) \subseteq Stage(k)
  BY <1>3, FreeNat DEF Stage
<1>8. e = [c \in Stage(k) |-> IF c \in Stage(k - 1) THEN f[c] ELSE Body(f, c)]
  OBVIOUS
<1> HIDE DEF e
<1>9. ASSUME NEW c \in Stage(k) PROVE e[c] = Body(e, c) /\ Sane(c, e[c])
  <2>1. c \in Call /\ Free(c.heap) < k /\ Free(c.heap) \in Nat
    BY FreeNat DEF Stage
  <2>2. Stage(Free(c.heap)) \subseteq Stage(k - 1)
    BY <1>3, <2>1, FreeNat DEF Stage
  <2>3. \A d \in Stage(Free(c.heap)) : f[d] = e[d] /\ Sane(d, f[d])
    BY <1>5, <1>6, <1>7, <2>2
  <2>4. Body(f, c) = Body(e, c) /\ Sane(c, Body(f, c))
    BY <2>1, <2>3, BodyLocal
  <2>5. e[c] = Body(f, c)
    BY <1>5, <1>6
  <2> QED
    BY <2>4, <2>5
<1>10. e = [c \in Stage(k) |-> Body(e, c)]
  BY <1>8, <1>9
<1>11. Copies(k, e)
  BY <1>9, <1>10 DEF Copies
<1> QED
  BY <1>1, <1>11

(* What copy makes of a call.                                              *)
LEMMA CopyAt ==
  ASSUME NEW c \in Call
  PROVE  copy[c] = Body(copy, c)
<1>1. MaxItems + 1 \in Nat
  BY ItemsFinite
<1>2. PICK f : Copies(MaxItems + 1, f)
  BY <1>1, CopyStages
<1>3. Stage(MaxItems + 1) = Call
  BY <1>1, FreeNat, ItemsFinite DEF Stage
<1>4. f = [d \in Call |-> Body(f, d)]
  BY <1>2, <1>3 DEF Copies
<1>5. copy = [d \in Call |-> Body(copy, d)]
  BY <1>4, CopyIs
<1> QED
  BY <1>5

-----------------------------------------------------------------------------
(* What a call that only adds items leaves of what was there: all of it,   *)
(* and what is new is no reference and in no old list.                     *)
Grown(h, up, g, up2) ==
  /\ Live(h) \subseteq Live(g)
  /\ \A j \in Live(h) : g.cell[j] = h.cell[j] /\ up2[j] = up[j]
  /\ \A j \in Live(g) \ Live(h) : ~g.cell[j].isRef /\ up2[j] \notin Live(h)

LEMMA GrownSelf == ASSUME NEW h, NEW up PROVE Grown(h, up, h, up)
BY DEF Grown

LEMMA GrownThen ==
  ASSUME NEW h, NEW up, NEW g, NEW up2, Grown(h, up, g, up2), NEW e, NEW up3,
         Grown(g, up2, e, up3)
  PROVE  Grown(h, up, e, up3)
BY DEF Grown

LEMMA GrownNew ==
  ASSUME NEW h, NEW R, NEW up, Whole(h, R, up), NEW n \in Item \ Live(h),
         NEW c, ~c.isRef, NEW g, Added(h, g, n, c), Live(g) = Live(h) \cup {n},
         NEW up2, Orphaned(up, up2, n)
  PROVE  Grown(h, up, g, up2)
<1>1. Live(h) \in SUBSET Item /\ NULL \notin Item
  BY WholeParts
<1>2. \A j \in Item : g.cell[j] = IF j = n THEN c ELSE h.cell[j]
  BY DEF Added
<1> QED
  BY <1>1, <1>2 DEF Grown, Orphaned

(* What hangs from a new item is new.                                      *)
LEMMA NewApart ==
  ASSUME NEW h, NEW R, NEW up, Whole(h, R, up), NEW g, NEW S, NEW up2, Whole(g, S, up2),
         Grown(h, up, g, up2), NEW k \in S, k \notin Live(h)
  PROVE  /\ Doomed(g, k) \in SUBSET (Live(g) \ Live(h))
         /\ \A r \in Live(g) \ Doomed(g, k) : g.cell[r].isRef => g.cell[r].child \notin Doomed(g, k)
<1>1. h \in Heap /\ HeapGraph(h, R, up) /\ Live(h) \in SUBSET Item /\ NULL \notin Item
  BY WholeParts
<1>2. g \in Heap /\ HeapGraph(g, S, up2) /\ Live(g) \in SUBSET Item
  BY WholeParts
<1> DEFINE D == Doomed(g, k)
           X == D \cap Live(h)
<1>3. D \in SUBSET Live(g) /\ Tree(Nx(g), Pv(g), Kd(g), up2, k, D)
  BY <1>2, DoomedTree
<1> HIDE DEF D
<1>4. X = {}
  <2> SUFFICES ASSUME X # {} PROVE FALSE
    OBVIOUS
  <2>1. Rooted(Live(g), Pv(g), up2)
    BY <1>2 DEF HeapGraph, Graph
  <2>2. PICK x \in X : Par(Pv(g), up2, x) \notin X
    <3>1. X \in SUBSET Live(g)
      BY <1>3
    <3> HIDE DEF X
    <3> QED
      BY <2>1, <3>1 DEF Rooted
  <2>3. x \in Live(h) /\ x \in Item /\ x \in D /\ x # k
    BY <1>1
  <2>4. Par(Pv(g), up2, x) \in D
    BY <1>3, <2>3 DEF Tree
  <2>5. Pv(g)[x] = Pv(h)[x] /\ up2[x] = up[x]
    BY <2>3 DEF Grown, Pv
  <2>6. Pv(h)[x] # NULL => Pv(h)[x] \in Live(h)
    BY <1>1, <2>3 DEF HeapGraph, Graph, Node
  <2>7. up[x] # NULL => up[x] \in Live(h)
    <3>1. Graph(Live(h), Nx(h), Pv(h), Kd(h), R, up)
      BY <1>1 DEF HeapGraph
    <3> QED
      BY <2>3, <3>1, UpLive
  <2>8. Par(Pv(g), up2, x) \in Item
    BY <1>2, <1>3, <2>4
  <2> QED
    BY <1>1, <2>2, <2>4, <2>5, <2>6, <2>7, <2>8 DEF Par
<1>5. D \in SUBSET (Live(g) \ Live(h))
  BY <1>3, <1>4
<1>6. ASSUME NEW r \in Live(g), g.cell[r].isRef PROVE g.cell[r].child \notin D
  <2>1. r \in Live(h) /\ g.cell[r] = h.cell[r]
    BY <1>6 DEF Grown
  <2>2. Shown(h, up, h.cell[r])
    BY <2>1 DEF Whole
  <2>3. h.cell[r].child # NULL => h.cell[r].child \in Live(h)
    BY <1>6, <2>1, <2>2 DEF Shown
  <2> QED
    BY <1>1, <1>2, <1>5, <2>1, <2>3
<1> QED
  BY <1>5, <1>6 DEF D

(* A list of new items that is linked to a new item, or to none.           *)
LEMMA GrownLinked ==
  ASSUME NEW h, NEW R, NEW up, Whole(h, R, up), NEW g \in Heap, NEW up2, Grown(h, up, g, up2),
         NEW e, Rewired(g, e),
         \A j \in Live(h) : Nx(e)[j] = Nx(g)[j] /\ Pv(e)[j] = Pv(g)[j] /\ Cd(e)[j] = Cd(g)[j],
         NEW k, Doomed(g, k) \in SUBSET (Live(g) \ Live(h)),
         NEW p, p \notin Live(h), NEW up3, Adopted(g, up2, up3, p, k)
  PROVE  Grown(h, up, e, up3)
<1>1. Live(h) \in SUBSET Item
  BY WholeParts
<1>2. e \in Heap /\ Live(e) = Live(g)
  BY KdIs DEF Rewired
<1>3. ASSUME NEW j \in Live(h) PROVE e.cell[j] = h.cell[j] /\ up3[j] = up[j]
  <2>1. j \in Item
    BY <1>1
  <2>2. g.cell[j] \in Cell /\ e.cell[j] \in Cell /\ SameItem(g.cell[j], e.cell[j])
    BY <1>2, <2>1, CellsOfHeap DEF Rewired
  <2>3. /\ e.cell[j].next = g.cell[j].next /\ e.cell[j].prev = g.cell[j].prev
        /\ e.cell[j].child = g.cell[j].child
    BY <2>1 DEF Nx, Pv, Cd
  <2>4. e.cell[j] = g.cell[j]
    BY <2>2, <2>3, SameCell DEF SameItem
  <2>5. up3[j] = up2[j]
    BY <2>1 DEF Adopted
  <2> QED
    BY <2>4, <2>5 DEF Grown
<1>4. ASSUME NEW j \in Live(e) \ Live(h) PROVE ~e.cell[j].isRef /\ up3[j] \notin Live(h)
  <2>1. j \in Live(g) \ Live(h) /\ j \in Item
    BY <1>2 DEF Live
  <2>2. ~e.cell[j].isRef
    BY <2>1 DEF Grown, Rewired, SameItem
  <2>3. up3[j] = up2[j] \/ up3[j] = p
    BY <2>1 DEF Adopted
  <2> QED
    BY <2>1, <2>2, <2>3 DEF Grown
<1> QED
  BY <1>2, <1>3, <1>4 DEF Grown

LEMMA SetChildSame ==
  ASSUME NEW h \in Heap, NEW n \in Item, h.cell[n].child = NULL, NEW g, g = SetChild(h, n, NULL)
  PROVE  g = h
<1>1. h = [cell |-> h.cell, blocks |-> h.blocks, misused |-> h.misused] /\ h.cell \in [Item -> Cell]
  BY DEF Heap
<1>2. g = [h EXCEPT !.cell[n].child = NULL]
  BY DEF SetChild
<1>3. [h.cell[n] EXCEPT !.child = NULL] = h.cell[n]
  <2>1. h.cell[n] \in Cell
    BY <1>1
  <2> QED
    BY <2>1 DEF Cell
<1>4. [h.cell EXCEPT ![n] = h.cell[n]] = h.cell
  BY <1>1
<1> QED
  BY <1>1, <1>2, <1>3, <1>4

LEMMA SetNextSame ==
  ASSUME NEW h \in Heap, NEW n \in Item, h.cell[n].next = NULL, NEW g, g = SetNext(h, n, NULL)
  PROVE  g = h
<1>1. h = [cell |-> h.cell, blocks |-> h.blocks, misused |-> h.misused] /\ h.cell \in [Item -> Cell]
  BY DEF Heap
<1>2. g = [h EXCEPT !.cell[n].next = NULL]
  BY NoItem DEF SetNext
<1>3. [h.cell[n] EXCEPT !.next = NULL] = h.cell[n]
  <2>1. h.cell[n] \in Cell
    BY <1>1
  <2> QED
    BY <2>1 DEF Cell
<1>4. [h.cell EXCEPT ![n] = h.cell[n]] = h.cell
  BY <1>1
<1> QED
  BY <1>1, <1>2, <1>3, <1>4

(* The item that a live item points to first, and the type it has there.   *)
LEMMA ChildIs ==
  ASSUME NEW h, NEW R, NEW up, Whole(h, R, up), NEW i \in Live(h), h.cell[i].child # NULL
  PROVE  /\ h.cell[i].child \in Live(h) /\ up[h.cell[i].child] # NULL
         /\ h.cell[up[h.cell[i].child]].type = h.cell[i].type
<1>1. h \in Heap /\ HeapGraph(h, R, up) /\ Live(h) \in SUBSET Item /\ NULL \notin Item
  BY WholeParts
<1> DEFINE j == h.cell[i].child
<1>2. CASE h.cell[i].isRef
  BY <1>2 DEF Whole, Shown
<1>3. CASE ~h.cell[i].isRef
  <2>1. Kd(h)[i] = j
    BY <1>1, <1>3 DEF Kd
  <2>2. Node(Live(h), Nx(h), Pv(h), Kd(h), R, up, i)
    BY <1>1 DEF HeapGraph, Graph
  <2>3. j \in Live(h) /\ up[j] = i
    BY <2>1, <2>2 DEF Node
  <2> QED
    BY <1>1, <2>3
<1> QED
  BY <1>2, <1>3

LEMMA NextIs ==
  ASSUME NEW h, NEW R, NEW up, Whole(h, R, up), NEW i \in Live(h), h.cell[i].next # NULL
  PROVE  h.cell[i].next \in Live(h) /\ up[h.cell[i].next] = up[i]
<1>1. h \in Heap /\ HeapGraph(h, R, up) /\ i \in Item
  BY WholeParts
<1>2. Node(Live(h), Nx(h), Pv(h), Kd(h), R, up, i)
  BY <1>1 DEF HeapGraph, Graph
<1>3. Nx(h)[i] = h.cell[i].next
  BY <1>1 DEF Nx
<1> QED
  BY <1>2, <1>3 DEF Node

-----------------------------------------------------------------------------
(* What copy promises of a whole heap, memory or not: what was there is as *)
(* it was, and what is new hangs from the copy, which belongs to no list,  *)
(* or is gone.                                                             *)
NamedFor(h, up, i, g, up2, k) ==
  up[i] # NULL /\ h.cell[up[i]].type = "object" =>
    \A x \in Doomed(g, k) : up2[x] = NULL => g.cell[x].string # NoName

Copied(h, R, up, i, r) ==
  /\ r.item = NULL \/ r.item \in Item \ Live(h)
  /\ \E up2 \in Pointers :
       /\ Whole(r.heap, IF r.item = NULL THEN R ELSE R \cup {r.item}, up2)
       /\ Grown(h, up, r.heap, up2)
       /\ r.item # NULL => NamedFor(h, up, i, r.heap, up2, r.item)

CallOf(h, i, s) == [heap |-> h, item |-> i, siblings |-> s]

CopiesBelow(m) ==
  \A h, R, up, i, s :
    Whole(h, R, up) /\ Free(h) < m /\ i \in Live(h) \cup {NULL} /\ s \in BOOLEAN =>
      Copied(h, R, up, i, copy[CallOf(h, i, s)])

Joins(R, up, n, h, g) ==
  /\ Live(g) = Live(h) \cup {n}
  /\ \E up1 \in Pointers : Whole(g, R \cup {n}, up1) /\ Orphaned(up, up1, n)

LEMMA NewJoins ==
  ASSUME NEW h, NEW R, NEW up, Whole(h, R, up), NEW n \in Item \ Live(h),
         NEW c, NewCell(h, up, c), NEW g, Added(h, g, n, c)
  PROVE  Joins(R, up, n, h, g)
BY NewWhole DEF Joins

(* The copy of an item with its members, whether they all fitted or not.   *)
LEMMA AttachedWhole ==
  ASSUME NEW h, NEW R, NEW up, Whole(h, R, up), CopiesBelow(Free(h)),
         NEW i \in Live(h), NEW n, n = Fresh(h), n # NULL, NEW s \in BOOLEAN,
         NEW e, e = Attached(copy, CallOf(h, i, s))
  PROVE  \E up3 \in Pointers :
           /\ Whole(e, R \cup {n}, up3) /\ Grown(h, up, e, up3)
           /\ e.cell[n].string = h.cell[i].string /\ e.cell[n].next = NULL
<1> DEFINE g == CopyItem(h, i, n)
           j == h.cell[i].child
           k == copy[CallOf(g, j, TRUE)]
           c == CopyOf(h.cell[i], n)
<1>1. h \in Heap /\ R \in SUBSET Live(h) /\ Live(h) \in SUBSET Item /\ NULL \notin Item /\ i \in Item
      /\ up \in Pointers
  BY WholeParts
<1>2. n \in Item \ Live(h)
  BY <1>1, FreshIs
<1>3. e = SetChild(k.heap, n, k.item)
  BY DEF Attached, CallOf, KidsCall
<1>4. g = CopyItem(h, i, n)
  OBVIOUS
<1>5. /\ c.live = TRUE /\ c.next = NULL /\ c.prev = NULL /\ c.child = NULL /\ c.isRef = FALSE
      /\ c.string = h.cell[i].string /\ c.type = h.cell[i].type
  BY DEF CopyOf
<1> HIDE DEF g, c
<1>6. NewCell(h, up, c) /\ Added(h, g, n, c)
  BY <1>1, <1>2, <1>4, CopyAdds DEF c
<1>7. Live(g) = Live(h) \cup {n} /\ \E up1 \in Pointers : Whole(g, R \cup {n}, up1) /\ Orphaned(up, up1, n)
  <2>1. PICK d : d = c
    OBVIOUS
  <2>2. NewCell(h, up, d) /\ Added(h, g, n, d)
    BY <1>6, <2>1
  <2>3. Joins(R, up, n, h, g)
    BY <1>2, <2>2, NewJoins
  <2> QED
    BY <2>3 DEF Joins
<1>8. PICK up1 \in Pointers : Whole(g, R \cup {n}, up1) /\ Orphaned(up, up1, n)
  BY <1>7
<1>9. Grown(h, up, g, up1)
  BY <1>2, <1>5, <1>6, <1>7, <1>8, GrownNew
<1>10. g \in Heap /\ \A x \in Item : g.cell[x] = IF x = n THEN c ELSE h.cell[x]
  BY <1>6 DEF Added
<1>11. j # NULL => j \in Live(h) /\ up[j] # NULL /\ h.cell[up[j]].type = h.cell[i].type
  BY ChildIs
<1> HIDE DEF j
<1>12. Free(g) < Free(h)
  BY <1>2, <1>7, FreeFewer
<1>13. Copied(g, R \cup {n}, up1, j, k)
  <2>1. j \in Live(g) \cup {NULL}
    BY <1>7, <1>11
  <2>2. PICK yes \in BOOLEAN : yes = TRUE
    OBVIOUS
  <2>3. Copied(g, R \cup {n}, up1, j, copy[CallOf(g, j, yes)])
    BY <1>8, <1>12, <2>1 DEF CopiesBelow
  <2> QED
    BY <2>2, <2>3
<1> HIDE DEF k
<1>19. PICK f : f = k.heap
  OBVIOUS
<1>14. PICK up2 \in Pointers :
         /\ Whole(f, IF k.item = NULL THEN R \cup {n} ELSE (R \cup {n}) \cup {k.item}, up2)
         /\ Grown(g, up1, f, up2)
         /\ k.item # NULL => NamedFor(g, up1, j, f, up2, k.item)
  BY <1>13, <1>19 DEF Copied
<1>15. Grown(h, up, f, up2)
  BY <1>9, <1>14, GrownThen
<1>16. f.cell[n] = c /\ n \in Live(f) /\ n \notin Live(h)
  BY <1>2, <1>7, <1>10, <1>14 DEF Grown
<1>17. CASE k.item = NULL
  <2>1. Whole(f, R \cup {n}, up2)
    BY <1>14, <1>17
  <2>2. f \in Heap
    BY <2>1, WholeParts
  <2>3. e = f
    BY <1>2, <1>3, <1>5, <1>16, <1>17, <1>19, <2>2, SetChildSame
  <2> QED
    BY <1>5, <1>15, <1>16, <2>1, <2>3
<1>18. CASE k.item # NULL
  <2> DEFINE S == (R \cup {n}) \cup {k.item}
  <2>1. Whole(f, S, up2) /\ NamedFor(g, up1, j, f, up2, k.item)
    BY <1>14, <1>18
  <2>2. k.item \in S /\ k.item \in Item \ Live(g) /\ n # k.item
    BY <1>7, <1>13, <1>18 DEF Copied
  <2>3. PICK x \in Item : x = k.item
    BY <2>2
  <2>4. f \in Heap /\ x \in S /\ x \notin Live(g)
    BY <2>1, <2>2, <2>3, WholeParts
  <2> HIDE DEF S
  <2>5. Doomed(f, x) \in SUBSET (Live(f) \ Live(g))
    BY <1>8, <1>14, <2>1, <2>4, NewApart
  <2>6. ~f.cell[n].isRef /\ Cd(f)[n] = NULL /\ n \notin Doomed(f, x)
    BY <1>2, <1>5, <1>7, <1>16, <2>5 DEF Cd
  <2>7. Suits(f, up2, n, x)
    <3> SUFFICES ASSUME f.cell[n].type = "object", NEW y \in Doomed(f, x), up2[y] = NULL
                 PROVE  f.cell[y].string # NoName
      BY DEF Suits
    <3>1. h.cell[i].type = "object"
      BY <1>5, <1>16
    <3>2. j # NULL
      <4>1. CASE j = NULL
        <5>1. k = Made(g, NULL, TRUE)
          <6>1. PICK yes \in BOOLEAN : yes = TRUE
            OBVIOUS
          <6>2. CallOf(g, j, yes) \in Call /\ CallOf(g, j, yes).item = NULL
                /\ CallOf(g, j, yes).heap = g
            BY <1>10, <4>1 DEF CallOf, Call
          <6>3. copy[CallOf(g, j, yes)] = Made(g, NULL, TRUE)
            BY <6>2, CopyAt DEF Body
          <6> QED
            BY <6>1, <6>3 DEF k
        <5> QED
          BY <1>18, <5>1 DEF Made
      <4> QED
        BY <4>1
    <3>3. up1[j] = up[j] /\ up[j] \in Item
      BY <1>1, <1>2, <1>8, <1>11, <3>2 DEF Orphaned, Pointers
    <3>4. g.cell[up[j]].type = "object"
      <4>1. CASE up[j] = n
        BY <1>5, <1>10, <3>1, <3>3, <4>1
      <4>2. CASE up[j] # n
        BY <1>10, <1>11, <3>1, <3>2, <3>3, <4>2
      <4> QED
        BY <4>1, <4>2
    <3>5. \A z \in Doomed(f, k.item) : up2[z] = NULL => f.cell[z].string # NoName
      BY <1>11, <2>1, <3>2, <3>3, <3>4 DEF NamedFor
    <3> QED
      BY <2>3, <3>5
  <2>8. e = SetChild(f, n, x)
    BY <1>3, <1>19, <2>3
  <2>9. /\ Rewired(f, e) /\ Nx(e) = Nx(f) /\ Pv(e) = Pv(f)
        /\ \A y \in Item : Cd(e)[y] = IF y = n THEN x ELSE Cd(f)[y]
        /\ \E up3 \in Pointers : Whole(e, S \ {x}, up3) /\ Adopted(f, up2, up3, n, x)
    <3>1. Attaches(f, S, up2, x, n, e)
      BY <1>16, <2>1, <2>4, <2>6, <2>7, <2>8, AttachWhole
    <3> QED
      BY <3>1 DEF Attaches
  <2>10. PICK up3 \in Pointers : Whole(e, S \ {x}, up3) /\ Adopted(f, up2, up3, n, x)
    BY <2>9
  <2>11. S \ {x} = R \cup {n}
    BY <1>1, <1>7, <2>2, <2>3 DEF S
  <2>12. Grown(h, up, e, up3)
    <3>1. Doomed(f, x) \in SUBSET (Live(f) \ Live(h))
      BY <1>7, <2>5
    <3>2. \A y \in Live(h) : /\ Nx(e)[y] = Nx(f)[y] /\ Pv(e)[y] = Pv(f)[y]
                             /\ Cd(e)[y] = Cd(f)[y]
      BY <1>1, <1>2, <2>9
    <3> QED
      BY <1>15, <1>16, <2>4, <2>9, <2>10, <3>1, <3>2, GrownLinked
  <2>13. e.cell[n].string = h.cell[i].string
    BY <1>2, <1>5, <1>16, <2>9 DEF Rewired, SameItem
  <2>14. e.cell[n].next = NULL
    <3>1. Nx(e)[n] = e.cell[n].next /\ Nx(f)[n] = f.cell[n].next
      BY <1>2 DEF Nx
    <3> QED
      BY <1>5, <1>16, <2>9, <3>1
  <2> QED
    BY <2>10, <2>11, <2>12, <2>13, <2>14
<1> QED
  BY <1>17, <1>18

(* A list put behind a new item.                                           *)
Behind(f, g, up, up2, n, x) ==
  /\ \A j \in Item : Nx(g)[j] = IF j = n THEN x ELSE Nx(f)[j]
  /\ \A j \in Item : Pv(g)[j] = IF j = x THEN n ELSE Pv(f)[j]
  /\ \A j \in Item : up2[j] = up[j]

(* Only n and the roots below x are roots below n. *)
RootsBehind(f, x, g, up2, n) ==
  \A y \in Doomed(g, n) : up2[y] = NULL => y = n \/ y \in Doomed(f, x)

LEMMA SiblingRoots ==
  ASSUME NEW f, NEW S, NEW up, Whole(f, S, up), NEW n \in S, NEW x \in S, n # x, Nx(f)[n] = NULL,
         NEW g, NEW S2, NEW up2, Whole(g, S2, up2), n \in S2,
         Behind(f, g, up, up2, n, x)
  PROVE  RootsBehind(f, x, g, up2, n)
<1>1. /\ f \in Heap /\ HeapGraph(f, S, up) /\ S \in SUBSET Live(f) /\ Live(f) \in SUBSET Item
      /\ NULL \notin Item
  BY WholeParts
<1>2. g \in Heap /\ HeapGraph(g, S2, up2) /\ Live(g) \in SUBSET Item
  BY WholeParts
<1> DEFINE T == Doomed(f, x)
           D == Doomed(g, n)
           N == Nx(f)
           P == Pv(f)
           X == {z \in D : z \notin T /\ z # n /\ up2[z] = NULL}
<1>3. Tree(N, P, Kd(f), up, x, T)
  BY <1>1, DoomedTree
<1>4. D \in SUBSET Live(g) /\ Tree(Nx(g), Pv(g), Kd(g), up2, n, D)
  BY <1>2, DoomedTree
<1>5. \A j \in Live(f) : Node(Live(f), N, P, Kd(f), S, up, j)
  BY <1>1 DEF HeapGraph, Graph
<1>6. Rooted(Live(g), Pv(g), up2)
  BY <1>2 DEF HeapGraph, Graph
<1>20. Live(f) = {j \in Item : f.cell[j].live}
  BY DEF Live
<1> HIDE DEF T, D, N, P
<1> SUFFICES ASSUME X # {} PROVE FALSE
  BY DEF T, D, RootsBehind
<1>7. PICK z \in X : Par(Pv(g), up2, z) \notin X
  <2>1. X \in SUBSET Live(g)
    BY <1>4
  <2> HIDE DEF X
  <2> QED
    BY <1>6, <2>1 DEF Rooted
<1>8. z \in D /\ z \notin T /\ z # n /\ up2[z] = NULL /\ z \in Item
  BY <1>2, <1>4, <1>7
<1>9. Par(Pv(g), up2, z) \in D
  BY <1>4, <1>8 DEF Tree
<1>10. Pv(g)[z] # NULL /\ Pv(g)[z] \in D
  BY <1>1, <1>2, <1>4, <1>8, <1>9 DEF Par
<1>11. z # x
  BY <1>3, <1>8 DEF Tree
<1> DEFINE w == Pv(g)[z]
<1>12. w = P[z] /\ w # NULL /\ w \in D
  BY <1>8, <1>10, <1>11 DEF P, Behind
<1>13. z \in Live(f)
  <2> SUFFICES ASSUME z \notin Live(f) PROVE FALSE
    OBVIOUS
  <2>1. Pv(f)[z] = NULL
    BY <1>8, WholeParts
  <2> QED
    BY <1>12, <2>1 DEF P
<1> HIDE DEF w, X
<1>14. w \in Live(f) /\ N[w] = z
  BY <1>5, <1>12, <1>13 DEF Node
<1>15. up[z] = up[w]
  BY <1>1, <1>5, <1>8, <1>14 DEF Node
<1>16. up2[w] = NULL
  BY <1>1, <1>8, <1>14, <1>15 DEF Behind
<1>17. w \notin T
  BY <1>1, <1>3, <1>8, <1>14 DEF Tree
<1>18. w # n
  BY <1>1, <1>8, <1>14 DEF N
<1>19. Par(Pv(g), up2, z) = w
  BY <1>10 DEF Par, w
<1> QED
  BY <1>7, <1>12, <1>16, <1>17, <1>18, <1>19 DEF X

(* The siblings of the original are copied behind the copy.                *)
LEMMA SiblingsWhole ==
  ASSUME NEW h, NEW R, NEW up, Whole(h, R, up), CopiesBelow(Free(h)),
         NEW i \in Live(h), NEW n \in Item \ Live(h),
         NEW e, NEW up3 \in Pointers, Whole(e, R \cup {n}, up3), Grown(h, up, e, up3),
         e.cell[n].string = h.cell[i].string, e.cell[n].next = NULL,
         NEW r, r = copy[CallOf(e, h.cell[i].next, TRUE)],
         NEW g, g = suffix_object(r.heap, n, r.item)
  PROVE  \E up5 \in Pointers :
           /\ Whole(g, R \cup {n}, up5) /\ Grown(h, up, g, up5)
           /\ NamedFor(h, up, i, g, up5, n)
<1> DEFINE j == h.cell[i].next
<1>1. /\ h \in Heap /\ R \in SUBSET Live(h) /\ Live(h) \in SUBSET Item /\ NULL \notin Item /\ i \in Item
      /\ up \in Pointers /\ HeapGraph(h, R, up)
  BY WholeParts
<1>2. j # NULL => j \in Live(h) /\ up[j] = up[i]
  BY NextIs
<1>3. r = copy[CallOf(e, j, TRUE)]
  OBVIOUS
<1> HIDE DEF j
<1>4. e \in Heap /\ n \in Live(e)
  BY WholeParts
<1>5. Copied(e, R \cup {n}, up3, j, r)
  <2>1. j \in Live(e) \cup {NULL}
    BY <1>2 DEF Grown
  <2>2. PICK yes \in BOOLEAN : yes = TRUE
    OBVIOUS
  <2>3. Free(e) < Free(h)
    BY <1>4, FreeFewer DEF Grown
  <2>4. Copied(e, R \cup {n}, up3, j, copy[CallOf(e, j, yes)])
    BY <2>1, <2>3 DEF CopiesBelow
  <2> QED
    BY <1>3, <2>2, <2>4
<1>6. PICK f, x : f = r.heap /\ x = r.item
  OBVIOUS
<1>7. PICK up4 \in Pointers :
        /\ Whole(f, IF x = NULL THEN R \cup {n} ELSE (R \cup {n}) \cup {x}, up4)
        /\ Grown(e, up3, f, up4)
        /\ x # NULL => NamedFor(e, up3, j, f, up4, x)
  BY <1>5, <1>6 DEF Copied
<1>8. Grown(h, up, f, up4)
  BY <1>7, GrownThen
<1>9. /\ f.cell[n].string = h.cell[i].string /\ f.cell[n].next = NULL /\ n \in Live(f)
  BY <1>4, <1>7 DEF Grown
<1>10. f \in Heap /\ Nx(f)[n] = NULL
  BY <1>7, <1>9, WholeParts DEF Nx
<1>11. up[i] # NULL /\ h.cell[up[i]].type = "object" => h.cell[i].string # NoName
  BY DEF Whole, Named
<1>12. g = suffix_object(f, n, x)
  BY <1>6
<1>13. CASE x = NULL
  <2>1. Whole(f, R \cup {n}, up4)
    BY <1>7, <1>13
  <2>2. g = f
    <3>1. g = SetNext(f, n, NULL)
      BY <1>12, <1>13 DEF suffix_object, SetPrev
    <3> QED
      BY <1>9, <1>10, <3>1, SetNextSame
  <2>3. NamedFor(h, up, i, f, up4, n)
    <3> SUFFICES ASSUME up[i] # NULL, h.cell[up[i]].type = "object",
                        NEW y \in Doomed(f, n), up4[y] = NULL
                 PROVE  f.cell[y].string # NoName
      BY DEF NamedFor
    <3>1. n \in R \cup {n}
      OBVIOUS
    <3>2. y = n
      BY <1>10, <2>1, <3>1, OneRoot
    <3> QED
      BY <1>9, <1>11, <3>2
  <2> QED
    BY <1>8, <2>1, <2>2, <2>3
<1>14. CASE x # NULL
  <2> DEFINE S == (R \cup {n}) \cup {x}
  <2>1. Whole(f, S, up4) /\ NamedFor(e, up3, j, f, up4, x)
    BY <1>7, <1>14
  <2>2. x \in S /\ n \in S /\ x \in Item \ Live(e) /\ n # x
    BY <1>4, <1>5, <1>6, <1>14 DEF Copied
  <2>3. S \ {x} = R \cup {n}
    BY <1>1, <2>2 DEF Grown
  <2> HIDE DEF S
  <2>4. Doomed(f, x) \in SUBSET (Live(f) \ Live(e))
    BY <1>7, <2>1, <2>2, NewApart
  <2>5. n \notin Doomed(f, x) /\ up4[n] = NULL
    BY <1>4, <2>1, <2>2, <2>4, WholeParts
  <2>6. Suits(f, up4, up4[n], x)
    BY <2>5 DEF Suits
  <2>7. /\ Rewired(f, g)
        /\ \A y \in Item : Nx(g)[y] = IF y = n THEN x ELSE Nx(f)[y]
        /\ \A y \in Item : Pv(g)[y] = IF y = x THEN n ELSE Pv(f)[y]
        /\ Cd(g) = Cd(f)
        /\ \E up5 \in Pointers : Whole(g, S \ {x}, up5) /\ Adopted(f, up4, up5, up4[n], x)
    <3>1. Whole(f, S, up4) /\ x \in S /\ n \in Live(f) /\ Nx(f)[n] = NULL /\ n \notin Doomed(f, x)
          /\ g = suffix_object(f, n, x) /\ Suits(f, up4, up4[n], x)
      BY <1>9, <1>10, <1>12, <2>1, <2>2, <2>5, <2>6
    <3>2. Appends(f, S, up4, x, n, g)
      BY <3>1, AppendWhole
    <3> QED
      BY <3>2 DEF Appends
  <2>8. PICK up5 \in Pointers : Whole(g, S \ {x}, up5) /\ Adopted(f, up4, up5, up4[n], x)
    BY <2>7
  <2>9. Whole(g, R \cup {n}, up5)
    BY <2>3, <2>8
  <2>10. \A y \in Item : up5[y] = up4[y]
    BY <2>5, <2>8 DEF Adopted
  <2>11. Grown(h, up, g, up5)
    <3>1. Doomed(f, x) \in SUBSET (Live(f) \ Live(h))
      BY <2>4 DEF Grown
    <3>2. \A y \in Live(h) : /\ Nx(g)[y] = Nx(f)[y] /\ Pv(g)[y] = Pv(f)[y]
                             /\ Cd(g)[y] = Cd(f)[y]
      <4>1. x \notin Live(h)
        BY <2>2 DEF Grown
      <4> QED
        BY <1>1, <2>7, <4>1
    <3>3. up4[n] \notin Live(h)
      BY <1>1, <2>5
    <3> QED
      BY <1>8, <1>10, <2>7, <2>8, <3>1, <3>2, <3>3, GrownLinked
  <2>12. NamedFor(h, up, i, g, up5, n)
    <3> SUFFICES ASSUME up[i] # NULL, h.cell[up[i]].type = "object",
                        NEW y \in Doomed(g, n), up5[y] = NULL
                 PROVE  g.cell[y].string # NoName
      BY DEF NamedFor
    <3>1. n \in R \cup {n}
      OBVIOUS
    <3>2. y = n \/ y \in Doomed(f, x)
      <4> DEFINE S2 == R \cup {n}
      <4>1. Whole(g, S2, up5) /\ n \in S2 /\ Whole(f, S, up4) /\ n \in S /\ x \in S /\ n # x
            /\ Nx(f)[n] = NULL
        BY <1>10, <2>1, <2>2, <2>9
      <4>2. Behind(f, g, up4, up5, n, x)
        BY <2>7, <2>10 DEF Behind
      <4> HIDE DEF S2
      <4>3. RootsBehind(f, x, g, up5, n)
        BY <4>1, <4>2, SiblingRoots
      <4> QED
        BY <4>3 DEF RootsBehind
    <3>3. \A z \in Item : g.cell[z].string = f.cell[z].string
      BY <2>7 DEF Rewired, SameItem
    <3>4. CASE y = n
      BY <1>9, <1>11, <3>3, <3>4
    <3>5. CASE y \in Doomed(f, x)
      <4>1. j # NULL
        <5> SUFFICES ASSUME j = NULL PROVE FALSE
          OBVIOUS
        <5>1. PICK yes \in BOOLEAN : yes = TRUE
          OBVIOUS
        <5>2. CallOf(e, j, yes) \in Call /\ CallOf(e, j, yes).item = NULL
              /\ CallOf(e, j, yes).heap = e
          BY <1>4 DEF CallOf, Call
        <5>3. copy[CallOf(e, j, yes)] = Made(e, NULL, TRUE)
          BY <5>2, CopyAt DEF Body
        <5>4. r = Made(e, NULL, TRUE)
          BY <1>3, <5>1, <5>3
        <5> QED
          BY <1>6, <1>14, <5>4 DEF Made
      <4>2. up[i] \in Live(h)
        <5>1. Graph(Live(h), Nx(h), Pv(h), Kd(h), R, up)
          BY <1>1 DEF HeapGraph
        <5> QED
          BY <5>1, UpLive
      <4>3. up3[j] = up[i] /\ e.cell[up[i]].type = "object"
        BY <1>2, <4>1, <4>2 DEF Grown
      <4>4. up4[y] = NULL
        BY <2>4, <2>10, <3>5 DEF Live
      <4>5. f.cell[y].string # NoName
        BY <2>1, <3>5, <4>3, <4>4 DEF NamedFor
      <4>6. y \in Item
        BY <2>4, <3>5 DEF Live
      <4> QED
        BY <3>3, <4>5, <4>6
    <3> QED
      BY <3>2, <3>4, <3>5
  <2> QED
    BY <2>9, <2>11, <2>12
<1> QED
  BY <1>13, <1>14

(* A new item is deleted again: what was there is as it was.               *)
LEMMA GrownGone ==
  ASSUME NEW h, NEW R, NEW up, Whole(h, R, up), NEW n \in Item \ Live(h),
         NEW g, NEW up2, Whole(g, R \cup {n}, up2), Grown(h, up, g, up2),
         NEW e, e = cJSON_Delete(g, n)
  PROVE  Whole(e, R, up2) /\ Grown(h, up, e, up2)
<1>1. R \in SUBSET Live(h) /\ Live(h) \in SUBSET Item /\ Live(g) \in SUBSET Item
  BY WholeParts
<1> DEFINE D == Doomed(g, n)
           S == R \cup {n}
<1>2. n \in S /\ n \notin Live(h) /\ Whole(g, S, up2) /\ S \ {n} = R /\ D = Doomed(g, n)
  BY <1>1
<1> HIDE DEF D, S
<1>3. /\ D \in SUBSET (Live(g) \ Live(h))
      /\ \A r \in Live(g) \ D : g.cell[r].isRef => g.cell[r].child \notin D
  BY <1>2, NewApart
<1>4. /\ Whole(e, S \ {n}, up2) /\ D \in SUBSET Live(g) /\ Live(e) = Live(g) \ D
      /\ \A j \in Item \ D : e.cell[j] = g.cell[j]
  <2>1. /\ Whole(g, S, up2) /\ n \in S /\ D = Doomed(g, n) /\ e = cJSON_Delete(g, n)
        /\ \A r \in Live(g) \ D : g.cell[r].isRef => g.cell[r].child \notin D
    BY <1>2, <1>3
  <2> QED
    BY <2>1, DeleteWhole
<1>5. Grown(h, up, e, up2)
  BY <1>1, <1>3, <1>4 DEF Grown
<1> QED
  BY <1>2, <1>4, <1>5

(* One call of copy, when the calls with less memory are right.            *)
LEMMA CopyStep ==
  ASSUME NEW h, NEW R, NEW up, Whole(h, R, up), CopiesBelow(Free(h)),
         NEW i \in Live(h) \cup {NULL}, NEW s \in BOOLEAN,
         NEW r, r = copy[CallOf(h, i, s)]
  PROVE  Copied(h, R, up, i, r)
<1> DEFINE c == CallOf(h, i, s)
           n == Fresh(h)
           e == Attached(copy, c)
<1>1. h \in Heap /\ R \in SUBSET Live(h) /\ Live(h) \in SUBSET Item /\ NULL \notin Item /\ up \in Pointers
  BY WholeParts
<1>2. c \in Call /\ c.heap = h /\ c.item = i /\ c.siblings = s
  BY <1>1 DEF CallOf, Call
<1>3. e = Attached(copy, CallOf(h, i, s)) /\ n = Fresh(h) /\ r = copy[c]
  OBVIOUS
<1>4. RestCall(copy, c) = CallOf(e, h.cell[i].next, TRUE)
  BY <1>2 DEF RestCall, CallOf
<1> HIDE DEF c, n, e
<1>5. r = Body(copy, c)
  BY <1>2, <1>3, CopyAt
<1>6. e = Attached(copy, c)
  BY DEF e
<1>10. ASSUME NEW f, r.item = NULL, r.heap = f, NEW up2, Whole(f, R, up2), Grown(h, up, f, up2)
       PROVE  Copied(h, R, up, i, r)
  <2>1. up2 \in Pointers
    BY <1>10, WholeParts
  <2> QED
    BY <1>10, <2>1 DEF Copied
<1>11. CASE i = NULL
  <2>1. r = Made(h, NULL, TRUE)
    BY <1>2, <1>5, <1>11 DEF Body
  <2>2. r.heap = h /\ r.item = NULL /\ Grown(h, up, h, up)
    BY <2>1, GrownSelf DEF Made
  <2> QED
    BY <1>10, <2>2
<1>12. CASE i # NULL /\ n = NULL
  <2>1. r = Made(h, NULL, FALSE)
    BY <1>2, <1>3, <1>5, <1>12 DEF Body
  <2>2. r.heap = h /\ r.item = NULL /\ Grown(h, up, h, up)
    BY <2>1, GrownSelf DEF Made
  <2> QED
    BY <1>10, <2>2
<1>13. CASE i # NULL /\ n # NULL
  <2>1. n \in Item \ Live(h)
    BY <1>1, <1>3, <1>13, FreshIs
  <2>2. i \in Live(h)
    BY <1>13
  <2>3. \E up3 \in Pointers :
          /\ Whole(e, R \cup {n}, up3) /\ Grown(h, up, e, up3)
          /\ e.cell[n].string = h.cell[i].string /\ e.cell[n].next = NULL
    BY <1>3, <1>13, <2>2, AttachedWhole
  <2>4. PICK up3 \in Pointers :
          /\ Whole(e, R \cup {n}, up3) /\ Grown(h, up, e, up3)
          /\ e.cell[n].string = h.cell[i].string /\ e.cell[n].next = NULL
    BY <2>3
  <2>5. CASE ~copy[KidsCall(c)].ok
    <3>1. r = Made(cJSON_Delete(e, n), NULL, FALSE)
      BY <1>2, <1>3, <1>5, <1>6, <1>13, <2>5 DEF Body
    <3> DEFINE f == cJSON_Delete(e, n)
    <3>2. f = cJSON_Delete(e, n) /\ r.item = NULL /\ r.heap = f
      BY <3>1 DEF Made
    <3> HIDE DEF f
    <3>3. Whole(f, R, up3) /\ Grown(h, up, f, up3)
      BY <2>1, <2>4, <3>2, GrownGone
    <3> QED
      BY <1>10, <3>2, <3>3
  <2>6. CASE copy[KidsCall(c)].ok /\ ~s
    <3>1. r = Made(e, n, TRUE)
      BY <1>2, <1>3, <1>5, <1>6, <1>13, <2>6 DEF Body
    <3>2. r.heap = e /\ r.item = n
      BY <3>1 DEF Made
    <3>3. NamedFor(h, up, i, e, up3, n)
      <4> SUFFICES ASSUME up[i] # NULL, h.cell[up[i]].type = "object",
                          NEW y \in Doomed(e, n), up3[y] = NULL
                   PROVE  e.cell[y].string # NoName
        BY DEF NamedFor
      <4>1. Nx(e)[n] = NULL /\ n \in R \cup {n}
        BY <2>1, <2>4 DEF Nx
      <4>2. y = n
        BY <2>4, <4>1, OneRoot
      <4>3. h.cell[i].string # NoName
        BY <2>2 DEF Whole, Named
      <4> QED
        BY <2>4, <4>2, <4>3
    <3> QED
      BY <1>13, <2>1, <2>4, <3>2, <3>3 DEF Copied
  <2>7. CASE copy[KidsCall(c)].ok /\ s
    <3> DEFINE t == copy[CallOf(e, h.cell[i].next, TRUE)]
               g == suffix_object(t.heap, n, t.item)
    <3>1. r = Made(g, n, t.ok)
      BY <1>2, <1>3, <1>4, <1>5, <1>6, <1>13, <2>7 DEF Body
    <3>2. /\ t = copy[CallOf(e, h.cell[i].next, TRUE)] /\ g = suffix_object(t.heap, n, t.item)
          /\ r.heap = g /\ r.item = n
      BY <3>1 DEF Made
    <3> HIDE DEF t, g
    <3>3. \E up5 \in Pointers :
            /\ Whole(g, R \cup {n}, up5) /\ Grown(h, up, g, up5)
            /\ NamedFor(h, up, i, g, up5, n)
      BY <2>1, <2>2, <2>4, <3>2, SiblingsWhole
    <3> QED
      BY <1>13, <2>1, <3>2, <3>3 DEF Copied
  <2> QED
    BY <2>5, <2>6, <2>7
<1> QED
  BY <1>11, <1>12, <1>13

LEMMA CopiesAlways ==
  ASSUME NEW m \in Nat
  PROVE  CopiesBelow(m)
<1> DEFINE Bad == {k \in Nat : ~CopiesBelow(k)}
<1> SUFFICES ASSUME Bad # {} PROVE FALSE
  OBVIOUS
<1>1. Bad \in SUBSET Nat /\ \A k \in Nat : k \notin Bad => CopiesBelow(k)
  OBVIOUS
<1>2. \A k \in Bad : ~CopiesBelow(k)
  OBVIOUS
<1> HIDE DEF Bad
<1>3. PICK k \in Bad : \A j \in Bad : k <= j
  BY <1>1, LeastNat
<1>4. k \in Nat /\ \A j \in Nat : j < k => CopiesBelow(j)
  BY <1>1, <1>3
<1>5. CopiesBelow(k)
  <2> SUFFICES ASSUME NEW h, NEW R, NEW up, NEW i, NEW s, Whole(h, R, up), Free(h) < k,
                      i \in Live(h) \cup {NULL}, s \in BOOLEAN
               PROVE  Copied(h, R, up, i, copy[CallOf(h, i, s)])
    BY DEF CopiesBelow
  <2>1. CopiesBelow(Free(h))
    BY <1>4, FreeNat
  <2> QED
    BY <2>1, CopyStep
<1> QED
  BY <1>2, <1>3, <1>5

LEMMA GrownAlone ==
  ASSUME NEW h, NEW R, NEW up, Whole(h, R, up), Alone(h, R), NEW g, NEW up2, Grown(h, up, g, up2)
  PROVE  Alone(g, R)
<1>1. R \in SUBSET Live(h) /\ Live(h) \in SUBSET Item
  BY WholeParts
<1>2. \A k \in R : k \in Item /\ g.cell[k] = h.cell[k]
  BY <1>1 DEF Grown
<1> QED
  BY <1>2 DEF Alone, Nx

LEMMA GrownKept ==
  ASSUME NEW h, NEW up, NEW g, NEW up2, Grown(h, up, g, up2)
  PROVE  Kept(h, g)
BY DEF Grown, Kept

LEMMA DuplicateKeeps ==
  ASSUME Inv, NEW i \in Live(heap), NEW recurse \in BOOLEAN, Duplicate(i, recurse)
  PROVE  Inv'
<1>1. PICK up : Whole(heap, Roots, up)
  BY DEF Inv, Sound
<1> DEFINE made == cJSON_Duplicate(heap, i, recurse)
           n == Fresh(heap)
<1>2. /\ heap' = made.heap /\ held' = IF made.ok THEN held \cup {made.item} ELSE held
      /\ lost' = lost /\ Alone(heap, Roots)
  BY DEF Duplicate, Inv, Sound
<1>3. heap \in Heap /\ i \in Item /\ NULL \notin Item /\ i # NULL
  BY <1>1, WholeParts
<1>4. n = Fresh(heap)
  OBVIOUS
<1>5. CASE ~recurse
  <2>1. CASE n = NULL
    <3>1. made = Made(heap, NULL, FALSE)
      BY <1>5, <2>1 DEF cJSON_Duplicate, Made
    <3>2. heap' = heap /\ held' = held
      BY <1>2, <3>1 DEF Made
    <3> QED
      BY <1>2, <3>2, UnchangedKeeps
  <2>2. CASE n # NULL
    <3>1. made = Made(CopyItem(heap, i, n), n, TRUE)
      BY <1>5, <2>2 DEF cJSON_Duplicate, Made
    <3> HIDE DEF made, n
    <3>2. heap' = CopyItem(heap, i, n) /\ held' = held \cup {n}
      BY <1>2, <3>1 DEF Made
    <3>3. n \in Item \ Live(heap)
      BY <1>3, <1>4, <2>2, FreshIs
    <3> DEFINE c == CopyOf(heap.cell[i], n)
    <3>4. NewCell(heap, up, c) /\ Added(heap, heap', n, c)
      BY <1>3, <3>2, <3>3, CopyAdds
    <3> HIDE DEF c
    <3>5. Sound(heap', Roots \cup {n})
      BY <1>1, <1>2, <3>3, <3>4, NewSound
    <3>6. Kept(heap, heap') /\ n \notin Roots
      BY <1>1, <3>3, <3>4, AddedKept, WholeParts
    <3> QED
      BY <1>2, <3>2, <3>5, <3>6, InvTaken
  <2> QED
    BY <2>1, <2>2
<1>6. CASE recurse
  <2> DEFINE c == CallOf(heap, i, FALSE)
             e == Attached(copy, c)
  <2>1. made = copy[c]
    BY <1>6 DEF cJSON_Duplicate, CallOf
  <2>2. PICK s \in BOOLEAN : s = FALSE
    OBVIOUS
  <2>3. c = CallOf(heap, i, s) /\ e = Attached(copy, CallOf(heap, i, s))
    BY <2>2
  <2>4. e = Attached(copy, c)
    OBVIOUS
  <2> HIDE DEF made, n, c, e
  <2>5. c \in Call /\ c.heap = heap /\ c.item = i /\ c.siblings = FALSE
    BY <1>3, <2>2, <2>3 DEF CallOf, Call
  <2>6. made = Body(copy, c)
    BY <2>1, <2>5, CopyAt
  <2>7. CopiesBelow(Free(heap))
    BY FreeNat, CopiesAlways
  <2>8. Copied(heap, Roots, up, i, made)
    <3>1. made = copy[CallOf(heap, i, s)]
      BY <2>1, <2>3
    <3> QED
      BY <1>1, <2>7, <3>1, CopyStep
  <2>9. CASE ~made.ok
    <3>1. made.item = NULL
      BY <1>3, <1>4, <2>4, <2>5, <2>6, <2>9 DEF Body, Made
    <3>2. PICK up2 \in Pointers : Whole(heap', Roots, up2) /\ Grown(heap, up, heap', up2)
      BY <1>2, <2>8, <3>1 DEF Copied
    <3>3. Alone(heap', Roots)
      BY <1>1, <1>2, <3>2, GrownAlone
    <3>4. Sound(heap', Roots) /\ Kept(heap, heap') /\ held' = held
      BY <1>2, <2>9, <3>2, <3>3, GrownKept DEF Sound
    <3> QED
      BY <1>2, <3>4, InvSame
  <2>10. CASE made.ok
    <3>1. made = Made(e, n, TRUE) /\ n # NULL
      BY <1>3, <1>4, <2>4, <2>5, <2>6, <2>10 DEF Body, Made
    <3>2. heap' = e /\ held' = held \cup {n}
      BY <1>2, <3>1 DEF Made
    <3>3. n \in Item \ Live(heap)
      BY <1>3, <1>4, <3>1, FreshIs
    <3>4. \E up3 \in Pointers :
            /\ Whole(e, Roots \cup {n}, up3) /\ Grown(heap, up, e, up3)
            /\ e.cell[n].string = heap.cell[i].string /\ e.cell[n].next = NULL
      BY <1>1, <1>4, <2>3, <2>7, <3>1, AttachedWhole
    <3>5. PICK up3 \in Pointers : Whole(e, Roots \cup {n}, up3) /\ Grown(heap, up, e, up3)
      BY <3>4
    <3>6. Alone(e, Roots)
      BY <1>1, <1>2, <3>5, GrownAlone
    <3>7. Alone(e, Roots \cup {n})
      BY <3>3, <3>4, <3>6 DEF Alone, Nx
    <3>8. Sound(heap', Roots \cup {n}) /\ Kept(heap, heap') /\ n \notin Roots
      <4>1. Kept(heap, e)
        BY <3>5, GrownKept
      <4> QED
        BY <1>1, <3>2, <3>3, <3>5, <3>7, <4>1, WholeParts DEF Sound
    <3> QED
      BY <1>2, <3>2, <3>8, InvTaken
  <2> QED
    BY <2>9, <2>10
<1> QED
  BY <1>5, <1>6

-----------------------------------------------------------------------------
(* The recursion of CreateArrayOf: one more member of the array a.         *)
Row(h, last, ok) == [heap |-> h, last |-> last, ok |-> ok]

Another(a, t, k, before) ==
  LET new == Fresh(before.heap)
      with == CreateItem(before.heap, new, t)
  IN  IF ~before.ok THEN before
      ELSE IF new = NULL THEN Row(cJSON_Delete(before.heap, a), NULL, FALSE)
      ELSE Row(IF k = 1 THEN SetChild(with, a, new) ELSE suffix_object(with, before.last, new),
               new, TRUE)

MadeBy(b, a, t, n, f) ==
  f = [k \in 0 .. n |-> IF k = 0 THEN b ELSE Another(a, t, k, f[k - 1])]

LEMMA ArrayStages ==
  ASSUME NEW b, NEW a, NEW t, NEW n \in Nat
  PROVE  \E f : MadeBy(b, a, t, n, f)
<1> DEFINE Bad == {m \in Nat : ~ \E f : MadeBy(b, a, t, m, f)}
<1> SUFFICES ASSUME Bad # {} PROVE FALSE
  OBVIOUS
<1>1. Bad \in SUBSET Nat
  OBVIOUS
<1>2. \A m \in Nat : m \in Bad <=> ~ \E f : MadeBy(b, a, t, m, f)
  OBVIOUS
<1> HIDE DEF Bad
<1>3. PICK m \in Bad : \A j \in Bad : m <= j
  BY <1>1, LeastNat
<1>4. m \in Nat
  BY <1>1
<1>5. CASE m = 0
  <2> DEFINE f == [k \in 0 .. 0 |-> b]
  <2>1. f = [k \in 0 .. 0 |-> IF k = 0 THEN b ELSE Another(a, t, k, f[k - 1])]
    <3>1. \A k \in 0 .. 0 : k = 0
      OBVIOUS
    <3> QED
      BY <3>1
  <2>2. MadeBy(b, a, t, m, f)
    BY <1>5, <2>1 DEF MadeBy
  <2> QED
    BY <1>2, <1>4, <2>2
<1>6. CASE m # 0
  <2>1. m - 1 \in Nat /\ m - 1 \notin Bad
    BY <1>3, <1>4, <1>6
  <2>2. PICK f : MadeBy(b, a, t, m - 1, f)
    BY <1>2, <2>1
  <2>3. f = [k \in 0 .. m - 1 |-> IF k = 0 THEN b ELSE Another(a, t, k, f[k - 1])]
    BY <2>2 DEF MadeBy
  <2> DEFINE g == [k \in 0 .. m |-> IF k = m THEN Another(a, t, m, f[m - 1]) ELSE f[k]]
  <2>4. \A k \in 0 .. m : g[k] = IF k = 0 THEN b ELSE Another(a, t, k, g[k - 1])
    <3> SUFFICES ASSUME NEW k \in 0 .. m
                 PROVE  g[k] = IF k = 0 THEN b ELSE Another(a, t, k, g[k - 1])
      OBVIOUS
    <3>1. CASE k = m
      <4>1. g[k] = Another(a, t, m, f[m - 1])
        BY <3>1
      <4>2. m - 1 \in 0 .. m /\ m - 1 # m
        BY <1>4, <1>6
      <4>3. g[m - 1] = f[m - 1]
        BY <4>2
      <4> HIDE DEF g
      <4> QED
        BY <1>6, <3>1, <4>1, <4>3
    <3>2. CASE k # m
      <4>1. k \in 0 .. m - 1 /\ g[k] = f[k]
        BY <1>4, <3>2
      <4>2. f[k] = IF k = 0 THEN b ELSE Another(a, t, k, f[k - 1])
        BY <2>3, <4>1
      <4>3. k # 0 => k - 1 \in 0 .. m /\ k - 1 # m
        BY <1>4, <3>2
      <4>4. k # 0 => g[k - 1] = f[k - 1]
        BY <4>3
      <4> HIDE DEF g
      <4> QED
        BY <4>1, <4>2, <4>4
    <3> QED
      BY <3>1, <3>2
  <2>5. g = [k \in 0 .. m |-> g[k]]
    OBVIOUS
  <2> HIDE DEF g
  <2>6. g = [k \in 0 .. m |-> IF k = 0 THEN b ELSE Another(a, t, k, g[k - 1])]
    BY <2>4, <2>5
  <2>7. MadeBy(b, a, t, m, g)
    BY <2>6 DEF MadeBy
  <2> QED
    BY <1>2, <1>3, <1>4, <2>7
<1> QED
  BY <1>5, <1>6

ArrayBy(h, t, n, a, b, f) ==
  /\ CreateArrayOf(h, t, n) = f[n] /\ f[0] = b
  /\ \A k \in 1 .. n : f[k] = Another(a, t, k, f[k - 1])

LEMMA ArrayIs ==
  ASSUME NEW h, NEW t, NEW n \in Nat, NEW a, a = Fresh(h),
         NEW b, b = Row(cJSON_New_Item(h, a, "array"), NULL, TRUE)
  PROVE  \E f : ArrayBy(h, t, n, a, b, f)
<1> DEFINE Is(f) == f = [k \in 0 .. n |-> IF k = 0 THEN b ELSE Another(a, t, k, f[k - 1])]
           w == CHOOSE f : Is(f)
<1>1. CreateArrayOf(h, t, n) = w[n]
  BY DEF CreateArrayOf, Row, Another
<1>2. PICK f : Is(f)
  <2>1. PICK f : MadeBy(b, a, t, n, f)
    BY ArrayStages
  <2> QED
    BY <2>1 DEF MadeBy
<1> HIDE DEF Is
<1>3. Is(w)
  BY <1>2
<1> HIDE DEF w
<1>4. w = [k \in 0 .. n |-> IF k = 0 THEN b ELSE Another(a, t, k, w[k - 1])]
  BY <1>3 DEF Is
<1>5. ASSUME NEW k \in 0 .. n
      PROVE  w[k] = IF k = 0 THEN b ELSE Another(a, t, k, w[k - 1])
  BY <1>4
<1>6. w[0] = b
  <2>1. 0 \in 0 .. n
    OBVIOUS
  <2> QED
    BY <1>5, <2>1
<1>7. ASSUME NEW k \in 1 .. n PROVE w[k] = Another(a, t, k, w[k - 1])
  <2>1. k \in 0 .. n /\ k # 0
    OBVIOUS
  <2> QED
    BY <1>5, <2>1
<1> QED
  BY <1>1, <1>6, <1>7 DEF ArrayBy

(* The array a as it is being filled, and the new heap if it could not be. *)
Filling(h, R, up, a, g, up2, last, empty) ==
  /\ Whole(g, R \cup {a}, up2) /\ Grown(h, up, g, up2)
  /\ g.cell[a].type = "array" /\ g.cell[a].next = NULL
  /\ empty => g.cell[a].child = NULL
  /\ ~empty => last \in Live(g) /\ up2[last] = a /\ g.cell[last].next = NULL

Filled(h, R, up, a, k, m) ==
  /\ m.ok => \E up2 \in Pointers : Filling(h, R, up, a, m.heap, up2, m.last, k = 0)
  /\ ~m.ok => \E up2 \in Pointers : Whole(m.heap, R, up2) /\ Grown(h, up, m.heap, up2)

Longer(h, R, up, a, g, last) ==
  \E up2 \in Pointers : Filling(h, R, up, a, g, up2, last, FALSE)

(* A new item goes behind the others of the array.                         *)
LEMMA MemberJoins ==
  ASSUME NEW h, NEW R, NEW up, Whole(h, R, up), NEW a \in Item \ Live(h), NEW t \in Type,
         NEW e, NEW up2, NEW last, NEW empty \in BOOLEAN,
         Filling(h, R, up, a, e, up2, last, empty),
         NEW new, new = Fresh(e), new # NULL, NEW with, with = CreateItem(e, new, t),
         NEW g, g = IF empty THEN SetChild(with, a, new) ELSE suffix_object(with, last, new)
  PROVE  Longer(h, R, up, a, g, new)
<1>1. /\ h \in Heap /\ HeapGraph(h, R, up) /\ R \in SUBSET Live(h) /\ Live(h) \in SUBSET Item
      /\ NULL \notin Item /\ up \in Pointers
  BY WholeParts
<1> DEFINE A == R \cup {a}
           S == A \cup {new}
<1>2. /\ Whole(e, A, up2) /\ Grown(h, up, e, up2)
      /\ e.cell[a].type = "array" /\ e.cell[a].next = NULL
      /\ empty => e.cell[a].child = NULL
      /\ ~empty => last \in Live(e) /\ up2[last] = a /\ e.cell[last].next = NULL
  BY DEF Filling
<1>3. a \in A /\ a \in S /\ new \in S
  OBVIOUS
<1>4. S \ {new} = A \/ new \in A
  OBVIOUS
<1> HIDE DEF A
<1>5. e \in Heap /\ A \in SUBSET Live(e) /\ Live(e) \in SUBSET Item /\ a \in Live(e) /\ up2 \in Pointers
  BY <1>2, <1>3, WholeParts
<1>6. new \in Item \ Live(e)
  BY <1>5, FreshIs
<1>7. S \ {new} = A
  BY <1>4, <1>5, <1>6
<1>8. PICK c : c = NewOf(new, t)
  OBVIOUS
<1>9. NewCell(e, up2, c) /\ Added(e, with, new, c)
  BY <1>5, <1>6, <1>8, CreateAdds
<1>10. Joins(A, up2, new, e, with)
  BY <1>2, <1>6, <1>9, NewJoins
<1>11. PICK up1 \in Pointers : Whole(with, S, up1) /\ Orphaned(up2, up1, new)
  BY <1>10 DEF Joins
<1>12. Live(with) = Live(e) \cup {new}
  BY <1>10 DEF Joins
<1> HIDE DEF S
<1>13. c.isRef = FALSE /\ c.next = NULL /\ c.child = NULL
  BY <1>8 DEF NewOf
<1>14. with \in Heap /\ \A j \in Item : with.cell[j] = IF j = new THEN c ELSE e.cell[j]
  BY <1>9 DEF Added
<1>15. Grown(h, up, with, up1)
  <2>1. Grown(e, up2, with, up1)
    BY <1>2, <1>6, <1>9, <1>11, <1>12, <1>13, GrownNew
  <2> QED
    BY <1>2, <2>1, GrownThen
<1>16. Doomed(with, new) \subseteq {new}
  <2>1. Nx(with)[new] = NULL /\ Kd(with)[new] = NULL
    BY <1>6, <1>13, <1>14 DEF Nx, Kd
  <2> QED
    BY <1>6, <1>14, <2>1, Bare
<1>17. new \notin Live(h) /\ new # a
  BY <1>2, <1>5, <1>6 DEF Grown
<1>18. Doomed(with, new) \in SUBSET (Live(with) \ Live(h))
  BY <1>12, <1>16, <1>17
<1>19. /\ a \in Live(with) /\ with.cell[a] = e.cell[a] /\ ~with.cell[a].isRef /\ a \in Item
       /\ a \notin Doomed(with, new)
  BY <1>5, <1>12, <1>14, <1>15, <1>16, <1>17 DEF Grown
<1>20. ASSUME NEW p, p = a, NEW x, p = x
       PROVE  Suits(with, up1, x, new)
  BY <1>2, <1>19, <1>20 DEF Suits
<1>21. CASE empty
  <2>1. g = SetChild(with, a, new)
    BY <1>21
  <2>2. Cd(with)[a] = NULL
    BY <1>2, <1>19, <1>21 DEF Cd
  <2>3. Suits(with, up1, a, new)
    BY <1>20
  <2>4. /\ Rewired(with, g) /\ Nx(g) = Nx(with) /\ Pv(g) = Pv(with)
        /\ \A j \in Item : Cd(g)[j] = IF j = a THEN new ELSE Cd(with)[j]
        /\ \E up4 \in Pointers : Whole(g, S \ {new}, up4) /\ Adopted(with, up1, up4, a, new)
    <3>1. /\ Whole(with, S, up1) /\ new \in S /\ a \in Live(with) /\ ~with.cell[a].isRef
          /\ Cd(with)[a] = NULL /\ a \notin Doomed(with, new) /\ Suits(with, up1, a, new)
          /\ g = SetChild(with, a, new)
      BY <1>3, <1>11, <1>19, <2>1, <2>2, <2>3
    <3>2. Attaches(with, S, up1, new, a, g)
      BY <3>1, AttachWhole
    <3> QED
      BY <3>2 DEF Attaches
  <2>5. PICK up4 \in Pointers : Whole(g, S \ {new}, up4) /\ Adopted(with, up1, up4, a, new)
    BY <2>4
  <2>6. Whole(g, A, up4)
    BY <1>7, <2>5
  <2>7. Grown(h, up, g, up4)
    <3>1. a \notin Live(h)
      OBVIOUS
    <3>2. \A j \in Live(h) : Nx(g)[j] = Nx(with)[j] /\ Pv(g)[j] = Pv(with)[j] /\ Cd(g)[j] = Cd(with)[j]
      BY <1>1, <2>4
    <3> QED
      BY <1>14, <1>15, <1>18, <2>4, <2>5, <3>1, <3>2, GrownLinked
  <2>8. Live(g) = Live(with) /\ g.cell[a].type = "array" /\ Kd(g)[a] = new
    <3>1. Live(g) = Live(with) /\ Kd(g)[a] = Cd(g)[a]
      BY <1>14, <1>19, <2>4, KdIs
    <3>2. g.cell[a].type = with.cell[a].type
      BY <1>19, <2>4 DEF Rewired, SameItem
    <3> QED
      BY <1>2, <1>19, <2>4, <3>1, <3>2
  <2>9. g.cell[a].next = NULL /\ g.cell[new].next = NULL
    <3>1. Nx(with)[a] = NULL /\ Nx(with)[new] = NULL
      BY <1>2, <1>6, <1>13, <1>14, <1>19 DEF Nx
    <3>2. Nx(g)[a] = NULL /\ Nx(g)[new] = NULL
      BY <2>4, <3>1
    <3> QED
      BY <1>6, <1>19, <3>2 DEF Nx
  <2>10. up4[new] = a
    <3>1. HeapGraph(g, A, up4)
      BY <2>6, WholeParts
    <3>2. Node(Live(g), Nx(g), Pv(g), Kd(g), A, up4, a)
      BY <1>19, <2>8, <3>1 DEF HeapGraph, Graph
    <3> QED
      BY <1>1, <1>6, <2>8, <3>2 DEF Node
  <2> QED
    BY <1>12, <2>6, <2>7, <2>8, <2>9, <2>10 DEF Longer, Filling, A
<1>22. CASE ~empty
  <2>1. g = suffix_object(with, last, new)
    BY <1>22
  <2>2. /\ last \in Live(e) /\ last \in Item /\ last # new /\ last \in Live(with)
        /\ up2[last] = a /\ e.cell[last].next = NULL
    BY <1>2, <1>5, <1>6, <1>12, <1>22
  <2>3. Nx(with)[last] = NULL /\ up1[last] = a /\ last \notin Doomed(with, new)
    BY <1>11, <1>14, <1>16, <2>2 DEF Nx, Orphaned
  <2>4. Suits(with, up1, up1[last], new)
    BY <1>20, <2>3
  <2>5. Appends(with, S, up1, new, last, g)
    BY <1>3, <1>11, <2>1, <2>2, <2>3, <2>4, AppendWhole
  <2>6. /\ Rewired(with, g)
        /\ \A j \in Item : Nx(g)[j] = IF j = last THEN new ELSE Nx(with)[j]
        /\ \A j \in Item : Pv(g)[j] = IF j = new THEN last ELSE Pv(with)[j]
        /\ Cd(g) = Cd(with)
        /\ \E up4 \in Pointers : Whole(g, S \ {new}, up4) /\ Adopted(with, up1, up4, up1[last], new)
    BY <2>5 DEF Appends
  <2>7. PICK up4 \in Pointers : Whole(g, S \ {new}, up4) /\ Adopted(with, up1, up4, a, new)
    BY <2>3, <2>6
  <2>8. Whole(g, A, up4)
    BY <1>7, <2>7
  <2>9. last \notin Live(h)
    <3> SUFFICES ASSUME last \in Live(h) PROVE FALSE
      OBVIOUS
    <3>1. up[last] = a
      BY <1>2, <2>2 DEF Grown
    <3>2. Graph(Live(h), Nx(h), Pv(h), Kd(h), R, up)
      BY <1>1 DEF HeapGraph
    <3>3. up[last] \in Live(h)
      BY <1>1, <3>1, <3>2, UpLive
    <3> QED
      BY <3>1, <3>3
  <2>10. Grown(h, up, g, up4)
    <3>1. a \notin Live(h)
      OBVIOUS
    <3>2. \A j \in Live(h) : Nx(g)[j] = Nx(with)[j] /\ Pv(g)[j] = Pv(with)[j] /\ Cd(g)[j] = Cd(with)[j]
      BY <1>1, <1>17, <2>6, <2>9
    <3> QED
      BY <1>14, <1>15, <1>18, <2>6, <2>7, <3>1, <3>2, GrownLinked
  <2>11. Live(g) = Live(with) /\ g.cell[a].type = "array"
    <3>1. Live(g) = Live(with)
      BY <1>14, <2>6, KdIs
    <3>2. g.cell[a].type = with.cell[a].type
      BY <1>19, <2>6 DEF Rewired, SameItem
    <3> QED
      BY <1>2, <1>19, <3>1, <3>2
  <2>12. a # last
    <3>1. up1[a] = NULL
      BY <1>3, <1>11, WholeParts
    <3> QED
      BY <1>1, <1>19, <2>3, <3>1
  <2>13. g.cell[a].next = NULL /\ g.cell[new].next = NULL
    <3>1. Nx(with)[a] = NULL /\ Nx(with)[new] = NULL
      BY <1>2, <1>6, <1>13, <1>14, <1>19 DEF Nx
    <3>2. Nx(g)[a] = NULL /\ Nx(g)[new] = NULL
      BY <1>6, <1>19, <2>2, <2>6, <2>12, <3>1
    <3> QED
      BY <1>6, <1>19, <3>2 DEF Nx
  <2>14. up4[new] = a
    <3>1. HeapGraph(g, A, up4)
      BY <2>8, WholeParts
    <3>2. Node(Live(g), Nx(g), Pv(g), Kd(g), A, up4, last)
      BY <2>2, <2>11, <3>1 DEF HeapGraph, Graph
    <3>3. Nx(g)[last] = new
      BY <2>2, <2>6
    <3>4. up4[new] = up4[last]
      BY <1>1, <1>6, <3>2, <3>3 DEF Node
    <3>5. up4[last] = a
      BY <2>2, <2>3, <2>7 DEF Adopted
    <3> QED
      BY <3>4, <3>5
  <2> QED
    BY <1>12, <2>8, <2>10, <2>11, <2>13, <2>14 DEF Longer, Filling, A
<1> QED
  BY <1>21, <1>22

LEMMA AnotherFilled ==
  ASSUME NEW h, NEW R, NEW up, Whole(h, R, up), NEW a \in Item \ Live(h), NEW t \in Type,
         NEW k \in Nat, k # 0, NEW before, Filled(h, R, up, a, k - 1, before),
         NEW m, m = Another(a, t, k, before)
  PROVE  Filled(h, R, up, a, k, m)
<1> DEFINE e == before.heap
           new == Fresh(e)
           with == CreateItem(e, new, t)
           last == before.last
           g == IF k = 1 THEN SetChild(with, a, new) ELSE suffix_object(with, last, new)
<1>1. CASE ~before.ok
  <2>1. m = before
    BY <1>1 DEF Another
  <2> QED
    BY <1>1, <2>1 DEF Filled
<1>2. CASE before.ok
  <2>1. PICK empty \in BOOLEAN : empty <=> k = 1
    OBVIOUS
  <2>2. PICK up2 \in Pointers : Filling(h, R, up, a, e, up2, last, k - 1 = 0)
    BY <1>2 DEF Filled
  <2>3. Filling(h, R, up, a, e, up2, last, empty)
    <3>1. k - 1 = 0 <=> empty
      BY <2>1
    <3> HIDE DEF e, last
    <3> QED
      BY <2>2, <3>1 DEF Filling
  <2>4. CASE new = NULL
    <3>1. m = Row(cJSON_Delete(e, a), NULL, FALSE)
      BY <1>2, <2>4 DEF Another
    <3>2. m.heap = cJSON_Delete(e, a) /\ ~m.ok
      BY <3>1 DEF Row
    <3> HIDE DEF e, last, new
    <3>3. Whole(e, R \cup {a}, up2) /\ Grown(h, up, e, up2)
      BY <2>3 DEF Filling
    <3>4. PICK f : f = m.heap
      OBVIOUS
    <3>5. Whole(f, R, up2) /\ Grown(h, up, f, up2)
      BY <3>2, <3>3, <3>4, GrownGone
    <3> QED
      BY <3>2, <3>4, <3>5 DEF Filled
  <2>5. CASE new # NULL
    <3>1. m = Row(g, new, TRUE)
      BY <1>2, <2>5 DEF Another
    <3>2. m.heap = g /\ m.last = new /\ m.ok
      BY <3>1 DEF Row
    <3>3. g = IF empty THEN SetChild(with, a, new) ELSE suffix_object(with, last, new)
      BY <2>1
    <3>4. new = Fresh(e) /\ with = CreateItem(e, new, t)
      OBVIOUS
    <3> HIDE DEF e, last, new, with, g
    <3>5. Longer(h, R, up, a, g, new)
      BY <2>3, <2>5, <3>3, <3>4, MemberJoins
    <3>6. PICK up4 \in Pointers : Filling(h, R, up, a, g, up4, new, FALSE)
      BY <3>5 DEF Longer
    <3>7. Filling(h, R, up, a, g, up4, new, k = 0)
      <4>1. (k = 0) <=> FALSE
        OBVIOUS
      <4> QED
        BY <3>6, <4>1 DEF Filling
    <3> QED
      BY <3>2, <3>7 DEF Filled
  <2> QED
    BY <2>4, <2>5
<1> QED
  BY <1>1, <1>2

LEMMA ArrayFilled ==
  ASSUME NEW h, NEW R, NEW up, Whole(h, R, up), NEW a, a = Fresh(h), a # NULL,
         NEW t \in Type, NEW n \in Nat, NEW m, m = CreateArrayOf(h, t, n)
  PROVE  Filled(h, R, up, a, n, m)
<1>1. h \in Heap /\ R \in SUBSET Live(h) /\ Live(h) \in SUBSET Item /\ NULL \notin Item
  BY WholeParts
<1>2. a \in Item \ Live(h)
  BY <1>1, FreshIs
<1>3. PICK b : b = Row(cJSON_New_Item(h, a, "array"), NULL, TRUE)
  OBVIOUS
<1>4. PICK f : /\ m = f[n] /\ f[0] = b
               /\ \A k \in 1 .. n : f[k] = Another(a, t, k, f[k - 1])
  <2>1. PICK f : ArrayBy(h, t, n, a, b, f)
    BY <1>3, ArrayIs
  <2> QED
    BY <2>1 DEF ArrayBy
<1>5. Filled(h, R, up, a, 0, b)
  <2> DEFINE g == CreateItem(h, a, "array")
  <2>1. g = cJSON_New_Item(h, a, "array")
    BY DEF CreateItem
  <2>2. b.heap = g /\ b.ok
    BY <1>3, <2>1 DEF Row
  <2>3. g = CreateItem(h, a, "array")
    OBVIOUS
  <2> HIDE DEF g
  <2>4. PICK t2 \in Type : t2 = "array"
    BY DEF Type
  <2>5. PICK c : c = NewOf(a, t2)
    OBVIOUS
  <2>6. NewCell(h, up, c) /\ Added(h, g, a, c)
    BY <1>1, <1>2, <2>3, <2>4, <2>5, CreateAdds
  <2>7. Joins(R, up, a, h, g)
    BY <1>2, <2>6, NewJoins
  <2>8. PICK up1 \in Pointers : Whole(g, R \cup {a}, up1) /\ Orphaned(up, up1, a)
    BY <2>7 DEF Joins
  <2>9. c.isRef = FALSE /\ c.next = NULL /\ c.child = NULL /\ c.type = "array"
    BY <2>4, <2>5 DEF NewOf
  <2>10. g.cell[a] = c
    BY <1>2, <2>6 DEF Added
  <2>11. Live(g) = Live(h) \cup {a}
    BY <2>7 DEF Joins
  <2>12. Grown(h, up, g, up1)
    BY <1>2, <2>6, <2>8, <2>9, <2>11, GrownNew
  <2>13. Filling(h, R, up, a, g, up1, b.last, 0 = 0)
    BY <2>8, <2>9, <2>10, <2>12 DEF Filling
  <2> QED
    BY <2>2, <2>13 DEF Filled
<1> DEFINE Bad == {k \in Nat : k <= n /\ ~Filled(h, R, up, a, k, f[k])}
<1>6. Bad = {}
  <2> SUFFICES ASSUME Bad # {} PROVE FALSE
    OBVIOUS
  <2>1. Bad \in SUBSET Nat
    OBVIOUS
  <2>2. \A k \in Nat : k \in Bad <=> k <= n /\ ~Filled(h, R, up, a, k, f[k])
    OBVIOUS
  <2> HIDE DEF Bad
  <2>3. PICK k \in Bad : \A j \in Bad : k <= j
    BY <2>1, LeastNat
  <2>4. k \in Nat /\ k <= n /\ ~Filled(h, R, up, a, k, f[k])
    BY <2>1, <2>2
  <2>5. k # 0
    BY <1>4, <1>5, <2>4
  <2>6. k - 1 \in Nat /\ k - 1 \notin Bad /\ k - 1 <= n /\ k \in 1 .. n
    BY <2>3, <2>4, <2>5
  <2>7. Filled(h, R, up, a, k - 1, f[k - 1])
    BY <2>2, <2>6
  <2>8. f[k] = Another(a, t, k, f[k - 1])
    BY <1>4, <2>6
  <2>9. Filled(h, R, up, a, k, f[k])
    BY <1>2, <2>4, <2>5, <2>7, <2>8, AnotherFilled
  <2> QED
    BY <2>4, <2>9
<1>7. Filled(h, R, up, a, n, f[n])
  BY <1>6
<1> QED
  BY <1>4, <1>7

LEMMA CreateArrayKeeps ==
  ASSUME Inv, NEW t \in Created \cap {"number", "string"}, NEW n \in 1 .. MaxItems,
         CreateArray(t, n)
  PROVE  Inv'
<1>1. PICK up : Whole(heap, Roots, up)
  BY DEF Inv, Sound
<1> DEFINE m == CreateArrayOf(heap, t, n)
           a == Fresh(heap)
<1>2. /\ a # NULL /\ heap' = m.heap /\ held' = IF m.ok THEN held \cup {a} ELSE held
      /\ lost' = lost /\ Alone(heap, Roots)
  BY DEF CreateArray, Inv, Sound
<1>3. n \in Nat /\ t \in Type
  BY ItemsFinite DEF Type
<1>4. m = CreateArrayOf(heap, t, n) /\ a = Fresh(heap)
  OBVIOUS
<1> HIDE DEF m, a
<1>5. Filled(heap, Roots, up, a, n, m)
  BY <1>1, <1>2, <1>3, <1>4, ArrayFilled
<1>6. CASE ~m.ok
  <2>1. PICK up2 \in Pointers : Whole(heap', Roots, up2) /\ Grown(heap, up, heap', up2)
    BY <1>2, <1>5, <1>6 DEF Filled
  <2>2. Alone(heap', Roots)
    BY <1>1, <1>2, <2>1, GrownAlone
  <2>3. Sound(heap', Roots) /\ Kept(heap, heap') /\ held' = held
    BY <1>2, <1>6, <2>1, <2>2, GrownKept DEF Sound
  <2> QED
    BY <1>2, <2>3, InvSame
<1>7. CASE m.ok
  <2>1. PICK up2 \in Pointers : Filling(heap, Roots, up, a, heap', up2, m.last, n = 0)
    BY <1>2, <1>5, <1>7 DEF Filled
  <2>2. /\ Whole(heap', Roots \cup {a}, up2) /\ Grown(heap, up, heap', up2)
        /\ heap'.cell[a].next = NULL
    BY <2>1 DEF Filling
  <2>3. Alone(heap', Roots)
    BY <1>1, <1>2, <2>2, GrownAlone
  <2>4. a \in Item \ Live(heap) /\ a \notin Roots
    <3>1. heap \in Heap /\ Roots \in SUBSET Live(heap)
      BY <1>1, WholeParts
    <3> QED
      BY <1>2, <1>4, <3>1, FreshIs
  <2>5. Alone(heap', Roots \cup {a})
    BY <2>2, <2>3, <2>4 DEF Alone, Nx
  <2>6. Sound(heap', Roots \cup {a}) /\ Kept(heap, heap') /\ held' = held \cup {a}
    BY <1>2, <1>7, <2>2, <2>5, GrownKept DEF Sound
  <2> QED
    BY <1>2, <2>4, <2>6, InvTaken
<1> QED
  BY <1>6, <1>7

-----------------------------------------------------------------------------
LEMMA InitSound == Init => Inv
<1> SUFFICES ASSUME Init PROVE Inv
  OBVIOUS
<1> DEFINE up == [i \in Item |-> NULL]
<1>1. heap = [cell |-> [i \in Item |-> Zeroed], blocks |-> 0, misused |-> FALSE]
      /\ held = {} /\ lost = {} /\ Roots = {}
  BY DEF Init, Roots
<1>2. heap.cell \in [Item -> Cell] /\ \A i \in Item : heap.cell[i] = Zeroed
  BY <1>1, ZeroedIs
<1>3. heap \in Heap /\ heap.blocks = 0 /\ heap.misused = FALSE
  BY <1>1, <1>2 DEF Heap
<1>4. Live(heap) = {}
  BY <1>2, ZeroedIs DEF Live
<1>5. Cleared(heap)
  BY <1>2 DEF Cleared
<1>6. Counted(heap)
  <2>1. Keys(heap) = {} /\ Values(heap) = {}
    BY <1>4 DEF Keys, Values
  <2>2. Cardinality({}) = 0
    BY FS_EmptySet
  <2> QED
    BY <1>3, <2>1, <2>2 DEF Counted
<1>7. HeapGraph(heap, Roots, up)
  <2>1. /\ Nx(heap) \in Pointers /\ Pv(heap) \in Pointers /\ Kd(heap) \in Pointers
    BY <1>3, HeapTypes
  <2>2. up \in Pointers
    BY DEF Pointers
  <2> HIDE DEF up
  <2>3. Rooted(Live(heap), Pv(heap), up)
    BY <1>4 DEF Rooted
  <2> QED
    BY <1>1, <1>4, <2>1, <2>2, <2>3 DEF HeapGraph, Graph
<1> HIDE DEF up
<1>8. Whole(heap, Roots, up)
  BY <1>3, <1>4, <1>5, <1>6, <1>7 DEF Whole, Named
<1>9. Alone(heap, Roots)
  BY <1>1 DEF Alone
<1> QED
  BY <1>1, <1>8, <1>9 DEF Inv, Sound

LEMMA NextSound == Inv /\ [Next]_vars => Inv'
<1> SUFFICES ASSUME Inv, [Next]_vars PROVE Inv'
  OBVIOUS
<1>1. ASSUME Creating PROVE Inv'
  <2>1. ASSUME NEW t \in Created, Create(t) PROVE Inv'
    BY <2>1, CreateKeeps
  <2>2. ASSUME CreateStringReference PROVE Inv'
    BY <2>2, CreateStringReferenceKeeps
  <2>3. ASSUME NEW t \in {"array", "object"}, NEW p \in Owner(t),
               CreateListReference(t, heap.cell[p].child)
        PROVE  Inv'
    BY <2>3, CreateListReferenceKeeps
  <2>4. ASSUME NEW t \in Created \cap {"number", "string"}, NEW n \in 1 .. MaxItems,
               CreateArray(t, n)
        PROVE  Inv'
    BY <2>4, CreateArrayKeeps
  <2>5. ASSUME NEW i \in Live(heap), NEW recurse \in BOOLEAN, Duplicate(i, recurse) PROVE Inv'
    BY <2>5, DuplicateKeeps
  <2> QED
    BY <1>1, <2>1, <2>2, <2>3, <2>4, <2>5 DEF Creating, Known
<1>2. ASSUME Adding PROVE Inv'
  <2>1. ASSUME NEW p \in Container("array"), NEW i \in held, AddItemToArray(p, i) PROVE Inv'
    BY <2>1, AddItemToArrayKeeps
  <2>2. ASSUME NEW p \in Container("array"), NEW k \in 0 .. MaxItems, NEW i \in held,
               InsertItemInArray(p, k, i)
        PROVE  Inv'
    BY <2>2, InsertItemInArrayKeeps
  <2>3. ASSUME NEW p \in Container("array"), NEW i \in Live(heap), AddItemReferenceToArray(p, i)
        PROVE  Inv'
    BY <2>3, AddItemReferenceToArrayKeeps
  <2>4. ASSUME NEW p \in Container("object"), NEW n \in Name, NEW i \in held,
               NEW constant \in BOOLEAN, AddItemToObject(p, n, i, constant)
        PROVE  Inv'
    BY <2>4, AddItemToObjectKeeps
  <2>5. ASSUME NEW p \in Container("object"), NEW n \in Name, NEW i \in Live(heap),
               NEW keyCopied \in BOOLEAN, AddItemReferenceToObject(p, n, i, keyCopied)
        PROVE  Inv'
    BY <2>5, AddItemReferenceToObjectKeeps
  <2>6. ASSUME NEW p \in Container("object"), NEW n \in Name, NEW t \in Created,
               NEW keyCopied \in BOOLEAN, AddToObject(p, n, t, keyCopied)
        PROVE  Inv'
    BY <2>6, AddToObjectKeeps
  <2> QED
    BY <1>2, <2>1, <2>2, <2>3, <2>4, <2>5, <2>6 DEF Adding, Known
<1>3. ASSUME Removing PROVE Inv'
  <2>1. ASSUME NEW p \in Containers, NEW i \in Found(p), Detach(p, i) PROVE Inv'
    <3>1. PICK t \in {"array", "object"} : p \in Container(t)
      BY DEF Containers
    <3> QED
      BY <2>1, <3>1, DetachKeeps
  <2>2. ASSUME NEW p \in Containers, NEW i \in Found(p), DeleteItem(p, i) PROVE Inv'
    <3>1. PICK t \in {"array", "object"} : p \in Container(t)
      BY DEF Containers
    <3> QED
      BY <2>2, <3>1, DeleteItemKeeps
  <2>3. ASSUME NEW p \in Container("array"), NEW r \in held, NEW i \in Found(p),
               ReplaceItem(p, i, r)
        PROVE  Inv'
    BY <2>3, ReplaceItemKeeps
  <2>4. ASSUME NEW p \in Container("object"), NEW n \in Name, NEW r \in held, NEW cs \in BOOLEAN,
               NEW keyCopied \in BOOLEAN, ReplaceItemInObject(p, n, r, cs, keyCopied)
        PROVE  Inv'
    BY <2>4, ReplaceItemInObjectKeeps
  <2>5. ASSUME NEW i \in held, Delete(i) PROVE Inv'
    BY <2>5, DeleteKeeps
  <2> QED
    BY <1>3, <2>1, <2>2, <2>3, <2>4, <2>5 DEF Removing
<1>4. ASSUME UNCHANGED vars PROVE Inv'
  BY <1>4, UnchangedKeeps DEF vars
<1> QED
  BY <1>1, <1>2, <1>3, <1>4 DEF Next

(* The heap is whole after every call, whatever the application does with  *)
(* the items it holds and whatever memory there is.                        *)
THEOREM Invariance == Spec => []Inv
<1> QED
  BY InitSound, NextSound, PTL DEF Spec

(* What was freed stays zeroed: no call of cjson.c writes to an item that  *)
(* it, or an earlier call, has deleted.                                    *)
THEOREM TypeCorrect == Spec => []TypeOK
<1>1. Inv => TypeOK
  <2> SUFFICES ASSUME Inv PROVE TypeOK
    OBVIOUS
  <2>1. PICK up : Whole(heap, Roots, up)
    BY DEF Inv, Sound
  <2>2. heap \in Heap /\ Roots \in SUBSET Live(heap)
    BY <2>1, WholeParts
  <2> QED
    BY <2>1, <2>2 DEF TypeOK, Roots, Whole, Cleared
<1> QED
  BY <1>1, Invariance, PTL

(* Every list is linked both ways and starts at its owner's child, through *)
(* all that the calls append, insert, replace, detach and copy.            *)
THEOREM ListsLinked == Spec => []Linked
<1>1. Inv => Linked
  <2> SUFFICES ASSUME Inv PROVE Linked
    OBVIOUS
  <2>1. PICK up : Whole(heap, Roots, up)
    BY DEF Inv, Sound
  <2>2. heap \in Heap /\ HeapGraph(heap, Roots, up) /\ Live(heap) \in SUBSET Item /\ NULL \notin Item
    BY <2>1, WholeParts
  <2> SUFFICES ASSUME NEW i \in Live(heap)
               PROVE  LET c == heap.cell[i]
                      IN  /\ c.next # NULL => heap.cell[c.next].prev = i
                          /\ c.prev # NULL => heap.cell[c.prev].next = i
                          /\ OwnsChild(c) => heap.cell[c.child].prev = NULL
    BY DEF Linked
  <2>3. Node(Live(heap), Nx(heap), Pv(heap), Kd(heap), Roots, up, i) /\ i \in Item
    BY <2>2 DEF HeapGraph, Graph
  <2>4. \A j \in Item : /\ Nx(heap)[j] = heap.cell[j].next /\ Pv(heap)[j] = heap.cell[j].prev
                        /\ OwnsChild(heap.cell[j]) => Kd(heap)[j] = heap.cell[j].child
    BY DEF Nx, Pv, Kd, OwnsChild
  <2>5. heap.cell[i].next # NULL => heap.cell[heap.cell[i].next].prev = i
    BY <2>2, <2>3, <2>4 DEF Node
  <2>6. heap.cell[i].prev # NULL => heap.cell[heap.cell[i].prev].next = i
    BY <2>2, <2>3, <2>4 DEF Node
  <2>7. OwnsChild(heap.cell[i]) => heap.cell[heap.cell[i].child].prev = NULL
    <3>1. OwnsChild(heap.cell[i]) => heap.cell[i].child # NULL
      BY DEF OwnsChild
    <3> QED
      BY <2>2, <2>3, <2>4, <3>1 DEF Node
  <2> QED
    BY <2>5, <2>6, <2>7
<1> QED
  BY <1>1, Invariance, PTL

(* The places a live item of a whole heap is owned from are one.           *)
LEMMA OneOwner ==
  ASSUME NEW up, Whole(heap, Roots, up), held \cap lost = {}, NEW i \in Live(heap)
  PROVE  Owners(i) = IF i \in lost THEN 0 ELSE 1
<1> DEFINE A == {p \in Live(heap) : OwnsChild(heap.cell[p]) /\ heap.cell[p].child = i}
           B == {q \in Live(heap) : heap.cell[q].next = i}
           N == Nx(heap)
           P == Pv(heap)
           K == Kd(heap)
           L == Live(heap)
<1>1. heap \in Heap /\ HeapGraph(heap, Roots, up) /\ L \in SUBSET Item /\ NULL \notin Item
  BY WholeParts
<1>2. i \in Item /\ i # NULL
  BY <1>1
<1>3. \A j \in L : Node(L, N, P, K, Roots, up, j)
  BY <1>1 DEF HeapGraph, Graph
<1>4. \A p \in L : p \in A <=> K[p] = i
  BY <1>1, <1>2 DEF Kd, OwnsChild
<1>5. \A q \in L : q \in B <=> N[q] = i
  BY <1>1 DEF Nx
<1>6. A \in SUBSET L /\ B \in SUBSET L
  OBVIOUS
<1>7. Owners(i) = (IF i \in held THEN 1 ELSE 0) + Cardinality(A) + Cardinality(B)
  BY DEF Owners
<1>8. Cardinality({}) = 0 /\ \A x : Cardinality({x}) = 1
  BY FS_EmptySet, FS_Singleton
<1> HIDE DEF A, B, N, P, K, L
<1>9. \A p \in A : P[i] = NULL /\ up[i] = p /\ p # NULL
  BY <1>1, <1>2, <1>3, <1>4, <1>6 DEF Node
<1>10. \A q \in B : P[i] = q /\ q # NULL
  BY <1>1, <1>2, <1>3, <1>5, <1>6 DEF Node
<1>11. Node(L, N, P, K, Roots, up, i)
  BY <1>3 DEF L
<1>15. i \in Roots <=> i \in held \/ i \in lost
  BY DEF Roots
<1>12. CASE i \in Roots
  <2>1. P[i] = NULL /\ up[i] = NULL
    BY <1>11, <1>12 DEF Node
  <2>2. A = {} /\ B = {}
    BY <1>9, <1>10, <2>1
  <2>3. Cardinality(A) = 0 /\ Cardinality(B) = 0
    BY <1>8, <2>2
  <2> QED
    BY <1>7, <1>12, <1>15, <2>3
<1>13. CASE i \notin Roots /\ P[i] # NULL
  <2>1. P[i] \in L /\ N[P[i]] = i
    BY <1>11, <1>13 DEF Node
  <2>2. A = {} /\ B = {P[i]}
    BY <1>5, <1>9, <1>10, <1>13, <2>1
  <2>3. Cardinality(A) = 0 /\ Cardinality(B) = 1
    BY <1>8, <2>2
  <2> QED
    BY <1>7, <1>13, <1>15, <2>3
<1>14. CASE i \notin Roots /\ P[i] = NULL
  <2>1. up[i] \in L /\ K[up[i]] = i
    BY <1>11, <1>14 DEF Node
  <2>2. A = {up[i]} /\ B = {}
    BY <1>4, <1>9, <1>10, <1>14, <2>1
  <2>3. Cardinality(A) = 1 /\ Cardinality(B) = 0
    BY <1>8, <2>2
  <2> QED
    BY <1>7, <1>14, <1>15, <2>3
<1> QED
  BY <1>12, <1>13, <1>14

(* Only the lost references are out of the application's reach.            *)
LEMMA AllReached ==
  ASSUME NEW up, Whole(heap, Roots, up), Inv
  PROVE  Reached(held, [k \in Item |-> After(heap, k)]) = Known
<1> DEFINE Step == [k \in Item |-> After(heap, k)]
           N == Nx(heap)
           P == Pv(heap)
           K == Kd(heap)
           L == Live(heap)
           S == Reached(held, Step)
           X == (L \ lost) \ S
<1>1. /\ heap \in Heap /\ HeapGraph(heap, Roots, up) /\ L \in SUBSET Item /\ NULL \notin Item
      /\ Roots \in SUBSET L /\ held \in SUBSET L
  BY WholeParts DEF Roots
<1>2. Step \in [Item -> SUBSET Item] /\ \A j \in Item : Step[j] = After(heap, j)
  BY <1>1, HeapTypes
<1>3. \A j \in L : Node(L, N, P, K, Roots, up, j)
  BY <1>1 DEF HeapGraph, Graph
<1>4. \A j \in Item : After(heap, j) = {k \in {N[j], K[j]} : k # NULL}
  BY <1>1 DEF After, OwnsChild, Nx, Kd
<1>5. held \in SUBSET Item
  BY <1>1
<1>6. Rooted(L, P, up)
  BY <1>1 DEF HeapGraph, Graph
<1>7. S = Reached(held, Step)
  OBVIOUS
<1>11. /\ held \cap lost = {} /\ Roots = held \cup lost
       /\ \A y \in lost : y \in L /\ N[y] = NULL /\ K[y] = NULL
  BY <1>1 DEF Inv, Sound, Roots, Alone, Kd, OwnsChild
<1>12. Known = L \ lost
  BY DEF Known
<1> HIDE DEF Step, N, P, K, L, S
<1>8. S \subseteq L \ lost
  <2>1. Closed(Step, L \ lost)
    <3> SUFFICES ASSUME NEW x \in L \ lost, NEW k \in Step[x] PROVE k \in L \ lost
      BY DEF Closed
    <3>1. k \in {N[x], K[x]} /\ k # NULL /\ x # NULL
      BY <1>1, <1>2, <1>4
    <3>2. k \in L /\ (P[k] = x \/ up[k] = x)
      BY <1>3, <3>1 DEF Node
    <3>3. k \notin Roots
      BY <1>3, <3>1, <3>2 DEF Node
    <3> QED
      BY <1>11, <3>2, <3>3
  <2>2. held \subseteq L \ lost
    BY <1>1, <1>11
  <2> QED
    BY <1>1, <1>2, <1>5, <1>7, <2>1, <2>2, ReachedLeast
<1>9. held \subseteq S /\ Closed(Step, S)
  BY <1>2, <1>5, <1>7, ReachedClosed
<1>10. X = {}
  <2> SUFFICES ASSUME X # {} PROVE FALSE
    OBVIOUS
  <2>1. PICK x \in X : Par(P, up, x) \notin X
    <3>1. X \in SUBSET L
      OBVIOUS
    <3> HIDE DEF X
    <3> QED
      BY <1>6, <3>1 DEF Rooted
  <2>2. x \in L /\ x \notin S /\ x \notin Roots /\ x \in Item /\ x # NULL
    BY <1>1, <1>9, <1>11
  <2>3. PICK y : y = Par(P, up, x)
    OBVIOUS
  <2>4. y \in L /\ (N[y] = x \/ K[y] = x)
    BY <1>3, <2>2, <2>3 DEF Node, Par
  <2>7. y \notin lost
    BY <1>11, <2>2, <2>4
  <2>5. y \in S /\ y \in Item
    BY <1>1, <2>1, <2>3, <2>4, <2>7
  <2>6. x \in Step[y]
    BY <1>2, <1>4, <2>2, <2>4, <2>5
  <2> QED
    BY <1>9, <2>2, <2>5, <2>6 DEF Closed
<1> QED
  BY <1>7, <1>8, <1>10, <1>12 DEF Step

(* No call leaves an item with two owners, and whatever is live is reached *)
(* from what the application holds, but for the references that            *)
(* cJSON_AddItemReferenceToObject has lost for want of memory for a key.   *)
THEOREM OwnedByOne == Spec => []OwnedOnce
<1>1. Inv => OwnedOnce
  <2> SUFFICES ASSUME Inv PROVE OwnedOnce
    OBVIOUS
  <2>1. PICK up : Whole(heap, Roots, up)
    BY DEF Inv, Sound
  <2>2. held \cap lost = {}
    BY DEF Inv
  <2>3. \A i \in Live(heap) : Owners(i) = IF i \in lost THEN 0 ELSE 1
    BY <2>1, <2>2, OneOwner
  <2>4. Reached(held, [k \in Item |-> After(heap, k)]) = Known
    BY <2>1, AllReached
  <2>5. lost \subseteq References
    <3>1. Roots \in SUBSET Live(heap)
      BY <2>1, WholeParts
    <3> QED
      BY <3>1 DEF Inv, Roots, References
  <2> QED
    BY <2>3, <2>4, <2>5 DEF OwnedOnce
<1> QED
  BY <1>1, Invariance, PTL

(* Nothing is freed twice, and as many strings are allocated as items own. *)
THEOREM StringsCounted == Spec => []StringsBalanced
<1>1. Inv => StringsBalanced
  BY DEF Inv, Sound, Whole, Counted, Keys, Values, StringsBalanced
<1> QED
  BY <1>1, Invariance, PTL

(* Every member of an object has been given a name, whatever became of it  *)
(* on its way there: it is NULL only where replace_item_in_object had no   *)
(* memory for the copy.                                                    *)
THEOREM NamesGiven == Spec => []MembersNamed
<1>1. Inv => MembersNamed
  <2> SUFFICES ASSUME Inv, NEW p \in Owner("object"), NEW i \in Members(p)
               PROVE  heap.cell[i].string # NoName
    BY DEF MembersNamed
  <2>1. PICK up : Whole(heap, Roots, up)
    BY DEF Inv, Sound
  <2>2. heap \in Heap /\ HeapGraph(heap, Roots, up) /\ NULL \notin Item /\ Live(heap) \in SUBSET Item
    BY <2>1, WholeParts
  <2>3. p \in Live(heap) /\ ~heap.cell[p].isRef /\ heap.cell[p].type = "object"
    BY DEF Owner, References
  <2>4. PICK k \in 0 .. MaxItems : i = Walk(heap, heap.cell[p].child)[k] /\ i # NULL
    BY DEF Members
  <2>5. i \in Live(heap) /\ up[i] = p
    BY <2>2, <2>3, <2>4, WalkMembers
  <2> QED
    BY <2>1, <2>2, <2>3, <2>5 DEF Whole, Named
<1> QED
  BY <1>1, Invariance, PTL

(* The members of each item, in order. *)
Kids(h) == [i \in Item |-> IF OwnsChild(h.cell[i]) THEN Chain(h, i) ELSE << >>]

Owning(h) == {p \in Live(h) : ~h.cell[p].isRef}

LEMMA KidsAre ==
  ASSUME NEW h \in Heap, NEW R, NEW up, HeapGraph(h, R, up), Cleared(h)
  PROVE  /\ \A p \in Owning(h) : Strung(Nx(h), Cd(h)[p], Kids(h)[p])
         /\ \A p \in Item \ Owning(h) : Kids(h)[p] = << >>
         /\ \A p \in Item : Kids(h)[p] \in Seq(Item) /\ Len(Kids(h)[p]) \in Nat
         /\ \A p \in Item : \A j : (\E k \in 1 .. Len(Kids(h)[p]) : Kids(h)[p][k] = j)
                                 <=> j \in Live(h) /\ up[j] = p
         /\ \A p \in Item : \A a, b \in 1 .. Len(Kids(h)[p]) : Kids(h)[p][a] = Kids(h)[p][b] => a = b
         /\ \A p \in Item : \A k \in 1 .. Len(Kids(h)[p]) :
              Pv(h)[Kids(h)[p][k]] = IF k = 1 THEN NULL ELSE Kids(h)[p][k - 1]
<1> DEFINE Good(p) ==
      /\ p \in Owning(h) => Strung(Nx(h), Cd(h)[p], Kids(h)[p])
      /\ p \notin Owning(h) => Kids(h)[p] = << >>
      /\ Kids(h)[p] \in Seq(Item) /\ Len(Kids(h)[p]) \in Nat
      /\ \A j : (\E k \in 1 .. Len(Kids(h)[p]) : Kids(h)[p][k] = j) <=> j \in Live(h) /\ up[j] = p
      /\ \A a, b \in 1 .. Len(Kids(h)[p]) : Kids(h)[p][a] = Kids(h)[p][b] => a = b
      /\ \A k \in 1 .. Len(Kids(h)[p]) :
              Pv(h)[Kids(h)[p][k]] = IF k = 1 THEN NULL ELSE Kids(h)[p][k - 1]
<1>1. ASSUME NEW p \in Item PROVE Good(p)
  <2>1. p \in Live(h) <=> h.cell[p].live
    BY DEF Live
  <2>2. OwnsChild(h.cell[p]) <=> ~h.cell[p].isRef /\ Cd(h)[p] # NULL
    BY HeapTypes DEF OwnsChild
  <2>3. p \notin Live(h) => h.cell[p].child = NULL
    BY <2>1 DEF Cleared, Zeroed
  <2>4. CASE OwnsChild(h.cell[p])
    <3>1. p \in Live(h) /\ ~h.cell[p].isRef /\ Cd(h)[p] = h.cell[p].child
      BY <2>2, <2>3, <2>4, HeapTypes
    <3>2. Kids(h)[p] = Chain(h, p)
      BY <2>4 DEF Kids
    <3>3. Strung(Nx(h), Cd(h)[p], Kids(h)[p])
      BY <3>1, <3>2, ChainIs
    <3>4. Kids(h)[p] \in Seq(Item) /\ Len(Kids(h)[p]) \in Nat
      BY <3>3, LenProperties DEF Strung
    <3> HIDE DEF Good
    <3>5. /\ \A j : (\E k \in 1 .. Len(Kids(h)[p]) : Kids(h)[p][k] = j) <=> j \in Live(h) /\ up[j] = p
          /\ \A a, b \in 1 .. Len(Kids(h)[p]) : Kids(h)[p][a] = Kids(h)[p][b] => a = b
          /\ \A k \in 1 .. Len(Kids(h)[p]) :
                  Pv(h)[Kids(h)[p][k]] = IF k = 1 THEN NULL ELSE Kids(h)[p][k - 1]
      BY <3>1, <3>2, ChainHolds
    <3> QED
      BY <3>1, <3>3, <3>4, <3>5 DEF Good, Owning
  <2>5. CASE ~OwnsChild(h.cell[p])
    <3>1. Kids(h)[p] = << >>
      BY <2>5 DEF Kids
    <3>2. Kids(h)[p] \in Seq(Item) /\ Len(Kids(h)[p]) = 0
      BY <3>1
    <3>3. p \in Owning(h) => Cd(h)[p] = NULL
      BY <2>2, <2>5 DEF Owning
    <3>4. p \in Owning(h) => Strung(Nx(h), Cd(h)[p], Kids(h)[p])
      BY <3>2, <3>3 DEF Strung
    <3>5. ASSUME NEW j \in Live(h), up[j] = p PROVE FALSE
      <4>1. up[j] # NULL
        BY <3>5, NoItem
      <4>2. Kd(h)[up[j]] # NULL
        BY <4>1, UpLive DEF HeapGraph
      <4> QED
        BY <2>5, <3>5, <4>2, HeapTypes
    <3> QED
      BY <3>1, <3>2, <3>4, <3>5
  <2> QED
    BY <2>4, <2>5
<1> HIDE DEF Good
<1>2. \A p \in Owning(h) : p \in Item
  BY HeapTypes DEF Owning
<1> QED
  BY <1>1, <1>2 DEF Good

-----------------------------------------------------------------------------
Names(h) == [i \in Item |-> h.cell[i].string]

LEMMA WholeKids ==
  ASSUME NEW h, NEW R, NEW up, Whole(h, R, up)
  PROVE  /\ \A p \in Owning(h) : Strung(Nx(h), Cd(h)[p], Kids(h)[p])
         /\ \A p \in Item \ Owning(h) : Kids(h)[p] = << >>
         /\ \A p \in Item : Kids(h)[p] \in Seq(Item) /\ Len(Kids(h)[p]) \in Nat
         /\ \A p \in Item : \A j : (\E k \in 1 .. Len(Kids(h)[p]) : Kids(h)[p][k] = j)
                                 <=> j \in Live(h) /\ up[j] = p
         /\ \A p \in Item : \A a, b \in 1 .. Len(Kids(h)[p]) : Kids(h)[p][a] = Kids(h)[p][b] => a = b
         /\ \A p \in Item : \A k \in 1 .. Len(Kids(h)[p]) :
              Pv(h)[Kids(h)[p][k]] = IF k = 1 THEN NULL ELSE Kids(h)[p][k - 1]
<1>1. h \in Heap /\ HeapGraph(h, R, up) /\ Cleared(h)
  BY DEF Whole
<1> QED
  BY <1>1, KidsAre

LEMMA KidSet ==
  ASSUME NEW h, NEW R, NEW up, Whole(h, R, up)
  PROVE  /\ \A p \in Item : F!ToSet(Kids(h)[p]) = {j \in Live(h) : up[j] = p}
         /\ F!Roots(Live(h), Kids(h)) = {i \in Live(h) : up[i] = NULL}
<1>1. ASSUME NEW p \in Item PROVE F!ToSet(Kids(h)[p]) = {j \in Live(h) : up[j] = p}
  <2> DEFINE s == Kids(h)[p]
  <2>1. s \in Seq(Item) /\ \A j : (\E k \in 1 .. Len(s) : s[k] = j) <=> j \in Live(h) /\ up[j] = p
    BY WholeKids
  <2> HIDE DEF s
  <2>2. DOMAIN s = 1 .. Len(s)
    BY <2>1, LenProperties
  <2>3. F!ToSet(s) = {s[k] : k \in 1 .. Len(s)}
    BY <2>2 DEF F!ToSet
  <2>4. F!ToSet(s) = {j \in Live(h) : up[j] = p}
    BY <2>1, <2>3
  <2> QED
    BY <2>4 DEF s
<1>2. Live(h) \in SUBSET Item /\ NULL \notin Item /\ up \in Pointers /\ HeapGraph(h, R, up)
  BY WholeParts
<1>3. \A i \in Live(h) : up[i] # NULL => up[i] \in Live(h)
  BY <1>2, UpLive DEF HeapGraph
<1>4. F!Roots(Live(h), Kids(h)) = {i \in Live(h) : up[i] = NULL}
  <2>1. ASSUME NEW i \in Live(h)
        PROVE  (\A p \in Live(h) : i \notin F!ToSet(Kids(h)[p])) <=> up[i] = NULL
    BY <1>1, <1>2, <1>3
  <2> QED
    BY <2>1 DEF F!Roots
<1> QED
  BY <1>1, <1>4

(* A sequence that follows the pointers from the first member is the       *)
(* sequence of members.                                                    *)
LEMMA KidsFrom ==
  ASSUME NEW h, NEW R, NEW up, Whole(h, R, up), NEW p \in Owning(h),
         NEW s, Strung(Nx(h), Cd(h)[p], s)
  PROVE  Kids(h)[p] = s
<1>1. Strung(Nx(h), Cd(h)[p], Kids(h)[p])
  BY WholeKids
<1> QED
  BY <1>1, StrungOnly

(* The members of p stay as they are when none of their pointers changes.  *)
LEMMA KidsSame ==
  ASSUME NEW h, NEW R, NEW up, Whole(h, R, up), NEW g, NEW R2, NEW up2, Whole(g, R2, up2),
         NEW p \in Item, p \in Owning(g) <=> p \in Owning(h),
         p \in Owning(h) => /\ Cd(g)[p] = Cd(h)[p]
                            /\ \A j \in Live(h) : up[j] = p => Nx(g)[j] = Nx(h)[j]
  PROVE  Kids(g)[p] = Kids(h)[p]
<1>1. CASE p \notin Owning(h)
  <2>1. Kids(g)[p] = << >> /\ Kids(h)[p] = << >>
    BY <1>1, WholeKids
  <2> QED
    BY <2>1
<1>2. CASE p \in Owning(h)
  <2> DEFINE s == Kids(h)[p]
  <2>1. Strung(Nx(h), Cd(h)[p], s)
    BY <1>2, WholeKids
  <2>2. \A k \in 1 .. Len(s) : s[k] \in Live(h) /\ up[s[k]] = p
    BY WholeKids
  <2> HIDE DEF s
  <2>3. Strung(Nx(g), Cd(g)[p], s)
    BY <1>2, <2>1, <2>2 DEF Strung
  <2>4. Kids(g)[p] = s
    BY <1>2, <2>3, KidsFrom
  <2> QED
    BY <2>4 DEF s
<1> QED
  BY <1>1, <1>2

(* What was there stays, and what comes is in no list of it.               *)
Grew(h, up, g, up2) ==
  /\ Live(h) \subseteq Live(g)
  /\ \A j \in Live(h) : g.cell[j] = h.cell[j] /\ up2[j] = up[j]
  /\ \A j \in Live(g) \ Live(h) : up2[j] \notin Live(h)

LEMMA GrewKids ==
  ASSUME NEW h, NEW R, NEW up, Whole(h, R, up), NEW g, NEW R2, NEW up2, Whole(g, R2, up2),
         Grew(h, up, g, up2), NEW p \in Live(h)
  PROVE  Kids(g)[p] = Kids(h)[p] /\ Names(g)[p] = Names(h)[p]
<1>1. p \in Item /\ h \in Heap /\ g \in Heap /\ Live(h) \in SUBSET Item
  BY WholeParts
<1>2. g.cell[p] = h.cell[p] /\ p \in Live(g)
  BY DEF Grew
<1>3. Cd(g)[p] = Cd(h)[p] /\ (p \in Owning(g) <=> p \in Owning(h))
  BY <1>1, <1>2 DEF Cd, Owning
<1>4. \A j \in Live(h) : Nx(g)[j] = Nx(h)[j]
  BY <1>1 DEF Grew, Nx
<1>5. Kids(g)[p] = Kids(h)[p]
  BY <1>1, <1>3, <1>4, KidsSame
<1> QED
  BY <1>1, <1>2, <1>5 DEF Names

LEMMA GrewStep ==
  ASSUME NEW R, NEW up, Whole(heap, R, up), NEW R2, NEW up2, Whole(heap', R2, up2),
         Grew(heap, up, heap', up2)
  PROVE  F!Grow
<1>1. Live(heap) \subseteq Live(heap') /\ Live(heap) \in SUBSET Item /\ Live(heap') \in SUBSET Item
  BY WholeParts DEF Grew
<1>2. \A i \in Live(heap) : Kids(heap')[i] = Kids(heap)[i] /\ Names(heap')[i] = Names(heap)[i]
  BY GrewKids
<1>3. /\ up \in Pointers /\ NULL \notin Item
      /\ \A j \in Live(heap) : up[j] # NULL => up[j] \in Live(heap)
  BY WholeParts, UpLive DEF HeapGraph
<1>4. \A i \in Live(heap') \ Live(heap) : F!ToSet(Kids(heap')[i]) \cap Live(heap) = {}
  <2> SUFFICES ASSUME NEW i \in Live(heap') \ Live(heap), NEW j \in Live(heap),
                      j \in F!ToSet(Kids(heap')[i])
               PROVE  FALSE
    OBVIOUS
  <2>1. up2[j] = i
    BY <1>1, KidSet
  <2>2. up[j] = i /\ i # NULL
    BY <1>1, <1>3, <2>1 DEF Grew
  <2> QED
    BY <1>3, <2>2
<1>5. F!Roots(Live(heap), Kids(heap)) \subseteq F!Roots(Live(heap'), Kids(heap'))
  <2>1. F!Roots(Live(heap), Kids(heap)) = {i \in Live(heap) : up[i] = NULL}
    BY KidSet
  <2>2. F!Roots(Live(heap'), Kids(heap')) = {i \in Live(heap') : up2[i] = NULL}
    BY KidSet
  <2> QED
    BY <1>1, <2>1, <2>2 DEF Grew
<1> QED
  BY <1>1, <1>2, <1>4, <1>5 DEF F!Grow, Kids, Names

-----------------------------------------------------------------------------
(* What comes of the sequence when the pointers change at one place.       *)
LEMMA StrungInsert ==
  ASSUME NEW N, NEW a, NEW s, Strung(N, a, s), NEW k \in 1 .. Len(s) + 1, NEW e \in Item, NEW M,
         \A j \in 1 .. Len(s) : M[s[j]] = IF j = k - 1 THEN e ELSE N[s[j]],
         M[e] = IF k = Len(s) + 1 THEN NULL ELSE s[k],
         NEW b, b = IF k = 1 THEN e ELSE a
  PROVE  Strung(M, b, F!InsertAt(s, k, e))
<1> DEFINE t == F!InsertAt(s, k, e)
<1>1. s \in Seq(Item) /\ Len(s) \in Nat /\ k \in Nat /\ k >= 1 /\ k <= Len(s) + 1
  BY LenProperties DEF Strung
<1>2. /\ t \in Seq(Item) /\ Len(t) = Len(s) + 1
      /\ \A j \in 1 .. Len(t) : t[j] = IF j < k THEN s[j] ELSE IF j = k THEN e ELSE s[j - 1]
  BY <1>1, InsertedAt
<1> HIDE DEF t
<1>3. b = IF Len(t) = 0 THEN NULL ELSE t[1]
  <2>1. 1 \in 1 .. Len(t)
    BY <1>1, <1>2
  <2>2. CASE k = 1
    BY <1>1, <1>2, <2>1, <2>2
  <2>3. CASE k # 1
    <3>1. 1 < k /\ Len(s) # 0 /\ Len(t) # 0
      BY <1>1, <1>2, <2>3
    <3>2. t[1] = s[1]
      BY <1>2, <2>1, <3>1
    <3> QED
      BY <2>3, <3>1, <3>2 DEF Strung
  <2> QED
    BY <2>2, <2>3
<1>4. ASSUME NEW j \in 1 .. Len(t) PROVE M[t[j]] = IF j = Len(t) THEN NULL ELSE t[j + 1]
  <2>1. j # Len(t) => j + 1 \in 1 .. Len(t)
    BY <1>1, <1>2
  <2>2. CASE j < k
    <3>1. j \in 1 .. Len(s) /\ t[j] = s[j] /\ j # Len(t) /\ (j = k - 1 <=> j + 1 = k)
      BY <1>1, <1>2, <2>2
    <3>2. M[s[j]] = IF j + 1 = k THEN e ELSE s[j + 1]
      <4>1. j # k - 1 => j # Len(s)
        BY <1>1, <2>2
      <4>2. N[s[j]] = IF j = Len(s) THEN NULL ELSE s[j + 1]
        BY <3>1 DEF Strung
      <4> QED
        BY <3>1, <4>1, <4>2
    <3>3. t[j + 1] = IF j + 1 = k THEN e ELSE s[j + 1]
      <4>1. j + 1 < k \/ j + 1 = k
        BY <1>1, <2>2
      <4> QED
        BY <1>1, <1>2, <2>1, <3>1, <4>1
    <3> QED
      BY <3>1, <3>2, <3>3
  <2>3. CASE j = k
    <3>1. t[j] = e /\ (j = Len(t) <=> k = Len(s) + 1)
      BY <1>1, <1>2, <2>3
    <3>2. j # Len(t) => t[j + 1] = s[k]
      <4>1. ~ (j + 1 < k) /\ j + 1 # k /\ (j + 1) - 1 = k
        BY <1>1, <2>3
      <4> QED
        BY <1>2, <2>1, <4>1
    <3> QED
      BY <3>1, <3>2
  <2>4. CASE j > k
    <3>1. j - 1 \in 1 .. Len(s) /\ j - 1 # k - 1 /\ t[j] = s[j - 1] /\ (j = Len(t) <=> j - 1 = Len(s))
      BY <1>1, <1>2, <2>4
    <3>2. M[s[j - 1]] = IF j - 1 = Len(s) THEN NULL ELSE s[j]
      <4>1. N[s[j - 1]] = IF j - 1 = Len(s) THEN NULL ELSE s[(j - 1) + 1]
        BY <3>1 DEF Strung
      <4>2. (j - 1) + 1 = j
        BY <1>1, <1>2
      <4> QED
        BY <3>1, <4>1, <4>2
    <3>3. j # Len(t) => t[j + 1] = s[j]
      <4>1. ~ (j + 1 < k) /\ j + 1 # k /\ (j + 1) - 1 = j
        BY <1>1, <1>2, <2>4
      <4> QED
        BY <1>2, <2>1, <4>1
    <3> QED
      BY <3>1, <3>2, <3>3
  <2> QED
    BY <1>1, <1>2, <2>2, <2>3, <2>4
<1>5. Strung(M, b, t)
  BY <1>2, <1>3, <1>4 DEF Strung
<1> QED
  BY <1>5 DEF t

LEMMA StrungRemove ==
  ASSUME NEW N, NEW a, NEW s, Strung(N, a, s), NEW k \in 1 .. Len(s), NEW M,
         \A j \in 1 .. Len(s) : j # k => M[s[j]] = IF j = k - 1 THEN N[s[k]] ELSE N[s[j]],
         NEW b, b = IF k = 1 THEN N[s[k]] ELSE a
  PROVE  Strung(M, b, F!RemoveAt(s, k))
<1> DEFINE t == F!RemoveAt(s, k)
<1>1. s \in Seq(Item) /\ Len(s) \in Nat /\ k \in Nat /\ k >= 1 /\ k <= Len(s)
  BY LenProperties DEF Strung
<1>2. /\ t \in Seq(Item) /\ Len(t) = Len(s) - 1
      /\ \A j \in 1 .. Len(t) : t[j] = IF j < k THEN s[j] ELSE s[j + 1]
  BY <1>1, RemovedAt
<1> HIDE DEF t
<1>3. \A j \in 1 .. Len(s) : N[s[j]] = IF j = Len(s) THEN NULL ELSE s[j + 1]
  BY DEF Strung
<1>4. b = IF Len(t) = 0 THEN NULL ELSE t[1]
  <2>1. CASE k = 1
    <3>1. b = IF k = Len(s) THEN NULL ELSE s[k + 1]
      BY <1>3, <2>1
    <3>2. Len(t) # 0 => t[1] = s[1 + 1]
      BY <1>1, <1>2, <2>1
    <3> QED
      BY <1>1, <1>2, <2>1, <3>1, <3>2
  <2>2. CASE k # 1
    <3>1. 1 \in 1 .. Len(t) /\ 1 < k /\ Len(t) # 0 /\ Len(s) # 0
      BY <1>1, <1>2, <2>2
    <3>2. t[1] = s[1]
      BY <1>2, <3>1
    <3> QED
      BY <2>2, <3>1, <3>2 DEF Strung
  <2> QED
    BY <2>1, <2>2
<1>5. ASSUME NEW j \in 1 .. Len(t) PROVE M[t[j]] = IF j = Len(t) THEN NULL ELSE t[j + 1]
  <2>1. j # Len(t) => j + 1 \in 1 .. Len(t)
    BY <1>1, <1>2
  <2>2. CASE j < k - 1
    <3>1. j \in 1 .. Len(s) /\ j # k /\ j # k - 1 /\ j # Len(s) /\ j # Len(t) /\ j < k /\ j + 1 < k
      BY <1>1, <1>2, <2>2
    <3>2. t[j] = s[j] /\ t[j + 1] = s[j + 1]
      BY <1>2, <2>1, <3>1
    <3> QED
      BY <1>3, <3>1, <3>2
  <2>3. CASE j = k - 1
    <3>1. /\ j \in 1 .. Len(s) /\ j # k /\ j < k /\ ~ (j + 1 < k) /\ (j + 1) + 1 = k + 1
          /\ (j = Len(t) <=> k = Len(s))
      BY <1>1, <1>2, <2>3
    <3>2. t[j] = s[j] /\ (j # Len(t) => t[j + 1] = s[k + 1])
      BY <1>2, <2>1, <3>1
    <3>3. M[s[j]] = IF k = Len(s) THEN NULL ELSE s[k + 1]
      BY <1>3, <2>3, <3>1
    <3> QED
      BY <3>1, <3>2, <3>3
  <2>4. CASE j >= k
    <3>1. /\ j + 1 \in 1 .. Len(s) /\ j + 1 # k /\ j + 1 # k - 1 /\ ~ (j < k) /\ ~ (j + 1 < k)
          /\ (j = Len(t) <=> j + 1 = Len(s))
      BY <1>1, <1>2, <2>4
    <3>2. t[j] = s[j + 1] /\ (j # Len(t) => t[j + 1] = s[(j + 1) + 1])
      BY <1>2, <2>1, <3>1
    <3>3. M[s[j + 1]] = IF j + 1 = Len(s) THEN NULL ELSE s[(j + 1) + 1]
      BY <1>3, <3>1
    <3> QED
      BY <3>1, <3>2, <3>3
  <2> QED
    BY <1>1, <1>2, <2>2, <2>3, <2>4
<1>6. Strung(M, b, t)
  BY <1>2, <1>4, <1>5 DEF Strung
<1> QED
  BY <1>6 DEF t

LEMMA StrungReplace ==
  ASSUME NEW N, NEW a, NEW s, Strung(N, a, s), NEW k \in 1 .. Len(s), NEW r \in Item, NEW M,
         \A j \in 1 .. Len(s) : j # k => M[s[j]] = IF j = k - 1 THEN r ELSE N[s[j]],
         M[r] = N[s[k]],
         NEW b, b = IF k = 1 THEN r ELSE a
  PROVE  Strung(M, b, [s EXCEPT ![k] = r])
<1> DEFINE t == [s EXCEPT ![k] = r]
<1>1. s \in Seq(Item) /\ Len(s) \in Nat /\ k \in Nat /\ k >= 1 /\ k <= Len(s)
  BY LenProperties DEF Strung
<1>2. /\ t \in Seq(Item) /\ Len(t) = Len(s)
      /\ \A j \in 1 .. Len(s) : t[j] = IF j = k THEN r ELSE s[j]
  BY <1>1, ExceptSeq
<1> HIDE DEF t
<1>3. \A j \in 1 .. Len(s) : N[s[j]] = IF j = Len(s) THEN NULL ELSE s[j + 1]
  BY DEF Strung
<1>4. b = IF Len(t) = 0 THEN NULL ELSE t[1]
  <2>1. 1 \in 1 .. Len(s) /\ Len(s) # 0
    BY <1>1
  <2> QED
    BY <1>2, <2>1 DEF Strung
<1>5. ASSUME NEW j \in 1 .. Len(t) PROVE M[t[j]] = IF j = Len(t) THEN NULL ELSE t[j + 1]
  <2>1. j \in 1 .. Len(s) /\ (j # Len(s) => j + 1 \in 1 .. Len(s)) /\ j + 1 # j
    BY <1>1, <1>2
  <2>2. CASE j = k
    BY <1>2, <1>3, <2>1, <2>2
  <2>3. CASE j # k
    <3>1. j = k - 1 <=> j + 1 = k
      BY <1>1, <2>1
    <3>2. j + 1 = k => j # Len(s)
      BY <1>1, <2>1
    <3> QED
      BY <1>2, <1>3, <2>1, <2>3, <3>1, <3>2
  <2> QED
    BY <2>2, <2>3
<1>6. Strung(M, b, t)
  BY <1>2, <1>4, <1>5 DEF Strung
<1> QED
  BY <1>6 DEF t

(* Only the list of p has changed, and where items that are in none go.    *)
LEMMA OthersSame ==
  ASSUME NEW h, NEW R, NEW up, Whole(h, R, up), NEW g, NEW R2, NEW up2, Whole(g, R2, up2),
         Rewired(h, g), NEW p \in Item,
         \A q \in Item : q # p => Cd(g)[q] = Cd(h)[q],
         \A j \in Live(h) : up[j] # NULL /\ up[j] # p => Nx(g)[j] = Nx(h)[j]
  PROVE  /\ Live(g) = Live(h) /\ Names(g) = Names(h)
         /\ Kids(g) = [Kids(h) EXCEPT ![p] = Kids(g)[p]]
<1>1. h \in Heap /\ NULL \notin Item
  BY WholeParts
<1>2. Live(g) = Live(h)
  BY <1>1, KdIs
<1>3. \A j \in Item : g.cell[j].isRef = h.cell[j].isRef /\ g.cell[j].string = h.cell[j].string
  BY DEF Rewired, SameItem
<1>4. \A q \in Item : q \in Owning(g) <=> q \in Owning(h)
  BY <1>2, <1>3 DEF Owning
<1>5. ASSUME NEW q \in Item, q # p PROVE Kids(g)[q] = Kids(h)[q]
  <2>1. \A j \in Live(h) : up[j] = q => Nx(g)[j] = Nx(h)[j]
    BY <1>1, <1>5
  <2> QED
    BY <1>4, <1>5, <2>1, KidsSame
<1>6. Kids(g) = [Kids(h) EXCEPT ![p] = Kids(g)[p]]
  <2>1. Kids(g) = [q \in Item |-> Kids(g)[q]] /\ Kids(h) = [q \in Item |-> Kids(h)[q]]
    BY DEF Kids
  <2> QED
    BY <1>5, <2>1
<1>7. Names(g) = Names(h)
  BY <1>3 DEF Names
<1> QED
  BY <1>2, <1>6, <1>7

-----------------------------------------------------------------------------
(* The item k goes to the end of the members of p.                         *)
LEMMA AddKids ==
  ASSUME NEW h, NEW R, NEW up, Whole(h, R, up), Alone(h, R), NEW k \in R,
         NEW p \in Live(h), ~h.cell[p].isRef, p \notin Doomed(h, k),
         h.cell[p].type = "object" => h.cell[k].string # NoName,
         NEW g, g = add_item_to_array(h, p, k)
  PROVE  /\ Live(g) = Live(h) /\ Names(g) = Names(h)
         /\ Kids(g) = [Kids(h) EXCEPT ![p] = F!InsertAt(@, Len(@) + 1, k)]
<1>1. /\ h \in Heap /\ HeapGraph(h, R, up) /\ R \in SUBSET Live(h) /\ up \in Pointers
      /\ Live(h) \in SUBSET Item /\ NULL \notin Item /\ p \in Item /\ k \in Item
      /\ \A i \in R : up[i] = NULL
  BY WholeParts
<1>2. Suits(h, up, p, k)
  <2>1. Nx(h)[k] = NULL
    BY DEF Alone
  <2> QED
    BY <2>1, OneRoot DEF Suits
<1> DEFINE w == Walk(h, h.cell[p].child)
           s == Kids(h)[p]
<1>3. Cd(h)[p] \in Item \cup {NULL} /\ Cd(h)[p] = h.cell[p].child
  BY <1>1, HeapTypes DEF Pointers
<1>4. w[0] = Cd(h)[p]
  BY <1>1, <1>3, WalkSteps
<1>5. g = IF w[0] = NULL THEN SetChild(h, p, k) ELSE suffix_object(h, w[LastOf(w)], k)
  BY DEF add_item_to_array, LastOf
<1>6. w = Walk(h, h.cell[p].child)
  OBVIOUS
<1>7. PICK up2 : Whole(g, R \ {k}, up2)
  BY AddWhole
<1>8. p \in Owning(h)
  BY DEF Owning
<1>9. /\ Strung(Nx(h), Cd(h)[p], s) /\ s \in Seq(Item) /\ Len(s) \in Nat
      /\ \A j : (\E n \in 1 .. Len(s) : s[n] = j) <=> j \in Live(h) /\ up[j] = p
      /\ \A a, b \in 1 .. Len(s) : s[a] = s[b] => a = b
  BY <1>1, <1>8, WholeKids
<1> HIDE DEF w, s
<1>10. \A n \in 1 .. Len(s) : s[n] # k /\ s[n] \in Item
  BY <1>1, <1>9
<1> DEFINE t == F!InsertAt(s, Len(s) + 1, k)
<1> SUFFICES /\ Rewired(h, g) /\ Strung(Nx(g), Cd(g)[p], t)
             /\ \A q \in Item : q # p => Cd(g)[q] = Cd(h)[q]
             /\ \A j \in Live(h) : up[j] # NULL /\ up[j] # p => Nx(g)[j] = Nx(h)[j]
  <2>1. ASSUME Rewired(h, g) /\ Strung(Nx(g), Cd(g)[p], t) PROVE Kids(g)[p] = t
    <3>1. p \in Owning(g)
      <4>1. Live(g) = Live(h) /\ g.cell[p].isRef = h.cell[p].isRef
        BY <1>1, <2>1, KdIs DEF Rewired, SameItem
      <4> QED
        BY <1>8, <4>1 DEF Owning
    <3> HIDE DEF t
    <3> QED
      BY <1>7, <2>1, <3>1, KidsFrom
  <2> HIDE DEF t
  <2>2. Kids(h)[p] = s
    BY DEF s
  <2>3. [Kids(h) EXCEPT ![p] = F!InsertAt(@, Len(@) + 1, k)] = [Kids(h) EXCEPT ![p] = t]
    BY <2>2 DEF t
  <2> QED
    BY <1>1, <1>7, <2>1, <2>3, OthersSame
<1>11. CASE w[0] = NULL
  <2>1. g = SetChild(h, p, k) /\ Cd(h)[p] = NULL
    BY <1>4, <1>5, <1>11
  <2>2. /\ Rewired(h, g) /\ Nx(g) = Nx(h)
        /\ \A j \in Item : Cd(g)[j] = IF j = p THEN k ELSE Cd(h)[j]
    BY <1>1, <2>1, SetChildIs
  <2>3. Len(s) = 0
    <3> SUFFICES ASSUME Len(s) # 0 PROVE FALSE
      OBVIOUS
    <3>1. 1 \in 1 .. Len(s)
      BY <1>9
    <3>2. s[1] = NULL
      BY <1>9, <2>1 DEF Strung
    <3> QED
      BY <1>1, <1>10, <3>1, <3>2
  <2>4. Nx(g)[k] = NULL
    BY <2>2 DEF Alone
  <2>5. Strung(Nx(g), Cd(g)[p], t)
    <3>1. Len(s) + 1 \in 1 .. Len(s) + 1 /\ Len(s) + 1 = 1
      BY <2>3
    <3>2. \A j \in 1 .. Len(s) : Nx(g)[s[j]] = IF j = Len(s) + 1 - 1 THEN k ELSE Nx(h)[s[j]]
      BY <2>3
    <3>3. Cd(g)[p] = IF Len(s) + 1 = 1 THEN k ELSE Cd(h)[p]
      BY <1>1, <2>2, <3>1
    <3>4. Nx(g)[k] = IF Len(s) + 1 = Len(s) + 1 THEN NULL ELSE s[Len(s) + 1]
      BY <2>4
    <3> QED
      BY <1>1, <1>9, <3>1, <3>2, <3>3, <3>4, StrungInsert
  <2> QED
    BY <2>2, <2>5
<1>12. CASE w[0] # NULL
  <2> DEFINE q == w[LastOf(w)]
  <2>1. q \in Live(h) /\ up[q] = p /\ Nx(h)[q] = NULL
    BY <1>1, <1>6, <1>12, LastMember
  <2>2. g = suffix_object(h, q, k)
    BY <1>5, <1>12
  <2> HIDE DEF q
  <2>3. /\ Rewired(h, g) /\ Cd(g) = Cd(h)
        /\ \A j \in Item : Nx(g)[j] = IF j = q THEN k ELSE Nx(h)[j]
    <3> DEFINE e == SetNext(h, q, k)
    <3>1. g = SetPrev(e, k, q) /\ q \in Item
      BY <1>1, <2>1, <2>2 DEF suffix_object
    <3>2. /\ Rewired(h, e) /\ Cd(e) = Cd(h)
          /\ \A j \in Item : Nx(e)[j] = IF j = q THEN k ELSE Nx(h)[j]
      BY <1>1, <3>1, SetNextIs
    <3> HIDE DEF e
    <3>3. Rewired(e, g) /\ Nx(g) = Nx(e) /\ Cd(g) = Cd(e)
      <4>1. e \in Heap
        BY <3>2 DEF Rewired
      <4> QED
        BY <1>1, <3>1, <4>1, SetPrevIs
    <3> QED
      BY <3>2, <3>3, RewiredTwice
  <2>4. PICK n \in 1 .. Len(s) : s[n] = q
    BY <1>9, <2>1
  <2>5. n = Len(s)
    <3> SUFFICES ASSUME n # Len(s) PROVE FALSE
      OBVIOUS
    <3>1. s[n + 1] = NULL /\ n + 1 \in 1 .. Len(s)
      BY <1>9, <2>1, <2>4 DEF Strung
    <3> QED
      BY <1>1, <1>10, <3>1
  <2>6. Strung(Nx(g), Cd(g)[p], t)
    <3> DEFINE m == Len(s) + 1
    <3>1. m \in 1 .. Len(s) + 1 /\ m # 1 /\ m - 1 = Len(s)
      BY <1>9, <2>4
    <3>2. \A j \in 1 .. Len(s) : Nx(g)[s[j]] = IF j = m - 1 THEN k ELSE Nx(h)[s[j]]
      BY <1>9, <1>10, <2>3, <2>4, <2>5, <3>1
    <3>3. Cd(g)[p] = IF m = 1 THEN k ELSE Cd(h)[p]
      BY <2>3, <3>1
    <3>4. Nx(g)[k] = IF m = Len(s) + 1 THEN NULL ELSE s[m]
      BY <1>1, <2>1, <2>3 DEF Alone
    <3>5. t = F!InsertAt(s, m, k) /\ Strung(Nx(h), Cd(h)[p], s)
      BY <1>9
    <3> HIDE DEF m, t
    <3>6. Strung(Nx(g), Cd(g)[p], F!InsertAt(s, m, k))
      BY <1>1, <3>1, <3>2, <3>3, <3>4, <3>5, StrungInsert, ZenonT(40)
    <3> QED
      BY <3>5, <3>6
  <2>7. \A j \in Live(h) : up[j] # NULL /\ up[j] # p => Nx(g)[j] = Nx(h)[j]
    BY <1>1, <2>1, <2>3
  <2> QED
    BY <2>3, <2>6, <2>7
<1> QED
  BY <1>11, <1>12

-----------------------------------------------------------------------------
(* The sequence that p then has tells what the call did to all of them.    *)
Becomes(h, g, p, t) ==
  Live(g) = Live(h) /\ Names(g) = Names(h) /\ Kids(g) = [Kids(h) EXCEPT ![p] = t]

LEMMA OneList ==
  ASSUME NEW h, NEW R, NEW up, Whole(h, R, up), NEW g, NEW R2, NEW up2, Whole(g, R2, up2),
         Rewired(h, g), NEW p \in Owning(h), NEW t, Strung(Nx(g), Cd(g)[p], t),
         \A q \in Item : q # p => Cd(g)[q] = Cd(h)[q],
         \A j \in Live(h) : up[j] # NULL /\ up[j] # p => Nx(g)[j] = Nx(h)[j]
  PROVE  Becomes(h, g, p, t)
<1>1. h \in Heap /\ Live(h) \in SUBSET Item /\ p \in Item /\ p \in Live(h) /\ ~h.cell[p].isRef
  BY WholeParts DEF Owning
<1>2. p \in Owning(g)
  <2>1. Live(g) = Live(h) /\ g.cell[p].isRef = h.cell[p].isRef
    BY <1>1, KdIs DEF Rewired, SameItem
  <2> QED
    BY <1>1, <2>1 DEF Owning
<1>3. Kids(g)[p] = t
  BY <1>2, KidsFrom
<1> QED
  BY <1>1, <1>3, OthersSame DEF Becomes

(* The item k goes before the nth member of p, or to the end.              *)
LEMMA InsertKids ==
  ASSUME NEW h, NEW R, NEW up, Whole(h, R, up), Alone(h, R), NEW k \in R,
         NEW p \in Live(h), ~h.cell[p].isRef, p \notin Doomed(h, k),
         h.cell[p].type = "object" => h.cell[k].string # NoName,
         NEW n \in 0 .. MaxItems,
         NEW g, g = cJSON_InsertItemInArray(h, p, n, k)
  PROVE  /\ Live(g) = Live(h) /\ Names(g) = Names(h)
         /\ \E m \in 1 .. Len(Kids(h)[p]) + 1 : Kids(g) = [Kids(h) EXCEPT ![p] = F!InsertAt(@, m, k)]
<1>1. /\ h \in Heap /\ HeapGraph(h, R, up) /\ R \in SUBSET Live(h) /\ up \in Pointers
      /\ Live(h) \in SUBSET Item /\ NULL \notin Item /\ p \in Item /\ k \in Item
      /\ \A i \in R : up[i] = NULL /\ Pv(h)[i] = NULL
  BY WholeParts
<1> DEFINE a == get_array_item(h, p, n)
           linked == SetPrev(SetPrev(SetNext(h, k, a), k, h.cell[a].prev), a, k)
           s == Kids(h)[p]
<1>2. g = IF a = NULL THEN add_item_to_array(h, p, k)
          ELSE IF a = h.cell[p].child THEN SetChild(linked, p, k)
          ELSE SetNext(linked, h.cell[a].prev, k)
  BY DEF cJSON_InsertItemInArray
<1>3. a # NULL => a \in Live(h) /\ up[a] = p
  BY <1>1, GetArrayItem
<1>4. linked = SetPrev(SetPrev(SetNext(h, k, a), k, h.cell[a].prev), a, k)
  OBVIOUS
<1>5. p \in Owning(h)
  BY DEF Owning
<1>6. /\ Strung(Nx(h), Cd(h)[p], s) /\ s \in Seq(Item) /\ Len(s) \in Nat
      /\ \A j : (\E x \in 1 .. Len(s) : s[x] = j) <=> j \in Live(h) /\ up[j] = p
      /\ \A x, y \in 1 .. Len(s) : s[x] = s[y] => x = y
      /\ \A x \in 1 .. Len(s) : Pv(h)[s[x]] = IF x = 1 THEN NULL ELSE s[x - 1]
  BY <1>1, <1>5, WholeKids
<1>7. PICK up2 : Whole(g, R \ {k}, up2)
  BY InsertWhole
<1> HIDE DEF a, linked, s
<1>8. CASE a = NULL
  <2>1. /\ Live(g) = Live(h) /\ Names(g) = Names(h)
        /\ Kids(g) = [Kids(h) EXCEPT ![p] = F!InsertAt(@, Len(@) + 1, k)]
    <3>1. g = add_item_to_array(h, p, k)
      BY <1>2, <1>8
    <3> QED
      BY <3>1, AddKids
  <2>2. Len(s) + 1 \in 1 .. Len(s) + 1
    BY <1>6
  <2>3. Kids(g) = [Kids(h) EXCEPT ![p] = F!InsertAt(@, Len(s) + 1, k)]
    BY <2>1 DEF s
  <2> QED
    BY <2>1, <2>2, <2>3 DEF s
<1>9. CASE a # NULL
  <2> DEFINE b == Pv(h)[a]
  <2>1. PICK m \in 1 .. Len(s) : s[m] = a
    BY <1>3, <1>6, <1>9
  <2>2. a \in Live(h) /\ a \in Item /\ up[a] = p /\ b = h.cell[a].prev /\ a # k
    BY <1>1, <1>3, <1>9, HeapTypes
  <2>3. /\ b = IF m = 1 THEN NULL ELSE s[m - 1]
        /\ m # 1 => m - 1 \in 1 .. Len(s) /\ b # NULL /\ b \in Item
        /\ m \in Nat /\ Len(s) \in Nat
        /\ \A x \in 1 .. Len(s) : s[x] \in Live(h) /\ s[x] \in Item /\ up[s[x]] = p
    <3>1. \A x \in 1 .. Len(s) : s[x] \in Live(h) /\ s[x] \in Item /\ up[s[x]] = p
      BY <1>1, <1>6
    <3>2. b = IF m = 1 THEN NULL ELSE s[m - 1]
      BY <1>6, <2>1
    <3>3. m # 1 => m - 1 \in 1 .. Len(s)
      BY <1>6, <2>1
    <3> QED
      BY <1>1, <1>6, <2>1, <3>1, <3>2, <3>3
  <2>4. b # k
    BY <1>1, <2>3
  <2>5. h.cell[p].child = a <=> b = NULL
    <3>1. s[1] = h.cell[p].child
      BY <1>1, <1>6, <2>1, HeapTypes DEF Strung
    <3>2. 1 \in 1 .. Len(s)
      BY <1>6, <2>1
    <3>3. s[1] = a <=> m = 1
      BY <1>6, <2>1, <3>2
    <3> QED
      BY <2>3, <3>1, <3>3
  <2>6. /\ Rewired(h, g)
        /\ \A j \in Item : Nx(g)[j] = IF j = k THEN a ELSE IF j = b THEN k ELSE Nx(h)[j]
        /\ \A j \in Item : Cd(g)[j] = IF b = NULL /\ j = p THEN k ELSE Cd(h)[j]
    <3>1. linked = SetPrev(SetPrev(SetNext(h, k, a), k, b), a, k)
      BY <1>4, <2>2
    <3>2. g = IF h.cell[p].child = a THEN SetChild(linked, p, k) ELSE SetNext(linked, b, k)
      BY <1>2, <1>9, <2>2
    <3> QED
      BY <1>1, <2>2, <2>4, <2>5, <3>1, <3>2, InsertIs
  <2> HIDE DEF b
  <2>7. Strung(Nx(g), Cd(g)[p], F!InsertAt(s, m, k))
    <3>1. m \in 1 .. Len(s) + 1 /\ m # Len(s) + 1
      BY <2>1, <2>3
    <3>2. ASSUME NEW j \in 1 .. Len(s) PROVE Nx(g)[s[j]] = IF j = m - 1 THEN k ELSE Nx(h)[s[j]]
      <4>1. s[j] # k /\ s[j] \in Item
        BY <1>1, <2>3
      <4>2. s[j] = b <=> j = m - 1
        <5>1. CASE m = 1
          <6>1. b = NULL /\ j # m - 1
            BY <2>3, <5>1
          <6> QED
            BY <1>1, <4>1, <6>1
        <5>2. CASE m # 1
          BY <1>6, <2>3, <5>2
        <5> QED
          BY <5>1, <5>2
      <4> QED
        BY <2>6, <4>1, <4>2
    <3>3. Cd(g)[p] = IF m = 1 THEN k ELSE Cd(h)[p]
      BY <1>1, <2>3, <2>6
    <3>4. Nx(g)[k] = IF m = Len(s) + 1 THEN NULL ELSE s[m]
      BY <1>1, <2>1, <2>6, <3>1
    <3> QED
      BY <1>1, <1>6, <3>1, <3>2, <3>3, <3>4, StrungInsert
  <2>8. /\ \A q \in Item : q # p => Cd(g)[q] = Cd(h)[q]
        /\ \A j \in Live(h) : up[j] # NULL /\ up[j] # p => Nx(g)[j] = Nx(h)[j]
    <3>1. b # NULL => up[b] = p
      BY <2>3
    <3> QED
      BY <1>1, <2>6, <3>1
  <2>9. /\ Live(g) = Live(h) /\ Names(g) = Names(h)
        /\ Kids(g) = [Kids(h) EXCEPT ![p] = F!InsertAt(s, m, k)]
    <3> DEFINE t == F!InsertAt(s, m, k)
    <3>1. Strung(Nx(g), Cd(g)[p], t)
      BY <2>7
    <3> HIDE DEF t
    <3>2. Becomes(h, g, p, t)
      BY <1>5, <1>7, <2>6, <2>8, <3>1, OneList
    <3> QED
      BY <3>2 DEF t, Becomes
  <2>10. m \in 1 .. Len(s) + 1
    BY <2>1, <2>3
  <2>11. Kids(g) = [Kids(h) EXCEPT ![p] = F!InsertAt(@, m, k)]
    BY <2>9 DEF s
  <2> QED
    BY <2>9, <2>10, <2>11 DEF s
<1> QED
  BY <1>8, <1>9

(* Where a member is in the list of its owner.                             *)
PlacedAt(h, up, p, k, s, m) ==
  /\ s[m] = k /\ (m = 1 <=> Pv(h)[k] = NULL)
  /\ \A j \in 1 .. Len(s) : /\ s[j] \in Item /\ s[j] \in Live(h) /\ up[s[j]] = p
                            /\ s[j] = k <=> j = m
                            /\ s[j] = Pv(h)[k] <=> j = m - 1

LEMMA MemberAt ==
  ASSUME NEW h, NEW R, NEW up, Whole(h, R, up), Alone(h, R), NEW p, NEW k, Member(h, up, p, k),
         NEW s, s = Kids(h)[p]
  PROVE  \E m \in 1 .. Len(s) : PlacedAt(h, up, p, k, s, m)
<1>1. NULL \notin Item /\ Live(h) \in SUBSET Item /\ p \in Item /\ k \in Live(h) /\ up[k] = p
  BY WholeParts DEF Member
<1>2. /\ s \in Seq(Item) /\ Len(s) \in Nat
      /\ \A j : (\E x \in 1 .. Len(s) : s[x] = j) <=> j \in Live(h) /\ up[j] = p
      /\ \A x, y \in 1 .. Len(s) : s[x] = s[y] => x = y
      /\ \A x \in 1 .. Len(s) : Pv(h)[s[x]] = IF x = 1 THEN NULL ELSE s[x - 1]
  BY <1>1, WholeKids
<1>3. PICK m \in 1 .. Len(s) : s[m] = k
  BY <1>1, <1>2
<1>4. \A j \in 1 .. Len(s) : s[j] \in Item /\ s[j] \in Live(h) /\ up[s[j]] = p
  BY <1>1, <1>2
<1>5. Pv(h)[k] = IF m = 1 THEN NULL ELSE s[m - 1]
  BY <1>2, <1>3
<1>6. m # 1 => m - 1 \in 1 .. Len(s)
  BY <1>2, <1>3
<1>7. m = 1 <=> Pv(h)[k] = NULL
  BY <1>1, <1>4, <1>5, <1>6
<1>8. ASSUME NEW j \in 1 .. Len(s) PROVE s[j] = Pv(h)[k] <=> j = m - 1
  <2>1. CASE m = 1
    <3>1. j # m - 1 /\ Pv(h)[k] = NULL
      BY <1>2, <1>5, <2>1
    <3> QED
      BY <1>1, <1>4, <3>1
  <2>2. CASE m # 1
    BY <1>2, <1>5, <1>6, <2>2
  <2> QED
    BY <2>1, <2>2
<1> QED
  BY <1>2, <1>3, <1>4, <1>7, <1>8 DEF PlacedAt

(* The member k leaves the list of p.                                      *)
LEMMA DetachKids ==
  ASSUME NEW h, NEW R, NEW up, Whole(h, R, up), Alone(h, R),
         NEW p, NEW k, Member(h, up, p, k),
         NEW g, g = cJSON_DetachItemViaPointer(h, p, k)
  PROVE  /\ Live(g) = Live(h) /\ Names(g) = Names(h)
         /\ \E m \in 1 .. Len(Kids(h)[p]) :
              /\ Kids(h)[p][m] = k
              /\ Kids(g) = [Kids(h) EXCEPT ![p] = F!RemoveAt(@, m)]
<1>1. h \in Heap /\ NULL \notin Item /\ Live(h) \in SUBSET Item /\ R \in SUBSET Live(h)
  BY WholeParts
<1>2. /\ k \in Item /\ p \in Item /\ k \in Live(h) /\ p \in Live(h) /\ k \notin R /\ up[k] = p
      /\ (h.cell[p].child = k <=> Pv(h)[k] = NULL)
      /\ Pv(h)[k] # NULL => Pv(h)[k] \in Live(h) \ R /\ up[Pv(h)[k]] = p
      /\ Nx(h)[k] # k /\ Pv(h)[k] # k
  BY MemberFacts
<1>3. /\ Rewired(h, g)
      /\ \A j \in Item : Nx(g)[j] = IF j = k THEN NULL ELSE IF j = Pv(h)[k] THEN Nx(h)[k] ELSE Nx(h)[j]
      /\ \A j \in Item : Cd(g)[j] = IF Pv(h)[k] = NULL /\ j = p THEN Nx(h)[k] ELSE Cd(h)[j]
  BY <1>1, <1>2, DetachIs
<1>4. PICK up2 : Whole(g, R \cup {k}, up2)
  BY DetachWhole
<1> DEFINE s == Kids(h)[p]
<1>5. p \in Owning(h)
  BY DEF Owning, Member
<1>6. Strung(Nx(h), Cd(h)[p], s)
  BY <1>5, WholeKids
<1>7. s = Kids(h)[p]
  OBVIOUS
<1> HIDE DEF s
<1>8. PICK m \in 1 .. Len(s) :
        /\ s[m] = k /\ (m = 1 <=> Pv(h)[k] = NULL)
        /\ \A j \in 1 .. Len(s) : /\ s[j] \in Item /\ s[j] \in Live(h) /\ up[s[j]] = p
                                  /\ s[j] = k <=> j = m
                                  /\ s[j] = Pv(h)[k] <=> j = m - 1
  <2>1. \E m \in 1 .. Len(s) : PlacedAt(h, up, p, k, s, m)
    BY <1>7, MemberAt
  <2> QED
    BY <2>1 DEF PlacedAt
<1> DEFINE t == F!RemoveAt(s, m)
<1>9. Strung(Nx(g), Cd(g)[p], t)
  <2>1. \A j \in 1 .. Len(s) : j # m => Nx(g)[s[j]] = IF j = m - 1 THEN Nx(h)[s[m]] ELSE Nx(h)[s[j]]
    BY <1>3, <1>8
  <2>2. Cd(g)[p] = IF m = 1 THEN Nx(h)[s[m]] ELSE Cd(h)[p]
    BY <1>2, <1>3, <1>8
  <2> QED
    BY <1>6, <2>1, <2>2, StrungRemove
<1> HIDE DEF t
<1>10. /\ \A q \in Item : q # p => Cd(g)[q] = Cd(h)[q]
       /\ \A j \in Live(h) : up[j] # NULL /\ up[j] # p => Nx(g)[j] = Nx(h)[j]
  BY <1>1, <1>2, <1>3
<1>11. Becomes(h, g, p, t)
  BY <1>3, <1>4, <1>5, <1>9, <1>10, OneList
<1>12. Kids(g) = [Kids(h) EXCEPT ![p] = F!RemoveAt(@, m)]
  BY <1>7, <1>11 DEF t, Becomes
<1> QED
  BY <1>7, <1>8, <1>11, <1>12 DEF Becomes

(* The item r takes the place of i.                                        *)
LEMMA SwapKids ==
  ASSUME NEW h, NEW R, NEW up, Whole(h, R, up), Alone(h, R),
         NEW p, NEW i, Member(h, up, p, i), NEW r, Addable(h, R, p, r),
         NEW g, g = Swapped(h, p, i, r)
  PROVE  /\ Live(g) = Live(h) /\ Names(g) = Names(h)
         /\ \E m \in 1 .. Len(Kids(h)[p]) :
              /\ Kids(h)[p][m] = i
              /\ Kids(g) = [Kids(h) EXCEPT ![p] = [@ EXCEPT ![m] = r]]
<1>1. /\ h \in Heap /\ NULL \notin Item /\ Live(h) \in SUBSET Item /\ R \in SUBSET Live(h)
      /\ \A j \in R : up[j] = NULL
  BY WholeParts
<1>2. /\ i \in Item /\ p \in Item /\ i \in Live(h) /\ p \in Live(h) /\ i \notin R /\ up[i] = p
      /\ (h.cell[p].child = i <=> Pv(h)[i] = NULL)
      /\ Pv(h)[i] # NULL => Pv(h)[i] \in Live(h) \ R /\ up[Pv(h)[i]] = p
      /\ Nx(h)[i] # i /\ Pv(h)[i] # i
  BY MemberFacts
<1>3. r \in R /\ r \in Item /\ r # i /\ up[r] = NULL
  BY <1>1, <1>2 DEF Addable
<1> DEFINE a == Nx(h)[i]
           b == Pv(h)[i]
<1>4. a = Nx(h)[i] /\ b = Pv(h)[i]
  OBVIOUS
<1> HIDE DEF a, b
<1>5. /\ Rewired(h, g)
      /\ \A j \in Item : Nx(g)[j] = IF j = i THEN NULL ELSE IF j = b THEN r
                                    ELSE IF j = r THEN a ELSE Nx(h)[j]
      /\ \A j \in Item : Cd(g)[j] = IF b = NULL /\ j = p THEN r ELSE Cd(h)[j]
  BY <1>1, <1>2, <1>3, <1>4, SwappedIs
<1>6. PICK up2 : Whole(g, (R \cup {i}) \ {r}, up2)
  BY SwapWhole
<1> DEFINE s == Kids(h)[p]
<1>7. p \in Owning(h)
  BY DEF Owning, Member
<1>8. Strung(Nx(h), Cd(h)[p], s)
  BY <1>7, WholeKids
<1>9. s = Kids(h)[p]
  OBVIOUS
<1> HIDE DEF s
<1>10. PICK m \in 1 .. Len(s) :
        /\ s[m] = i /\ (m = 1 <=> b = NULL)
        /\ \A j \in 1 .. Len(s) : /\ s[j] \in Item /\ s[j] \in Live(h) /\ up[s[j]] = p
                                  /\ s[j] = i <=> j = m
                                  /\ s[j] = b <=> j = m - 1
  <2>1. \E m \in 1 .. Len(s) : PlacedAt(h, up, p, i, s, m)
    BY <1>9, MemberAt
  <2> QED
    BY <1>4, <2>1 DEF PlacedAt
<1> DEFINE t == [s EXCEPT ![m] = r]
<1>11. Strung(Nx(g), Cd(g)[p], t)
  <2>1. \A j \in 1 .. Len(s) : j # m => Nx(g)[s[j]] = IF j = m - 1 THEN r ELSE Nx(h)[s[j]]
    <3>1. \A j \in 1 .. Len(s) : s[j] # r
      BY <1>1, <1>2, <1>3, <1>10
    <3> QED
      BY <1>5, <1>10, <3>1
  <2>2. Cd(g)[p] = IF m = 1 THEN r ELSE Cd(h)[p]
    BY <1>2, <1>5, <1>10
  <2>3. Nx(g)[r] = Nx(h)[s[m]]
    <3>1. r # b
      BY <1>1, <1>2, <1>3, <1>4
    <3> QED
      BY <1>3, <1>4, <1>5, <1>10, <3>1
  <2> QED
    BY <1>3, <1>8, <2>1, <2>2, <2>3, StrungReplace
<1> HIDE DEF t
<1>12. /\ \A q \in Item : q # p => Cd(g)[q] = Cd(h)[q]
       /\ \A j \in Live(h) : up[j] # NULL /\ up[j] # p => Nx(g)[j] = Nx(h)[j]
  BY <1>1, <1>2, <1>3, <1>4, <1>5
<1>13. Becomes(h, g, p, t)
  BY <1>5, <1>6, <1>7, <1>11, <1>12, OneList
<1>14. Kids(g) = [Kids(h) EXCEPT ![p] = [@ EXCEPT ![m] = r]]
  BY <1>9, <1>13 DEF t, Becomes
<1> QED
  BY <1>9, <1>10, <1>13, <1>14 DEF Becomes

-----------------------------------------------------------------------------
(* What the deletion of a tree leaves of the members of the others.        *)
Spared(h, g, D) ==
  /\ Live(g) = Live(h) \ D
  /\ \A j \in Item \ D : Kids(g)[j] = Kids(h)[j] /\ Names(g)[j] = Names(h)[j]
  /\ \A j \in D : Kids(g)[j] = << >>

(* cJSON_Delete of a root takes none of the members of another item away.  *)
LEMMA DeleteKids ==
  ASSUME NEW h, NEW R, NEW up, Whole(h, R, up), NEW k \in R,
         NEW D, D = Doomed(h, k),
         \A r \in Live(h) \ D : h.cell[r].isRef => h.cell[r].child \notin D,
         NEW g, g = cJSON_Delete(h, k)
  PROVE  Spared(h, g, D)
<1>1. /\ Whole(g, R \ {k}, up) /\ D \in SUBSET Live(h) /\ Live(g) = Live(h) \ D
      /\ \A j \in Item \ D : g.cell[j] = h.cell[j]
  BY DeleteWhole
<1>2. h \in Heap /\ HeapGraph(h, R, up) /\ Live(h) \in SUBSET Item /\ NULL \notin Item
  BY WholeParts
<1>3. Tree(Nx(h), Pv(h), Kd(h), up, k, D)
  BY <1>2, DoomedTree
<1>4. \A j \in D : up[j] # NULL => up[j] \in D
  <2>1. Graph(Live(h), Nx(h), Pv(h), Kd(h), R, up)
    BY <1>2 DEF HeapGraph
  <2> QED
    BY <1>1, <1>3, <2>1, OwnerInside
<1>5. \A j \in D : Kids(g)[j] = << >>
  <2>1. \A j \in D : j \in Item \ Owning(g)
    BY <1>1, <1>2 DEF Owning
  <2> QED
    BY <1>1, <2>1, WholeKids
<1>6. ASSUME NEW q \in Item \ D PROVE Kids(g)[q] = Kids(h)[q]
  <2>1. q \in Owning(g) <=> q \in Owning(h)
    BY <1>1 DEF Owning
  <2>2. Cd(g)[q] = Cd(h)[q]
    BY <1>1 DEF Cd
  <2>3. \A j \in Live(h) : up[j] = q => Nx(g)[j] = Nx(h)[j]
    BY <1>1, <1>2, <1>4 DEF Nx
  <2> QED
    BY <1>1, <2>1, <2>2, <2>3, KidsSame
<1>7. \A j \in Item \ D : Names(g)[j] = Names(h)[j]
  BY <1>1 DEF Names
<1> QED
  BY <1>1, <1>5, <1>6, <1>7 DEF Spared

(* A new item has no members and takes none.                               *)
LEMMA NewKids ==
  ASSUME NEW h, NEW R, NEW up, Whole(h, R, up), NEW n \in Item \ Live(h),
         NEW c, NewCell(h, up, c), NEW g, Added(h, g, n, c)
  PROVE  /\ Live(g) = Live(h) \cup {n} /\ Kids(g) = Kids(h)
         /\ \A j \in Item : j # n => Names(g)[j] = Names(h)[j]
<1>1. /\ Live(g) = Live(h) \cup {n}
      /\ \E up2 \in Pointers : Whole(g, R \cup {n}, up2) /\ Orphaned(up, up2, n)
  BY NewWhole
<1>2. PICK up2 \in Pointers : Whole(g, R \cup {n}, up2) /\ Orphaned(up, up2, n)
  BY <1>1
<1>3. \A j \in Item : g.cell[j] = IF j = n THEN c ELSE h.cell[j]
  BY DEF Added
<1>4. Kids(g)[n] = << >> /\ Kids(h)[n] = << >>
  <2>1. ~OwnsChild(g.cell[n])
    BY <1>3 DEF NewCell
  <2>2. n \in Item \ Owning(h)
    BY DEF Owning
  <2>3. Kids(h)[n] = << >>
    BY <2>2, WholeKids
  <2> QED
    BY <2>1, <2>3 DEF Kids
<1>5. ASSUME NEW q \in Item, q # n PROVE Kids(g)[q] = Kids(h)[q]
  <2>1. q \in Owning(g) <=> q \in Owning(h)
    BY <1>1, <1>3, <1>5 DEF Owning
  <2>2. Cd(g)[q] = Cd(h)[q]
    BY <1>3, <1>5 DEF Cd
  <2>3. \A j \in Live(h) : up[j] = q => Nx(g)[j] = Nx(h)[j]
    <3>1. Live(h) \in SUBSET Item
      BY WholeParts
    <3> QED
      BY <1>3, <3>1 DEF Nx
  <2> QED
    BY <1>2, <2>1, <2>2, <2>3, KidsSame
<1>6. Kids(g) = Kids(h)
  <2>1. \A q \in Item : Kids(g)[q] = Kids(h)[q]
    BY <1>4, <1>5
  <2> QED
    BY <2>1 DEF Kids
<1>7. \A j \in Item : j # n => Names(g)[j] = Names(h)[j]
  BY <1>3 DEF Names
<1> QED
  BY <1>1, <1>6, <1>7

(* A new key moves no item.                                                *)
LEMMA KeyKids ==
  ASSUME NEW h, NEW R, NEW up, Whole(h, R, up), NEW i \in Live(h),
         NEW n \in Name \cup {NoCopy},
         NEW constant \in BOOLEAN, NEW g, g = NewKey(h, i, n, constant)
  PROVE  /\ Live(g) = Live(h) /\ Kids(g) = Kids(h)
         /\ \A j \in Item : j # i => Names(g)[j] = Names(h)[j]
<1>1. /\ Whole(g, R, up) /\ Live(g) = Live(h) /\ Nx(g) = Nx(h)
      /\ \A j \in Item : /\ g.cell[j].isRef = h.cell[j].isRef
                         /\ g.cell[j].child = h.cell[j].child
  BY KeyWhole
<1>2. ASSUME NEW q \in Item PROVE Kids(g)[q] = Kids(h)[q]
  <2>1. q \in Owning(g) <=> q \in Owning(h)
    BY <1>1 DEF Owning
  <2>2. Cd(g)[q] = Cd(h)[q]
    BY <1>1 DEF Cd
  <2> QED
    BY <1>1, <2>1, <2>2, KidsSame
<1>3. Kids(g) = Kids(h)
  BY <1>2 DEF Kids
<1>4. \A j \in Item : j # i => Names(g)[j] = Names(h)[j]
  <2>1. h \in Heap
    BY WholeParts
  <2>2. \A j \in Item : j # i => g.cell[j] = h.cell[j]
    BY <2>1 DEF NewKey, Heap
  <2> QED
    BY <2>2 DEF Names
<1> QED
  BY <1>1, <1>3, <1>4

-----------------------------------------------------------------------------
WithMembers(K, S) == \A x \in S : F!ToSet(K[x]) \subseteq S

KidTree(K, i) == {j \in Item : \A S \in SUBSET Item : i \in S /\ WithMembers(K, S) => j \in S}

LEMMA TreeClosed ==
  ASSUME NEW h, NEW R, NEW up, Whole(h, R, up), NEW S \in SUBSET Item
  PROVE  WithMembers(Kids(h), S) <=> \A j \in Live(h) : up[j] \in S => j \in S
<1>1. \A p \in Item : F!ToSet(Kids(h)[p]) = {j \in Live(h) : up[j] = p}
  BY KidSet
<1> QED
  BY <1>1 DEF WithMembers

(* The tree of a root is what cJSON_Delete of it comes to.                 *)
LEMMA TreeIs ==
  ASSUME NEW h, NEW R, NEW up, Whole(h, R, up), NEW i \in R, Nx(h)[i] = NULL,
         NEW D, D = Doomed(h, i)
  PROVE  KidTree(Kids(h), i) = D
<1>1. h \in Heap /\ HeapGraph(h, R, up) /\ Live(h) \in SUBSET Item /\ NULL \notin Item
  BY WholeParts
<1>2. D \in SUBSET Live(h) /\ Tree(Nx(h), Pv(h), Kd(h), up, i, D)
  BY <1>1, DoomedTree
<1>3. Graph(Live(h), Nx(h), Pv(h), Kd(h), R, up)
  BY <1>1 DEF HeapGraph
<1>4. i \in D
  BY <1>2 DEF Tree
<1>5. \A j \in Live(h) : up[j] \in D => j \in D
  BY <1>2, <1>3, ListOutside
<1>6. KidTree(Kids(h), i) \subseteq D
  <2>1. D \in SUBSET Item /\ WithMembers(Kids(h), D)
    BY <1>1, <1>2, <1>5, TreeClosed
  <2> QED
    BY <1>4, <2>1 DEF KidTree
<1>7. \A j \in D : up[j] # NULL => up[j] \in D
  BY <1>2, <1>3, OwnerInside
<1>8. \A j \in D : up[j] = NULL => j = i
  BY OneRoot
<1>9. ASSUME NEW S \in SUBSET Item, i \in S, WithMembers(Kids(h), S) PROVE D \subseteq S
  <2> DEFINE X == D \ S
             Z == {x \in D : up[x] \in X}
  <2>1. \A j \in Live(h) : up[j] \in S => j \in S
    BY <1>9, TreeClosed
  <2>2. \A x \in X : x \in D /\ x \notin S /\ up[x] # NULL /\ up[x] \in D /\ up[x] \notin S
    BY <1>2, <1>7, <1>8, <1>9, <2>1
  <2>3. X \subseteq Z
    BY <2>2
  <2>4. \A z \in Z : z \in D /\ up[z] \in X /\ z # i
    <3>1. up[i] = NULL
      BY WholeParts
    <3> QED
      BY <1>1, <1>2, <3>1
  <2>5. \A z \in Z : Par(Pv(h), up, z) \in Z
    <3> SUFFICES ASSUME NEW z \in Z PROVE Par(Pv(h), up, z) \in Z
      OBVIOUS
    <3>1. z \in D /\ up[z] \in X /\ z # i
      BY <2>4
    <3>2. Par(Pv(h), up, z) \in D
      BY <1>2, <3>1 DEF Tree
    <3>3. CASE Pv(h)[z] = NULL
      <4>1. Par(Pv(h), up, z) = up[z]
        BY <3>3 DEF Par
      <4> QED
        BY <2>3, <3>1, <4>1
    <3>4. CASE Pv(h)[z] # NULL
      <4>1. Par(Pv(h), up, z) = Pv(h)[z]
        BY <3>4 DEF Par
      <4>2. up[Pv(h)[z]] = up[z]
        <5>1. z \in Live(h) /\ Pv(h)[z] \in D
          BY <1>2, <3>1, <3>2, <4>1
        <5>2. Pv(h)[z] \in Live(h)
          BY <1>2, <5>1
        <5>3. Nx(h)[Pv(h)[z]] = z
          BY <1>3, <3>4, <5>1 DEF Graph, Node
        <5>4. up[Nx(h)[Pv(h)[z]]] = up[Pv(h)[z]]
          BY <1>1, <1>3, <5>1, <5>2, <5>3 DEF Graph, Node
        <5> QED
          BY <5>3, <5>4
      <4> QED
        BY <3>1, <3>2, <4>1, <4>2
    <3> QED
      BY <3>3, <3>4
  <2>6. Z \in SUBSET Live(h)
    BY <1>2
  <2> HIDE DEF X, Z
  <2>7. Z = {}
    BY <1>3, <2>5, <2>6 DEF Graph, Rooted
  <2>8. X = {}
    BY <2>3, <2>7
  <2> QED
    BY <2>8 DEF X
<1>10. D \subseteq KidTree(Kids(h), i)
  BY <1>1, <1>2, <1>9 DEF KidTree
<1> QED
  BY <1>6, <1>10

(* The tree of a member is what cJSON_Delete comes to once the member is   *)
(* detached.                                                               *)
LEMMA TreeBelow ==
  ASSUME NEW h, NEW R, NEW up, Whole(h, R, up), Alone(h, R), NEW p, NEW i, Member(h, up, p, i),
         NEW D, D = Doomed(cJSON_DetachItemViaPointer(h, p, i), i)
  PROVE  KidTree(Kids(h), i) = D
<1>1. PICK e : e = cJSON_DetachItemViaPointer(h, p, i)
  OBVIOUS
<1>2. /\ Alone(e, R \cup {i}) /\ Rewired(h, e)
      /\ \E up2 \in Pointers : Whole(e, R \cup {i}, up2) /\ Orphaned(up, up2, i)
  BY <1>1, DetachWhole
<1>3. PICK up2 \in Pointers : Whole(e, R \cup {i}, up2) /\ Orphaned(up, up2, i)
  BY <1>2
<1>4. Live(e) = Live(h) /\ Live(h) \in SUBSET Item /\ NULL \notin Item
  BY <1>1, DetachShows, WholeParts
<1>5. KidTree(Kids(e), i) = D
  <2>1. i \in R \cup {i} /\ Nx(e)[i] = NULL
    BY <1>2 DEF Alone
  <2> QED
    BY <1>1, <1>3, <2>1, TreeIs
<1>6. ASSUME NEW S \in SUBSET Item, i \in S PROVE WithMembers(Kids(h), S) <=> WithMembers(Kids(e), S)
  <2>1. \A j \in Live(h) : j # i => up2[j] = up[j]
    BY <1>3, <1>4 DEF Orphaned
  <2>2. WithMembers(Kids(h), S) <=> \A j \in Live(h) : up[j] \in S => j \in S
    BY TreeClosed
  <2>3. WithMembers(Kids(e), S) <=> \A j \in Live(e) : up2[j] \in S => j \in S
    BY <1>3, TreeClosed
  <2> QED
    BY <1>4, <1>6, <2>1, <2>2, <2>3
<1>7. KidTree(Kids(e), i) = KidTree(Kids(h), i)
  BY <1>6 DEF KidTree
<1> QED
  BY <1>5, <1>7

-----------------------------------------------------------------------------
(* No reference shows anything of D.                                       *)
Unseen(h, D) == \A r \in Live(h) \ D : h.cell[r].isRef => h.cell[r].child \notin D

LEMMA UnseenSame ==
  ASSUME NEW h, NEW g, Live(g) = Live(h),
         \A j \in Item : /\ g.cell[j].isRef = h.cell[j].isRef
                         /\ h.cell[j].isRef => g.cell[j].child = h.cell[j].child,
         NEW D, Unseen(h, D)
  PROVE  Unseen(g, D)
<1> SUFFICES ASSUME NEW r \in Live(g) \ D, g.cell[r].isRef PROVE g.cell[r].child \notin D
  BY DEF Unseen
<1>1. r \in Item /\ r \in Live(h) \ D
  BY DEF Live
<1>2. h.cell[r].isRef
  BY <1>1
<1>3. g.cell[r].child = h.cell[r].child
  BY <1>1, <1>2
<1> QED
  BY <1>1, <1>2, <1>3 DEF Unseen

LEMMA SwapShows ==
  ASSUME NEW h, NEW R, NEW up, Whole(h, R, up), Alone(h, R), NEW p, NEW i, Member(h, up, p, i),
         NEW r, Addable(h, R, p, r), NEW g, g = Swapped(h, p, i, r)
  PROVE  /\ Rewired(h, g) /\ g \in Heap /\ Live(g) = Live(h)
         /\ \A j \in Item : /\ g.cell[j].isRef = h.cell[j].isRef
                            /\ h.cell[j].isRef => g.cell[j].child = h.cell[j].child
<1>1. /\ h \in Heap /\ R \in SUBSET Live(h) /\ Live(h) \in SUBSET Item
  BY WholeParts
<1>2. i \in Item /\ p \in Item /\ (h.cell[p].child = i <=> Pv(h)[i] = NULL) /\ ~h.cell[p].isRef
  BY MemberFacts DEF Member
<1>3. r \in Item
  BY <1>1 DEF Addable
<1> DEFINE a == Nx(h)[i]
           b == Pv(h)[i]
<1>4. a = Nx(h)[i] /\ b = Pv(h)[i]
  OBVIOUS
<1> HIDE DEF a, b
<1>5. /\ Rewired(h, g)
      /\ \A j \in Item : Cd(g)[j] = IF b = NULL /\ j = p THEN r ELSE Cd(h)[j]
  BY <1>1, <1>2, <1>3, <1>4, SwappedIs
<1>6. g \in Heap /\ Live(g) = Live(h) /\ \A j \in Item : g.cell[j].isRef = h.cell[j].isRef
  BY <1>1, <1>5, KdIs DEF Rewired, SameItem
<1>7. \A j \in Item : Cd(g)[j] = g.cell[j].child /\ Cd(h)[j] = h.cell[j].child
  BY DEF Cd
<1> QED
  BY <1>2, <1>5, <1>6, <1>7

(* All of D is gone, and of the others only p has other members, t.        *)
Lost(h, g, D, p, t) ==
  /\ Live(g) = Live(h) \ D
  /\ \A j \in Item \ D : /\ Kids(g)[j] = IF j = p THEN t ELSE Kids(h)[j]
                         /\ Names(g)[j] = Names(h)[j]
  /\ \A j \in D : Kids(g)[j] = << >>

LEMMA LostIs ==
  ASSUME NEW h, NEW e, NEW g, NEW p \in Item, NEW t, NEW D,
         Becomes(h, e, p, t), Spared(e, g, D)
  PROVE  Lost(h, g, D, p, t)
<1>1. \A j \in Item : Kids(e)[j] = IF j = p THEN t ELSE Kids(h)[j]
  BY DEF Becomes, Kids
<1> QED
  BY <1>1 DEF Becomes, Spared, Lost

(* cJSON_DeleteItemFromArray: the member is gone, and all below it.        *)
LEMMA RemoveKids ==
  ASSUME NEW h, NEW R, NEW up, Whole(h, R, up), Alone(h, R), NEW p, NEW i, Member(h, up, p, i),
         NEW D, D = Doomed(cJSON_DetachItemViaPointer(h, p, i), i), Unseen(h, D),
         NEW g, g = cJSON_Delete(cJSON_DetachItemViaPointer(h, p, i), i)
  PROVE  /\ i \in D
         /\ \E m \in 1 .. Len(Kids(h)[p]) :
              Kids(h)[p][m] = i /\ Lost(h, g, D, p, F!RemoveAt(Kids(h)[p], m))
<1>1. PICK e : e = cJSON_DetachItemViaPointer(h, p, i)
  OBVIOUS
<1>2. \E up2 \in Pointers : Whole(e, R \cup {i}, up2) /\ Orphaned(up, up2, i)
  BY <1>1, DetachWhole
<1>3. PICK up2 \in Pointers : Whole(e, R \cup {i}, up2)
  BY <1>2
<1>4. Unseen(e, D)
  <2>1. /\ Live(e) = Live(h)
        /\ \A j \in Item : /\ e.cell[j].isRef = h.cell[j].isRef
                           /\ h.cell[j].isRef => e.cell[j].child = h.cell[j].child
    BY <1>1, DetachShows
  <2> QED
    BY <2>1, UnseenSame
<1>5. Spared(e, g, D)
  <2>1. \A r \in Live(e) \ D : e.cell[r].isRef => e.cell[r].child \notin D
    BY <1>4 DEF Unseen
  <2>2. i \in R \cup {i} /\ g = cJSON_Delete(e, i) /\ D = Doomed(e, i)
    BY <1>1
  <2> QED
    BY <1>3, <2>1, <2>2, DeleteKids
<1>6. PICK m \in 1 .. Len(Kids(h)[p]) :
        /\ Kids(h)[p][m] = i
        /\ Live(e) = Live(h) /\ Names(e) = Names(h)
        /\ Kids(e) = [Kids(h) EXCEPT ![p] = F!RemoveAt(@, m)]
  BY <1>1, DetachKids
<1>7. Lost(h, g, D, p, F!RemoveAt(Kids(h)[p], m))
  <2>1. p \in Item
    BY MemberFacts
  <2>2. Becomes(h, e, p, F!RemoveAt(Kids(h)[p], m))
    BY <1>6 DEF Becomes
  <2> QED
    BY <1>5, <2>1, <2>2, LostIs
<1>8. i \in D
  <2>1. e \in Heap /\ HeapGraph(e, R \cup {i}, up2) /\ i \in R \cup {i}
    BY <1>3, WholeParts
  <2> QED
    BY <1>1, <2>1, DoomedTree DEF Tree
<1> QED
  BY <1>6, <1>7, <1>8

(* cJSON_ReplaceItemViaPointer: the replacement stands where the old item  *)
(* stood.                                                                  *)
LEMMA ReplaceKids ==
  ASSUME NEW h, NEW R, NEW up, Whole(h, R, up), Alone(h, R), NEW p, NEW i, Member(h, up, p, i),
         NEW r, Addable(h, R, p, r),
         NEW D, D = Doomed(cJSON_DetachItemViaPointer(h, p, i), i), Unseen(h, D),
         NEW g, g = cJSON_ReplaceItemViaPointer(h, p, i, r)
  PROVE  /\ i \in D
         /\ \E m \in 1 .. Len(Kids(h)[p]) :
              Kids(h)[p][m] = i /\ Lost(h, g, D, p, [Kids(h)[p] EXCEPT ![m] = r])
<1> DEFINE S == (R \cup {i}) \ {r}
<1>1. PICK e : e = Swapped(h, p, i, r)
  OBVIOUS
<1>2. i \in Item /\ p \in Item /\ i \notin R /\ r \in R /\ i # r /\ i # NULL /\ i \in S
  BY WholeParts, MemberFacts DEF Addable
<1>3. g = cJSON_Delete(e, i)
  BY <1>1, <1>2 DEF cJSON_ReplaceItemViaPointer, Swapped
<1>4. PICK up2 : Whole(e, S, up2)
  BY <1>1, SwapWhole
<1> HIDE DEF S
<1>5. Unseen(e, D)
  <2>1. /\ Live(e) = Live(h)
        /\ \A j \in Item : /\ e.cell[j].isRef = h.cell[j].isRef
                           /\ h.cell[j].isRef => e.cell[j].child = h.cell[j].child
    BY <1>1, SwapShows
  <2> QED
    BY <2>1, UnseenSame
<1>6. D = Doomed(e, i)
  BY <1>1, SwapDoomed
<1>7. Spared(e, g, D)
  <2>1. \A x \in Live(e) \ D : e.cell[x].isRef => e.cell[x].child \notin D
    BY <1>5 DEF Unseen
  <2> QED
    BY <1>2, <1>3, <1>4, <1>6, <2>1, DeleteKids
<1>8. PICK m \in 1 .. Len(Kids(h)[p]) :
        /\ Kids(h)[p][m] = i
        /\ Live(e) = Live(h) /\ Names(e) = Names(h)
        /\ Kids(e) = [Kids(h) EXCEPT ![p] = [@ EXCEPT ![m] = r]]
  BY <1>1, SwapKids
<1>9. Lost(h, g, D, p, [Kids(h)[p] EXCEPT ![m] = r])
  <2>1. Becomes(h, e, p, [Kids(h)[p] EXCEPT ![m] = r])
    BY <1>8 DEF Becomes
  <2> QED
    BY <1>2, <1>7, <2>1, LostIs
<1>10. i \in D
  <2>1. e \in Heap /\ HeapGraph(e, S, up2)
    BY <1>4, WholeParts
  <2> QED
    BY <1>2, <1>6, <2>1, DoomedTree DEF Tree
<1> QED
  BY <1>8, <1>9, <1>10

-----------------------------------------------------------------------------
LEMMA ToSetHas ==
  ASSUME NEW s \in Seq(Item), NEW k \in 1 .. Len(s)
  PROVE  s[k] \in F!ToSet(s)
BY DEF F!ToSet

LEMMA InsertHas ==
  ASSUME NEW s \in Seq(Item), NEW k \in 1 .. Len(s) + 1, NEW e \in Item
  PROVE  e \in F!ToSet(F!InsertAt(s, k, e))
<1> DEFINE t == F!InsertAt(s, k, e)
<1>1. /\ t \in Seq(Item) /\ Len(t) = Len(s) + 1
      /\ \A j \in 1 .. Len(t) : t[j] = IF j < k THEN s[j] ELSE IF j = k THEN e ELSE s[j - 1]
  BY InsertedAt
<1>2. Len(s) \in Nat
  BY LenProperties
<1> HIDE DEF t
<1>3. k \in 1 .. Len(t) /\ t[k] = e
  BY <1>1, <1>2
<1>4. t[k] \in F!ToSet(t)
  BY <1>1, <1>3, ToSetHas
<1> QED
  BY <1>3, <1>4 DEF t

(* k comes into the list of p of the heap g, a root of h or a new item.    *)
PutIn(h, up, g, p, k) ==
  /\ k \in Item /\ (k \in Live(h) => up[k] = NULL)
  /\ Live(g) = Live(h) \cup {k}
  /\ \E m \in 1 .. Len(Kids(h)[p]) + 1 : Kids(g) = [Kids(h) EXCEPT ![p] = F!InsertAt(@, m, k)]
  /\ \A j \in Live(h) : j # k => Names(g)[j] = Names(h)[j]

PutAmong(L, K, N, L2, K2, N2) ==
  \E p \in L : \E i \in F!ToSet(K2[p]) \ F!ToSet(K[p]) :
    /\ L2 = L \cup {i}
    /\ i \in L => i \in F!Roots(L, K)
    /\ \E k \in 1 .. Len(K[p]) + 1 : K2 = [K EXCEPT ![p] = F!InsertAt(@, k, i)]
    /\ \A j \in L \ {i} : N2[j] = N[j]

LEMMA PutIs ==
  F!Put <=> PutAmong(Live(heap), Kids(heap), Names(heap), Live(heap'), Kids(heap'), Names(heap'))
BY DEF F!Put, PutAmong, Kids, Names

LEMMA PutStep ==
  ASSUME NEW R, NEW up, Whole(heap, R, up), NEW p \in Live(heap), NEW i,
         PutIn(heap, up, heap', p, i)
  PROVE  F!Put
<1>1. p \in Item /\ NULL \notin Item
  BY WholeParts
<1>2. i \in Item /\ Live(heap') = Live(heap) \cup {i}
      /\ \A j \in Live(heap) \ {i} : Names(heap')[j] = Names(heap)[j]
  BY DEF PutIn
<1>3. i \in Live(heap) => i \in F!Roots(Live(heap), Kids(heap))
  <2>1. F!Roots(Live(heap), Kids(heap)) = {j \in Live(heap) : up[j] = NULL}
    BY KidSet
  <2> QED
    BY <2>1 DEF PutIn
<1>4. i \notin F!ToSet(Kids(heap)[p])
  <2>1. F!ToSet(Kids(heap)[p]) = {j \in Live(heap) : up[j] = p}
    BY <1>1, KidSet
  <2> QED
    BY <1>1, <2>1 DEF PutIn
<1>5. PICK m \in 1 .. Len(Kids(heap)[p]) + 1 :
        Kids(heap') = [Kids(heap) EXCEPT ![p] = F!InsertAt(@, m, i)]
  BY DEF PutIn
<1>6. i \in F!ToSet(Kids(heap')[p])
  <2>1. Kids(heap)[p] \in Seq(Item) /\ Kids(heap')[p] = F!InsertAt(Kids(heap)[p], m, i)
    BY <1>1, <1>5, WholeKids DEF Kids
  <2> QED
    BY <1>2, <2>1, InsertHas
<1>7. i \in F!ToSet(Kids(heap')[p]) \ F!ToSet(Kids(heap)[p])
  BY <1>4, <1>6
<1> QED
  BY <1>2, <1>3, <1>5, <1>7, PutIs DEF PutAmong

LEMMA TakeStep ==
  ASSUME NEW p \in Live(heap), NEW m \in 1 .. Len(Kids(heap)[p]),
         Live(heap') = Live(heap), Names(heap') = Names(heap),
         Kids(heap') = [Kids(heap) EXCEPT ![p] = F!RemoveAt(@, m)]
  PROVE  F!Take
BY DEF F!Take, Kids, Names

LEMMA RenameStep ==
  ASSUME NEW R, NEW up, Whole(heap, R, up), NEW r \in R,
         Live(heap') = Live(heap), Kids(heap') = Kids(heap),
         \A j \in Item : j # r => Names(heap')[j] = Names(heap)[j]
  PROVE  F!Rename
<1>1. r \in F!Roots(Live(heap), Kids(heap))
  <2>1. F!Roots(Live(heap), Kids(heap)) = {j \in Live(heap) : up[j] = NULL}
    BY KidSet
  <2> QED
    BY <2>1, WholeParts
<1>2. \A j \in Live(heap) \ {r} : Names(heap')[j] = Names(heap)[j]
  BY WholeParts
<1> QED
  BY <1>1, <1>2 DEF F!Rename, Kids, Names

LEMMA TreeOf == \A i : F!Tree(i) = KidTree(Kids(heap), i)
BY DEF F!Tree, KidTree, WithMembers, Kids

LEMMA DropStep ==
  ASSUME NEW R, NEW up, Whole(heap, R, up), NEW i \in R,
         NEW D, KidTree(Kids(heap), i) = D, i \in D, D \in SUBSET Live(heap), Spared(heap, heap', D)
  PROVE  F!Drop
<1> DEFINE L == Live(heap) \ D
<1>1. i \in F!Roots(Live(heap), Kids(heap)) \ Live(heap')
  <2>1. F!Roots(Live(heap), Kids(heap)) = {j \in Live(heap) : up[j] = NULL}
    BY KidSet
  <2> QED
    BY <2>1, WholeParts DEF Spared
<1>2. Live(heap') = L /\ \A j \in L : Names(heap')[j] = Names(heap)[j]
  BY WholeParts DEF Spared
<1>3. Kids(heap') = [j \in Item |-> IF j \in L THEN Kids(heap)[j] ELSE << >>]
  <2>1. ASSUME NEW j \in Item PROVE Kids(heap')[j] = IF j \in L THEN Kids(heap)[j] ELSE << >>
    <3>1. CASE j \in D
      BY <3>1 DEF Spared
    <3>2. CASE j \notin D /\ j \in Live(heap)
      BY <3>2 DEF Spared
    <3>3. CASE j \notin D /\ j \notin Live(heap)
      <4>1. j \in Item \ Owning(heap)
        BY <3>3 DEF Owning
      <4>2. Kids(heap)[j] = << >>
        BY <4>1, WholeKids
      <4> QED
        BY <3>3, <4>2 DEF Spared
    <3> QED
      BY <3>1, <3>2, <3>3
  <2> HIDE DEF L
  <2>2. Kids(heap') = [j \in Item |-> Kids(heap')[j]]
    BY DEF Kids
  <2> QED
    BY <2>1, <2>2
<1>4. L = Live(heap) \ F!Tree(i)
  BY TreeOf
<1> HIDE DEF L
<1>5. F!Trim(Live(heap) \ F!Tree(i), Kids(heap))
  BY <1>2, <1>3, <1>4 DEF F!Trim, Kids, Names
<1> QED
  BY <1>1, <1>5 DEF F!Drop, Kids

-----------------------------------------------------------------------------
(* The members that are left when all of D is gone and p has t.            *)
LEMMA LostKids ==
  ASSUME NEW h, NEW R, NEW up, Whole(h, R, up), NEW g, NEW p \in Live(h), NEW t, NEW D,
         Lost(h, g, D, p, t), NEW L, L = Live(h) \ D
  PROVE  Kids(g) = [j \in Item |-> IF j \notin L THEN << >> ELSE IF j = p THEN t ELSE Kids(h)[j]]
<1>1. ASSUME NEW j \in Item
      PROVE  Kids(g)[j] = IF j \notin L THEN << >> ELSE IF j = p THEN t ELSE Kids(h)[j]
  <2>1. CASE j \in L
    BY <2>1 DEF Lost
  <2>2. CASE j \in D
    BY <2>2 DEF Lost
  <2>3. CASE j \notin D /\ j \notin Live(h)
    <3>1. j \in Item \ Owning(h)
      BY <2>3 DEF Owning
    <3>2. Kids(h)[j] = << >>
      BY <3>1, WholeKids
    <3> QED
      BY <2>3, <3>2 DEF Lost
  <2> QED
    BY <2>1, <2>2, <2>3
<1>2. Kids(g) = [j \in Item |-> Kids(g)[j]]
  BY DEF Kids
<1> QED
  BY <1>1, <1>2

(* The steps of Forest over the lists of two heaps.                        *)
RemoveAmong(L, K, N, L2, K2, N2) ==
  \E p \in L : \E k \in 1 .. Len(K[p]) :
    LET M == L \ KidTree(K, K[p][k])
    IN  /\ K[p][k] \notin L2
        /\ L2 = M
        /\ K2 = [j \in Item |-> IF j \in M THEN [K EXCEPT ![p] = F!RemoveAt(@, k)][j] ELSE << >>]
        /\ \A j \in M : N2[j] = N[j]

LEMMA RemoveIs ==
  F!RemoveTree
    <=> RemoveAmong(Live(heap), Kids(heap), Names(heap), Live(heap'), Kids(heap'), Names(heap'))
BY DEF F!RemoveTree, F!Trim, F!Tree, RemoveAmong, KidTree, WithMembers, Kids, Names

ExchangeAmong(L, K, N, L2, K2, N2) ==
  \E p \in L : \E k \in 1 .. Len(K[p]) :
    /\ K[p][k] \notin L2
    /\ \E r \in F!Roots(L, K) :
         LET M == L \ KidTree(K, K[p][k])
         IN  /\ L2 = M
             /\ K2 = [j \in Item |-> IF j \notin M THEN << >>
                                     ELSE IF j = p THEN [K[p] EXCEPT ![k] = r] ELSE K[j]]
             /\ \A j \in M \ {r} : N2[j] = N[j]

LEMMA ExchangeIs ==
  F!Exchange
    <=> ExchangeAmong(Live(heap), Kids(heap), Names(heap), Live(heap'), Kids(heap'), Names(heap'))
BY DEF F!Exchange, F!Tree, ExchangeAmong, KidTree, WithMembers, Kids, Names

LEMMA RemoveStep ==
  ASSUME NEW R, NEW up, Whole(heap, R, up), NEW p \in Live(heap), NEW i,
         NEW D, KidTree(Kids(heap), i) = D, i \in D,
         NEW m \in 1 .. Len(Kids(heap)[p]), Kids(heap)[p][m] = i,
         Lost(heap, heap', D, p, F!RemoveAt(Kids(heap)[p], m))
  PROVE  F!RemoveTree
<1>1. PICK L : L = Live(heap) \ D
  OBVIOUS
<1>2. Live(heap') = L /\ i \notin L /\ \A j \in L : Names(heap')[j] = Names(heap)[j]
  BY <1>1, WholeParts DEF Lost
<1>3. Kids(heap') = [j \in Item |-> IF j \notin L THEN << >>
                                    ELSE IF j = p THEN F!RemoveAt(Kids(heap)[p], m)
                                    ELSE Kids(heap)[j]]
  BY <1>1, LostKids
<1>4. \A j \in Item : [Kids(heap) EXCEPT ![p] = F!RemoveAt(@, m)][j]
                       = IF j = p THEN F!RemoveAt(Kids(heap)[p], m) ELSE Kids(heap)[j]
  BY DEF Kids
<1>5. Kids(heap') = [j \in Item |-> IF j \in L THEN [Kids(heap) EXCEPT ![p] = F!RemoveAt(@, m)][j]
                                    ELSE << >>]
  BY <1>3, <1>4
<1>6. L = Live(heap) \ KidTree(Kids(heap), Kids(heap)[p][m])
  BY <1>1
<1>7. RemoveAmong(Live(heap), Kids(heap), Names(heap), Live(heap'), Kids(heap'), Names(heap'))
  BY <1>2, <1>5, <1>6 DEF RemoveAmong
<1> QED
  BY <1>7, RemoveIs

LEMMA ExchangeStep ==
  ASSUME NEW R, NEW up, Whole(heap, R, up), NEW p \in Live(heap), NEW i, NEW r \in R,
         NEW D, KidTree(Kids(heap), i) = D, i \in D,
         NEW m \in 1 .. Len(Kids(heap)[p]), Kids(heap)[p][m] = i,
         Live(heap') = Live(heap) \ D,
         Kids(heap') = [j \in Item |-> IF j \notin Live(heap) \ D THEN << >>
                                       ELSE IF j = p THEN [Kids(heap)[p] EXCEPT ![m] = r]
                                       ELSE Kids(heap)[j]],
         \A j \in Live(heap) \ D : j # r => Names(heap')[j] = Names(heap)[j]
  PROVE  F!Exchange
<1>1. PICK L : L = Live(heap) \ KidTree(Kids(heap), Kids(heap)[p][m])
  OBVIOUS
<1>2. Live(heap') = L /\ i \notin L /\ \A j \in L \ {r} : Names(heap')[j] = Names(heap)[j]
  BY <1>1
<1>3. Kids(heap') = [j \in Item |-> IF j \notin L THEN << >>
                                    ELSE IF j = p THEN [Kids(heap)[p] EXCEPT ![m] = r]
                                    ELSE Kids(heap)[j]]
  BY <1>1
<1>4. r \in F!Roots(Live(heap), Kids(heap))
  <2>1. F!Roots(Live(heap), Kids(heap)) = {j \in Live(heap) : up[j] = NULL}
    BY KidSet
  <2> QED
    BY <2>1, WholeParts
<1>5. ExchangeAmong(Live(heap), Kids(heap), Names(heap), Live(heap'), Kids(heap'), Names(heap'))
  BY <1>1, <1>2, <1>3, <1>4 DEF ExchangeAmong
<1> QED
  BY <1>5, ExchangeIs

-----------------------------------------------------------------------------
LEMMA SameStep == heap' = heap => UNCHANGED F!vars
BY DEF F!vars

LEMMA NewStep ==
  ASSUME NEW R, NEW up, Whole(heap, R, up), NEW n \in Item \ Live(heap),
         NEW c, NewCell(heap, up, c), Added(heap, heap', n, c)
  PROVE  F!Grow
<1>1. /\ Live(heap') = Live(heap) \cup {n}
      /\ \E up2 \in Pointers : Whole(heap', R \cup {n}, up2) /\ Orphaned(up, up2, n)
  BY NewWhole
<1>2. PICK up2 \in Pointers : Whole(heap', R \cup {n}, up2) /\ Orphaned(up, up2, n)
  BY <1>1
<1>3. NULL \notin Item /\ Live(heap) \in SUBSET Item
  BY WholeParts
<1>4. Grew(heap, up, heap', up2)
  BY <1>1, <1>2, <1>3 DEF Added, Orphaned, Grew
<1> QED
  BY <1>2, <1>4, GrewStep

LEMMA GrownStep ==
  ASSUME NEW R, NEW up, Whole(heap, R, up), NEW R2, NEW up2, Whole(heap', R2, up2),
         Grown(heap, up, heap', up2)
  PROVE  F!Grow
<1>1. Grew(heap, up, heap', up2)
  BY DEF Grown, Grew
<1> QED
  BY <1>1, GrewStep

(* cJSON_CreateNull and the like: a new item, of its own.                  *)
LEMMA CreateStep ==
  ASSUME Inv, NEW t \in Created, Create(t)
  PROVE  F!Grow
<1>1. PICK up : Whole(heap, Roots, up)
  BY DEF Inv, Sound
<1>2. PICK n : n = Fresh(heap) /\ n # NULL /\ heap' = CreateItem(heap, n, t)
  BY DEF Create
<1>3. heap \in Heap /\ t \in Type
  BY <1>1, WholeParts, TreeAssumption
<1>4. n \in Item \ Live(heap)
  BY <1>2, <1>3, FreshIs
<1>5. NewCell(heap, up, NewOf(n, t)) /\ Added(heap, heap', n, NewOf(n, t))
  BY <1>2, <1>3, <1>4, CreateAdds
<1> QED
  BY <1>1, <1>4, <1>5, NewStep

LEMMA CreateStringReferenceStep ==
  ASSUME Inv, CreateStringReference
  PROVE  F!Grow
<1>1. PICK up : Whole(heap, Roots, up)
  BY DEF Inv, Sound
<1> DEFINE n == Fresh(heap)
<1>2. /\ n # NULL
      /\ heap' = [cJSON_New_Item(heap, n, "string") EXCEPT
                    !.cell[n].isRef = TRUE, !.cell[n].value = Static]
  BY DEF CreateStringReference
<1>3. heap \in Heap
  BY <1>1, WholeParts
<1>4. n \in Item \ Live(heap)
  BY <1>2, <1>3, FreshIs
<1> HIDE DEF n
<1>5. PICK c : NewCell(heap, up, c) /\ Added(heap, heap', n, c)
  BY <1>2, <1>3, <1>4, StringReferenceAdds
<1> QED
  BY <1>1, <1>4, <1>5, NewStep

LEMMA CreateListReferenceStep ==
  ASSUME Inv, NEW t \in {"array", "object"}, NEW p \in Owner(t),
         CreateListReference(t, heap.cell[p].child)
  PROVE  F!Grow
<1>1. PICK up : Whole(heap, Roots, up)
  BY DEF Inv, Sound
<1> DEFINE n == Fresh(heap)
<1>2. /\ n # NULL
      /\ heap' = [cJSON_New_Item(heap, n, t) EXCEPT
                    !.cell[n].isRef = TRUE, !.cell[n].child = heap.cell[p].child]
  BY DEF CreateListReference
<1>3. heap \in Heap /\ t \in Type /\ p \in Live(heap) /\ ~heap.cell[p].isRef /\ heap.cell[p].type = t
  BY <1>1, WholeParts DEF Owner, References, Type
<1>4. n \in Item \ Live(heap)
  BY <1>2, <1>3, FreshIs
<1> HIDE DEF n
<1>5. PICK c : NewCell(heap, up, c) /\ Added(heap, heap', n, c)
  BY <1>1, <1>2, <1>3, <1>4, ListReferenceAdds
<1> QED
  BY <1>1, <1>4, <1>5, NewStep

(* cJSON_CreateIntArray and the like: the new array, or nothing.           *)
LEMMA CreateArrayStep ==
  ASSUME Inv, NEW t \in Created \cap {"number", "string"}, NEW n \in 1 .. MaxItems,
         CreateArray(t, n)
  PROVE  F!Grow
<1>1. PICK up : Whole(heap, Roots, up)
  BY DEF Inv, Sound
<1>2. PICK m, a : m = CreateArrayOf(heap, t, n) /\ a = Fresh(heap) /\ a # NULL /\ heap' = m.heap
  BY DEF CreateArray
<1>3. n \in Nat /\ t \in Type
  BY ItemsFinite DEF Type
<1>4. Filled(heap, Roots, up, a, n, m)
  BY <1>1, <1>2, <1>3, ArrayFilled
<1>5. \E R, up2 : Whole(heap', R, up2) /\ Grown(heap, up, heap', up2)
  BY <1>2, <1>4 DEF Filled, Filling
<1> QED
  BY <1>1, <1>5, GrownStep

(* cJSON_Duplicate: the copy and all below it, or nothing.                 *)
LEMMA DuplicateStep ==
  ASSUME Inv, NEW i \in Live(heap), NEW recurse \in BOOLEAN, Duplicate(i, recurse)
  PROVE  F!Grow \/ UNCHANGED F!vars
<1>1. PICK up : Whole(heap, Roots, up)
  BY DEF Inv, Sound
<1>2. heap' = cJSON_Duplicate(heap, i, recurse).heap
  BY DEF Duplicate
<1>3. heap \in Heap /\ i \in Item
  BY <1>1, WholeParts
<1>4. PICK n : n = Fresh(heap)
  OBVIOUS
<1>5. CASE ~recurse /\ n = NULL
  <2>1. heap' = heap
    BY <1>2, <1>4, <1>5 DEF cJSON_Duplicate
  <2> QED
    BY <2>1, SameStep
<1>6. CASE ~recurse /\ n # NULL
  <2>1. heap' = CopyItem(heap, i, n)
    BY <1>2, <1>4, <1>6 DEF cJSON_Duplicate
  <2>2. n \in Item \ Live(heap)
    BY <1>3, <1>4, <1>6, FreshIs
  <2>3. NewCell(heap, up, CopyOf(heap.cell[i], n)) /\ Added(heap, heap', n, CopyOf(heap.cell[i], n))
    BY <1>3, <2>1, <2>2, CopyAdds
  <2> QED
    BY <1>1, <2>2, <2>3, NewStep
<1>7. CASE recurse
  <2>1. PICK s \in BOOLEAN : s = FALSE
    OBVIOUS
  <2>2. PICK r : r = copy[CallOf(heap, i, s)]
    OBVIOUS
  <2>3. heap' = r.heap
    BY <1>2, <1>7, <2>1, <2>2 DEF cJSON_Duplicate, CallOf
  <2>4. Copied(heap, Roots, up, i, r)
    <3>1. CopiesBelow(Free(heap))
      BY FreeNat, CopiesAlways
    <3> QED
      BY <1>1, <2>2, <3>1, CopyStep
  <2>5. \E R, up2 : Whole(heap', R, up2) /\ Grown(heap, up, heap', up2)
    BY <2>3, <2>4 DEF Copied
  <2> QED
    BY <1>1, <2>5, GrownStep
<1> QED
  BY <1>5, <1>6, <1>7

-----------------------------------------------------------------------------
(* What a key and a link make of an item of R, and of a new item.          *)
LEMMA KeyedKids ==
  ASSUME NEW h, NEW R, NEW up, Whole(h, R, up), Alone(h, R), NEW i \in R,
         NEW p \in Live(h), ~h.cell[p].isRef, p \notin Doomed(h, i),
         NEW n \in Name, NEW constant \in BOOLEAN,
         NEW g, g = add_item_to_object(h, p, n, i, constant)
  PROVE  PutIn(h, up, g, p, i)
<1>1. /\ h \in Heap /\ R \in SUBSET Live(h) /\ i \in Live(h) /\ i \in Item /\ up[i] = NULL
      /\ Live(h) \in SUBSET Item
  BY WholeParts
<1>2. PICK e : e = NewKey(h, i, n, constant) /\ g = add_item_to_array(e, p, i)
  BY DEF add_item_to_object
<1>3. /\ Whole(e, R, up) /\ e.cell[i].string # NoName
      /\ Live(e) = Live(h) /\ Nx(e) = Nx(h) /\ Kd(e) = Kd(h)
      /\ \A j \in Item : e.cell[j].isRef = h.cell[j].isRef
  BY <1>1, <1>2, KeyWhole
<1>4. Doomed(e, i) = Doomed(h, i)
  <2>1. e \in Heap
    BY <1>3 DEF Whole
  <2> QED
    BY <1>1, <1>3, <2>1, DoomedSame
<1>5. Alone(e, R) /\ p \in Live(e) /\ ~e.cell[p].isRef /\ p \notin Doomed(e, i)
  BY <1>1, <1>3, <1>4 DEF Alone
<1>6. /\ Live(g) = Live(e) /\ Names(g) = Names(e)
      /\ Kids(g) = [Kids(e) EXCEPT ![p] = F!InsertAt(@, Len(@) + 1, i)]
  BY <1>2, <1>3, <1>5, AddKids
<1>7. Kids(e) = Kids(h) /\ \A j \in Item : j # i => Names(e)[j] = Names(h)[j]
  BY <1>1, <1>2, KeyKids
<1>8. Len(Kids(h)[p]) + 1 \in 1 .. Len(Kids(h)[p]) + 1
  <2>1. Len(Kids(h)[p]) \in Nat
    BY <1>1, WholeKids
  <2> QED
    BY <2>1
<1>9. \E m \in 1 .. Len(Kids(h)[p]) + 1 : Kids(g) = [Kids(h) EXCEPT ![p] = F!InsertAt(@, m, i)]
  <2>1. Kids(g) = [Kids(h) EXCEPT ![p] = F!InsertAt(@, Len(Kids(h)[p]) + 1, i)]
    BY <1>6, <1>7
  <2> QED
    BY <1>8, <2>1
<1>10. Live(g) = Live(h) \cup {i} /\ \A j \in Live(h) : j # i => Names(g)[j] = Names(h)[j]
  BY <1>1, <1>3, <1>6, <1>7
<1> QED
  BY <1>1, <1>9, <1>10 DEF PutIn

LEMMA NewPut ==
  ASSUME NEW h, NEW R, NEW up, Whole(h, R, up), NEW n \in Item \ Live(h),
         NEW c, NewCell(h, up, c), NEW e, Added(h, e, n, c),
         NEW up2, NEW g, NEW p, PutIn(e, up2, g, p, n)
  PROVE  PutIn(h, up, g, p, n)
<1>1. /\ Live(e) = Live(h) \cup {n} /\ Kids(e) = Kids(h)
      /\ \A j \in Item : j # n => Names(e)[j] = Names(h)[j]
  BY NewKids
<1>2. Live(h) \in SUBSET Item
  BY WholeParts
<1>3. Live(g) = Live(h) \cup {n} /\ \A j \in Live(h) : j # n => Names(g)[j] = Names(h)[j]
  BY <1>1, <1>2 DEF PutIn
<1> QED
  BY <1>1, <1>3 DEF PutIn

(* cJSON_AddItemToArray: the item is the last.                             *)
LEMMA AddItemToArrayStep ==
  ASSUME Inv, NEW p \in Container("array"), NEW i \in held, AddItemToArray(p, i)
  PROVE  F!Put
<1>1. PICK up : Whole(heap, Roots, up)
  BY DEF Inv, Sound
<1>2. Fits(p, i) /\ heap' = add_item_to_array(heap, p, i) /\ Alone(heap, Roots) /\ i \in Roots
  BY DEF AddItemToArray, Inv, Sound, Roots
<1>3. /\ heap \in Heap /\ i \in Item /\ Nx(heap)[i] = NULL /\ i \in Live(heap) /\ up[i] = NULL
      /\ p \in Live(heap) /\ ~heap.cell[p].isRef /\ heap.cell[p].type # "object"
  BY <1>1, <1>2, WholeParts, ContainerIs DEF Alone
<1>4. p \notin Doomed(heap, i)
  BY <1>2, <1>3, FitsOut
<1>5. /\ Live(heap') = Live(heap) /\ Names(heap') = Names(heap)
      /\ Kids(heap') = [Kids(heap) EXCEPT ![p] = F!InsertAt(@, Len(@) + 1, i)]
  BY <1>1, <1>2, <1>3, <1>4, AddKids
<1>6. Len(Kids(heap)[p]) + 1 \in 1 .. Len(Kids(heap)[p]) + 1
  <2>1. p \in Item
    BY <1>3 DEF Live
  <2>2. Len(Kids(heap)[p]) \in Nat
    BY <1>1, <2>1, WholeKids
  <2> QED
    BY <2>2
<1>7. Kids(heap') = [Kids(heap) EXCEPT ![p] = F!InsertAt(@, Len(Kids(heap)[p]) + 1, i)]
  BY <1>5
<1>8. PutIn(heap, up, heap', p, i)
  <2>1. \E m \in 1 .. Len(Kids(heap)[p]) + 1 : Kids(heap') = [Kids(heap) EXCEPT ![p] = F!InsertAt(@, m, i)]
    BY <1>6, <1>7
  <2>2. Live(heap') = Live(heap) \cup {i}
    BY <1>3, <1>5
  <2> QED
    BY <1>3, <1>5, <2>1, <2>2 DEF PutIn
<1> QED
  BY <1>1, <1>3, <1>8, PutStep

(* cJSON_InsertItemInArray: the item goes in front of one, or is the last. *)
LEMMA InsertItemInArrayStep ==
  ASSUME Inv, NEW p \in Container("array"), NEW k \in 0 .. MaxItems, NEW i \in held,
         InsertItemInArray(p, k, i)
  PROVE  F!Put
<1>1. PICK up : Whole(heap, Roots, up)
  BY DEF Inv, Sound
<1>2. /\ Fits(p, i) /\ heap' = cJSON_InsertItemInArray(heap, p, k, i) /\ Alone(heap, Roots)
      /\ i \in Roots
  BY DEF InsertItemInArray, Inv, Sound, Roots
<1>3. /\ heap \in Heap /\ i \in Item /\ Nx(heap)[i] = NULL /\ i \in Live(heap) /\ up[i] = NULL
      /\ p \in Live(heap) /\ ~heap.cell[p].isRef /\ heap.cell[p].type # "object"
  BY <1>1, <1>2, WholeParts, ContainerIs DEF Alone
<1>4. p \notin Doomed(heap, i)
  BY <1>2, <1>3, FitsOut
<1>5. /\ Live(heap') = Live(heap) /\ Names(heap') = Names(heap)
      /\ \E m \in 1 .. Len(Kids(heap)[p]) + 1 : Kids(heap') = [Kids(heap) EXCEPT ![p] = F!InsertAt(@, m, i)]
  BY <1>1, <1>2, <1>3, <1>4, InsertKids
<1>6. PutIn(heap, up, heap', p, i)
  <2>1. Live(heap') = Live(heap) \cup {i}
    BY <1>3, <1>5
  <2> QED
    BY <1>3, <1>5, <2>1 DEF PutIn
<1> QED
  BY <1>1, <1>3, <1>6, PutStep

LEMMA AddItemToObjectStep ==
  ASSUME Inv, NEW p \in Container("object"), NEW n \in Name, NEW i \in held,
         NEW constant \in BOOLEAN, AddItemToObject(p, n, i, constant)
  PROVE  F!Put
<1>1. PICK up : Whole(heap, Roots, up)
  BY DEF Inv, Sound
<1>2. /\ Fits(p, i) /\ heap' = add_item_to_object(heap, p, n, i, constant) /\ Alone(heap, Roots)
      /\ i \in Roots
  BY DEF AddItemToObject, Inv, Sound, Roots
<1>3. /\ heap \in Heap /\ i \in Item /\ Nx(heap)[i] = NULL
      /\ p \in Live(heap) /\ ~heap.cell[p].isRef
  BY <1>1, <1>2, WholeParts, ContainerIs DEF Alone
<1>4. p \notin Doomed(heap, i)
  BY <1>2, <1>3, FitsOut
<1>5. PutIn(heap, up, heap', p, i)
  BY <1>1, <1>2, <1>3, <1>4, KeyedKids
<1> QED
  BY <1>1, <1>3, <1>5, PutStep

(* cJSON_AddItemReferenceToArray: a new item is the last, and the item it  *)
(* refers to stays where it is.                                            *)
LEMMA AddItemReferenceToArrayStep ==
  ASSUME Inv, NEW p \in Container("array"), NEW i \in Live(heap), AddItemReferenceToArray(p, i)
  PROVE  F!Put
<1>1. PICK up : Whole(heap, Roots, up)
  BY DEF Inv, Sound
<1>2. PICK r, g : /\ r = Fresh(heap) /\ g = create_reference(heap, i, r) /\ r # NULL
                  /\ heap' = add_item_to_array(g, p, r)
  BY DEF AddItemReferenceToArray
<1>3. heap \in Heap /\ p \in Live(heap) /\ ~heap.cell[p].isRef /\ heap.cell[p].type = "array"
      /\ Alone(heap, Roots)
  BY <1>1, WholeParts, ContainerIs DEF Inv, Sound
<1>4. r \in Item \ Live(heap)
  BY <1>2, <1>3, FreshIs
<1>5. PICK c : NewCell(heap, up, c) /\ Added(heap, g, r, c)
  BY <1>1, <1>2, <1>4, CreateReferenceAdds
<1>6. /\ p \in Live(g) /\ g.cell[p] = heap.cell[p] /\ p \notin Doomed(g, r)
      /\ (Roots \cup {r}) \ {r} = Roots /\ r \in Roots \cup {r} /\ Doomed(g, r) = {r}
      /\ \E up2 : Whole(g, Roots \cup {r}, up2) /\ Orphaned(up, up2, r)
      /\ Alone(g, Roots \cup {r})
  BY <1>1, <1>3, <1>4, <1>5, NewThere
<1>7. PICK up2 : Whole(g, Roots \cup {r}, up2)
  BY <1>6
<1>8. ~g.cell[p].isRef /\ g.cell[p].type # "object"
  BY <1>3, <1>6
<1>9. /\ Live(heap') = Live(g) /\ Names(heap') = Names(g)
      /\ Kids(heap') = [Kids(g) EXCEPT ![p] = F!InsertAt(@, Len(@) + 1, r)]
  BY <1>2, <1>6, <1>7, <1>8, AddKids
<1>10. Len(Kids(g)[p]) + 1 \in 1 .. Len(Kids(g)[p]) + 1
  <2>1. p \in Item
    BY <1>3 DEF Live
  <2>2. Len(Kids(g)[p]) \in Nat
    BY <1>7, <2>1, WholeKids
  <2> QED
    BY <2>2
<1>11. PutIn(g, up2, heap', p, r)
  <2>1. Kids(heap') = [Kids(g) EXCEPT ![p] = F!InsertAt(@, Len(Kids(g)[p]) + 1, r)]
    BY <1>9
  <2>2. \E m \in 1 .. Len(Kids(g)[p]) + 1 : Kids(heap') = [Kids(g) EXCEPT ![p] = F!InsertAt(@, m, r)]
    BY <1>10, <2>1
  <2>3. up2[r] = NULL /\ r \in Live(g)
    BY <1>6, <1>7, WholeParts
  <2>4. Live(heap') = Live(g) \cup {r}
    BY <1>9, <2>3
  <2> QED
    BY <1>4, <1>9, <2>2, <2>3, <2>4 DEF PutIn
<1>12. PutIn(heap, up, heap', p, r)
  BY <1>1, <1>4, <1>5, <1>11, NewPut
<1> QED
  BY <1>1, <1>3, <1>12, PutStep

LEMMA AddItemReferenceToObjectStep ==
  ASSUME Inv, NEW p \in Container("object"), NEW n \in Name, NEW i \in Live(heap),
         NEW keyCopied \in BOOLEAN, AddItemReferenceToObject(p, n, i, keyCopied)
  PROVE  F!Put \/ F!Grow
<1>1. PICK up : Whole(heap, Roots, up)
  BY DEF Inv, Sound
<1>2. PICK r, g : /\ r = Fresh(heap) /\ g = create_reference(heap, i, r) /\ r # NULL
                  /\ heap' = IF keyCopied THEN add_item_to_object(g, p, n, r, FALSE)
                             ELSE [heap EXCEPT !.cell[r] = Unreachable]
  BY DEF AddItemReferenceToObject
<1>3. heap \in Heap /\ p \in Live(heap) /\ ~heap.cell[p].isRef /\ Alone(heap, Roots)
  BY <1>1, WholeParts, ContainerIs DEF Inv, Sound
<1>4. r \in Item \ Live(heap)
  BY <1>2, <1>3, FreshIs
<1>5. CASE keyCopied
  <2>1. PICK c : NewCell(heap, up, c) /\ Added(heap, g, r, c)
    BY <1>1, <1>2, <1>4, CreateReferenceAdds
  <2>2. /\ p \in Live(g) /\ g.cell[p] = heap.cell[p] /\ p \notin Doomed(g, r)
        /\ (Roots \cup {r}) \ {r} = Roots /\ r \in Roots \cup {r} /\ Doomed(g, r) = {r}
        /\ \E up2 : Whole(g, Roots \cup {r}, up2) /\ Orphaned(up, up2, r)
        /\ Alone(g, Roots \cup {r})
    BY <1>1, <1>3, <1>4, <2>1, NewThere
  <2>3. PICK up2 : Whole(g, Roots \cup {r}, up2)
    BY <2>2
  <2>4. ~g.cell[p].isRef /\ heap' = add_item_to_object(g, p, n, r, FALSE)
    BY <1>2, <1>3, <1>5, <2>2
  <2>5. PutIn(g, up2, heap', p, r)
    BY <2>2, <2>3, <2>4, KeyedKids
  <2>6. PutIn(heap, up, heap', p, r)
    BY <1>1, <1>4, <2>1, <2>5, NewPut
  <2> QED
    BY <1>1, <1>3, <2>6, PutStep
<1>6. CASE ~keyCopied
  <2>1. heap' = [heap EXCEPT !.cell[r] = Unreachable]
    BY <1>2, <1>6
  <2>2. NewCell(heap, up, Unreachable) /\ Added(heap, heap', r, Unreachable)
    BY <1>3, <1>4, <2>1, LostAdds
  <2> QED
    BY <1>1, <1>4, <2>2, NewStep
<1> QED
  BY <1>5, <1>6

(* cJSON_AddNullToObject and the like: the new item is in, or gone again.  *)
LEMMA AddToObjectStep ==
  ASSUME Inv, NEW p \in Container("object"), NEW n \in Name, NEW t \in Created,
         NEW keyCopied \in BOOLEAN, AddToObject(p, n, t, keyCopied)
  PROVE  F!Put \/ F!Grow
<1>1. PICK up : Whole(heap, Roots, up)
  BY DEF Inv, Sound
<1>2. PICK r, g : /\ r = Fresh(heap) /\ g = CreateItem(heap, r, t) /\ r # NULL
                  /\ heap' = IF keyCopied THEN add_item_to_object(g, p, n, r, FALSE)
                             ELSE cJSON_Delete(g, r)
  BY DEF AddToObject
<1>3. heap \in Heap /\ p \in Live(heap) /\ ~heap.cell[p].isRef /\ Alone(heap, Roots) /\ t \in Type
  BY <1>1, WholeParts, ContainerIs, TreeAssumption DEF Inv, Sound
<1>4. r \in Item \ Live(heap)
  BY <1>2, <1>3, FreshIs
<1>5. PICK c : c = NewOf(r, t)
  OBVIOUS
<1>6. NewCell(heap, up, c) /\ Added(heap, g, r, c)
  BY <1>2, <1>3, <1>4, <1>5, CreateAdds
<1>7. /\ p \in Live(g) /\ g.cell[p] = heap.cell[p] /\ p \notin Doomed(g, r)
      /\ (Roots \cup {r}) \ {r} = Roots /\ r \in Roots \cup {r} /\ Doomed(g, r) = {r}
      /\ \E up2 : Whole(g, Roots \cup {r}, up2) /\ Orphaned(up, up2, r)
      /\ Alone(g, Roots \cup {r})
  BY <1>1, <1>3, <1>4, <1>6, NewThere
<1>8. PICK up2 : Whole(g, Roots \cup {r}, up2) /\ Orphaned(up, up2, r)
  BY <1>7
<1>9. CASE keyCopied
  <2>1. heap' = add_item_to_object(g, p, n, r, FALSE) /\ ~g.cell[p].isRef
    BY <1>2, <1>3, <1>7, <1>9
  <2>2. PutIn(g, up2, heap', p, r)
    BY <1>7, <1>8, <2>1, KeyedKids
  <2>3. PutIn(heap, up, heap', p, r)
    BY <1>1, <1>4, <1>6, <2>2, NewPut
  <2> QED
    BY <1>1, <1>3, <2>3, PutStep
<1>10. CASE ~keyCopied
  <2>1. heap' = cJSON_Delete(g, r)
    BY <1>2, <1>10
  <2>2. Live(g) = Live(heap) \cup {r} /\ Kids(g) = Kids(heap)
        /\ \A j \in Item : j # r => Names(g)[j] = Names(heap)[j]
    BY <1>1, <1>4, <1>6, NewKids
  <2>3. Grown(heap, up, g, up2)
    <3>1. ~c.isRef
      BY <1>5 DEF NewOf
    <3> QED
      BY <1>1, <1>4, <1>6, <1>8, <2>2, <3>1, GrownNew
  <2>4. Whole(heap', Roots, up2) /\ Grown(heap, up, heap', up2)
    BY <1>1, <1>4, <1>8, <2>1, <2>3, GrownGone
  <2> QED
    BY <1>1, <2>4, GrownStep
<1> QED
  BY <1>9, <1>10

-----------------------------------------------------------------------------
(* cJSON_DetachItemFromArray and the like: one member leaves its list.     *)
LEMMA DetachStep ==
  ASSUME Inv, NEW t, NEW p \in Container(t), NEW i \in Found(p), Detach(p, i)
  PROVE  F!Take \/ UNCHANGED F!vars
<1>1. PICK up : Whole(heap, Roots, up)
  BY DEF Inv, Sound
<1>2. heap' = cJSON_DetachItemViaPointer(heap, p, i) /\ Alone(heap, Roots)
  BY DEF Detach, Inv, Sound
<1>3. CASE i = NULL
  <2>1. heap' = heap
    BY <1>2, <1>3 DEF cJSON_DetachItemViaPointer
  <2> QED
    BY <2>1, SameStep
<1>4. CASE i # NULL
  <2>1. Member(heap, up, p, i)
    BY <1>1, <1>4, FoundIs
  <2>2. /\ Live(heap') = Live(heap) /\ Names(heap') = Names(heap)
        /\ \E m \in 1 .. Len(Kids(heap)[p]) :
             /\ Kids(heap)[p][m] = i
             /\ Kids(heap') = [Kids(heap) EXCEPT ![p] = F!RemoveAt(@, m)]
    BY <1>1, <1>2, <2>1, DetachKids
  <2>3. p \in Live(heap)
    BY <2>1 DEF Member
  <2> QED
    BY <2>2, <2>3, TakeStep
<1> QED
  BY <1>3, <1>4

LEMMA UnwatchedUnseen ==
  ASSUME NEW D, Unwatched(D)
  PROVE  Unseen(heap, D)
BY UnwatchedIs DEF Unseen

(* cJSON_DeleteItemFromArray and the like: the member goes with its tree.  *)
LEMMA DeleteItemStep ==
  ASSUME Inv, NEW t, NEW p \in Container(t), NEW i \in Found(p), DeleteItem(p, i)
  PROVE  F!RemoveTree \/ UNCHANGED F!vars
<1>1. PICK up : Whole(heap, Roots, up)
  BY DEF Inv, Sound
<1>2. PICK e : e = cJSON_DetachItemViaPointer(heap, p, i)
  OBVIOUS
<1>3. MayDelete(p, i) /\ heap' = cJSON_Delete(e, i) /\ Alone(heap, Roots)
  BY <1>2 DEF DeleteItem, Inv, Sound
<1>4. CASE i = NULL
  <2>1. heap' = heap
    BY <1>2, <1>3, <1>4 DEF cJSON_DetachItemViaPointer, cJSON_Delete
  <2> QED
    BY <2>1, SameStep
<1>5. CASE i # NULL
  <2>1. Member(heap, up, p, i)
    BY <1>1, <1>5, FoundIs
  <2>2. PICK D : D = Doomed(e, i)
    OBVIOUS
  <2>3. Unseen(heap, D)
    <3>1. Unwatched(D)
      BY <1>2, <1>3, <1>5, <2>2 DEF MayDelete
    <3> QED
      BY <3>1, UnwatchedUnseen
  <2>4. /\ i \in D
        /\ \E m \in 1 .. Len(Kids(heap)[p]) :
             Kids(heap)[p][m] = i /\ Lost(heap, heap', D, p, F!RemoveAt(Kids(heap)[p], m))
    BY <1>1, <1>2, <1>3, <2>1, <2>2, <2>3, RemoveKids
  <2>5. KidTree(Kids(heap), i) = D
    BY <1>1, <1>2, <1>3, <2>1, <2>2, TreeBelow
  <2>6. p \in Live(heap)
    BY <2>1 DEF Member
  <2> QED
    BY <1>1, <2>4, <2>5, <2>6, RemoveStep
<1> QED
  BY <1>4, <1>5

(* One item takes the place of another in a list.                          *)
LEMMA LostExchange ==
  ASSUME NEW R, NEW up, Whole(heap, R, up), NEW p \in Live(heap), NEW i, NEW r \in R,
         NEW D, KidTree(Kids(heap), i) = D, i \in D,
         NEW m \in 1 .. Len(Kids(heap)[p]), Kids(heap)[p][m] = i,
         NEW e, Whole(e, R, up), Live(e) = Live(heap), Kids(e) = Kids(heap),
         \A j \in Item : j # r => Names(e)[j] = Names(heap)[j],
         Lost(e, heap', D, p, [Kids(heap)[p] EXCEPT ![m] = r])
  PROVE  F!Exchange
<1>1. PICK L : L = Live(heap) \ D
  OBVIOUS
<1>2. Live(heap') = L
  BY <1>1 DEF Lost
<1>3. Kids(heap') = [j \in Item |-> IF j \notin L THEN << >>
                                    ELSE IF j = p THEN [Kids(heap)[p] EXCEPT ![m] = r]
                                    ELSE Kids(heap)[j]]
  <2>1. PICK t : t = [Kids(heap)[p] EXCEPT ![m] = r]
    OBVIOUS
  <2>2. Kids(heap') = [j \in Item |-> IF j \notin L THEN << >> ELSE IF j = p THEN t ELSE Kids(e)[j]]
    BY <1>1, <2>1, LostKids
  <2> QED
    BY <2>1, <2>2
<1>4. \A j \in L : j # r => Names(heap')[j] = Names(heap)[j]
  BY <1>1, WholeParts DEF Lost
<1> QED
  BY <1>1, <1>2, <1>3, <1>4, ExchangeStep

(* cJSON_ReplaceItemInArray: the old item goes with its tree.              *)
LEMMA ReplaceItemStep ==
  ASSUME Inv, NEW p \in Container("array"), NEW i \in Found(p), NEW r \in held,
         ReplaceItem(p, i, r)
  PROVE  F!Exchange \/ UNCHANGED F!vars
<1>1. PICK up : Whole(heap, Roots, up)
  BY DEF Inv, Sound
<1>2. /\ Fits(p, r) /\ MayDelete(p, i) /\ heap' = cJSON_ReplaceItemViaPointer(heap, p, i, r)
      /\ Alone(heap, Roots) /\ r \in Roots
  BY DEF ReplaceItem, Inv, Sound, Roots
<1>3. CASE i = NULL
  <2>1. heap' = heap
    BY <1>2, <1>3 DEF cJSON_ReplaceItemViaPointer
  <2> QED
    BY <2>1, SameStep
<1>4. CASE i # NULL
  <2>1. Member(heap, up, p, i)
    BY <1>1, <1>4, FoundIs
  <2>2. PICK D : D = Doomed(cJSON_DetachItemViaPointer(heap, p, i), i)
    OBVIOUS
  <2>3. Unseen(heap, D)
    <3>1. Unwatched(D)
      BY <1>2, <1>4, <2>2 DEF MayDelete
    <3> QED
      BY <3>1, UnwatchedUnseen
  <2>4. /\ heap \in Heap /\ r \in Item /\ Nx(heap)[r] = NULL
        /\ p \in Live(heap) /\ ~heap.cell[p].isRef /\ heap.cell[p].type # "object"
    BY <1>1, <1>2, WholeParts, ContainerIs DEF Alone
  <2>5. Addable(heap, Roots, p, r)
    BY <1>2, <2>4, FitsOut DEF Addable
  <2>6. /\ i \in D
        /\ \E m \in 1 .. Len(Kids(heap)[p]) :
             Kids(heap)[p][m] = i /\ Lost(heap, heap', D, p, [Kids(heap)[p] EXCEPT ![m] = r])
    BY <1>1, <1>2, <2>1, <2>2, <2>3, <2>5, ReplaceKids
  <2>7. KidTree(Kids(heap), i) = D
    BY <1>1, <1>2, <2>1, <2>2, TreeBelow
  <2> QED
    BY <1>1, <1>2, <2>4, <2>6, <2>7, LostExchange
<1> QED
  BY <1>3, <1>4

(* cJSON_ReplaceItemInObject: the replacement has the name even when there *)
(* is no item to replace.                                                  *)
LEMMA ReplaceItemInObjectStep ==
  ASSUME Inv, NEW p \in Container("object"), NEW n \in Name, NEW r \in held, NEW cs \in BOOLEAN,
         NEW keyCopied \in BOOLEAN, ReplaceItemInObject(p, n, r, cs, keyCopied)
  PROVE  F!Exchange \/ F!Rename
<1>1. PICK up : Whole(heap, Roots, up)
  BY DEF Inv, Sound
<1>2. PICK no \in BOOLEAN : no = FALSE
  OBVIOUS
<1>3. PICK i, name, e : /\ i = get_object_item(heap, p, n, cs)
                        /\ name = (IF keyCopied THEN n ELSE NoCopy)
                        /\ e = NewKey(heap, r, name, no)
  OBVIOUS
<1>10. name \in Name \cup {NoCopy} /\ name \in Given
  BY <1>3 DEF Given
<1>4. /\ Fits(p, r) /\ MayDelete(p, i) /\ heap' = cJSON_ReplaceItemViaPointer(e, p, i, r)
      /\ Alone(heap, Roots) /\ r \in Roots
  BY <1>2, <1>3 DEF ReplaceItemInObject, Inv, Sound, Roots
<1>5. /\ heap \in Heap /\ r \in Item /\ Nx(heap)[r] = NULL /\ r \in Live(heap)
      /\ p \in Live(heap) /\ ~heap.cell[p].isRef /\ Live(heap) \in SUBSET Item
  BY <1>1, <1>4, WholeParts, ContainerIs DEF Alone
<1>6. /\ Whole(e, Roots, up) /\ e.cell[r].string # NoName
      /\ Live(e) = Live(heap) /\ Nx(e) = Nx(heap) /\ Pv(e) = Pv(heap) /\ Kd(e) = Kd(heap)
      /\ \A j \in Item : /\ e.cell[j].isRef = heap.cell[j].isRef
                         /\ e.cell[j].type = heap.cell[j].type
                         /\ e.cell[j].child = heap.cell[j].child
  BY <1>1, <1>3, <1>5, <1>10, GivenWhole
<1>7. /\ Live(e) = Live(heap) /\ Kids(e) = Kids(heap)
      /\ \A j \in Item : j # r => Names(e)[j] = Names(heap)[j]
  BY <1>1, <1>3, <1>5, <1>10, KeyKids
<1>8. CASE i = NULL
  <2>1. heap' = e
    BY <1>4, <1>8 DEF cJSON_ReplaceItemViaPointer
  <2> QED
    BY <1>1, <1>4, <1>7, <2>1, RenameStep
<1>9. CASE i # NULL
  <2>1. Member(heap, up, p, i)
    BY <1>1, <1>3, <1>9, FoundMember
  <2>2. PICK D : D = Doomed(cJSON_DetachItemViaPointer(heap, p, i), i)
    OBVIOUS
  <2>3. Unseen(heap, D)
    <3>1. Unwatched(D)
      BY <1>4, <1>9, <2>2 DEF MayDelete
    <3> QED
      BY <3>1, UnwatchedUnseen
  <2>4. Member(e, up, p, i) /\ Alone(e, Roots)
    BY <1>4, <1>5, <1>6, <2>1 DEF Member, Alone
  <2>5. D = Doomed(cJSON_DetachItemViaPointer(e, p, i), i)
    <3>1. Cd(e) = Cd(heap)
      BY <1>6 DEF Cd
    <3> QED
      BY <1>1, <1>4, <1>6, <2>1, <2>2, <2>4, <3>1, DetachedSame
  <2>6. Unseen(e, D)
    BY <1>6, <2>3, UnseenSame
  <2>7. Addable(e, Roots, p, r)
    <3>1. e \in Heap
      BY <1>6, WholeParts
    <3>2. Doomed(e, r) = Doomed(heap, r)
      BY <1>5, <1>6, <3>1, DoomedSame
    <3> QED
      BY <1>4, <1>5, <1>6, <3>2, FitsOut DEF Addable
  <2>8. /\ i \in D
        /\ \E m \in 1 .. Len(Kids(e)[p]) :
             Kids(e)[p][m] = i /\ Lost(e, heap', D, p, [Kids(e)[p] EXCEPT ![m] = r])
    BY <1>4, <1>6, <2>4, <2>5, <2>6, <2>7, ReplaceKids
  <2>9. KidTree(Kids(heap), i) = D
    BY <1>1, <1>4, <2>1, <2>2, TreeBelow
  <2>10. PICK m \in 1 .. Len(Kids(heap)[p]) :
           Kids(heap)[p][m] = i /\ Lost(e, heap', D, p, [Kids(heap)[p] EXCEPT ![m] = r])
    BY <1>7, <2>8
  <2>11. i \in D
    BY <2>8
  <2> QED
    BY <1>1, <1>4, <1>5, <1>6, <1>7, <2>9, <2>10, <2>11, LostExchange
<1> QED
  BY <1>8, <1>9

(* cJSON_Delete: a root goes with its tree.                                *)
LEMMA DeleteStep ==
  ASSUME Inv, NEW i \in held, Delete(i)
  PROVE  F!Drop
<1>1. PICK up : Whole(heap, Roots, up)
  BY DEF Inv, Sound
<1>2. PICK D : D = Doomed(heap, i)
  OBVIOUS
<1>3. Unwatched(D) /\ heap' = cJSON_Delete(heap, i) /\ Alone(heap, Roots) /\ i \in Roots
  BY <1>2 DEF Delete, Inv, Sound, Roots
<1>4. \A r \in Live(heap) \ D : heap.cell[r].isRef => heap.cell[r].child \notin D
  BY <1>3, UnwatchedIs
<1>5. Spared(heap, heap', D)
  BY <1>1, <1>2, <1>3, <1>4, DeleteKids
<1>6. KidTree(Kids(heap), i) = D
  <2>1. Nx(heap)[i] = NULL
    BY <1>3 DEF Alone
  <2> QED
    BY <1>1, <1>2, <1>3, <2>1, TreeIs
<1>7. i \in D /\ D \in SUBSET Live(heap)
  <2>1. heap \in Heap /\ HeapGraph(heap, Roots, up)
    BY <1>1, WholeParts
  <2> QED
    BY <1>2, <1>3, <2>1, DoomedTree DEF Tree
<1> QED
  BY <1>1, <1>3, <1>5, <1>6, <1>7, DropStep

LEMMA InitForest == Init => F!Init
<1> SUFFICES ASSUME Init PROVE F!Init
  OBVIOUS
<1>1. \A i \in Item : heap.cell[i] = Zeroed
  BY DEF Init
<1>2. Live(heap) = {}
  BY <1>1, ZeroedIs DEF Live
<1>3. Names(heap) = [i \in Item |-> NoName]
  BY <1>1, ZeroedIs DEF Names
<1>4. Kids(heap) = [i \in Item |-> << >>]
  BY <1>1, ZeroedIs DEF Kids, OwnsChild
<1> QED
  BY <1>2, <1>3, <1>4 DEF F!Init, Kids, Names

LEMMA NextForest == Inv /\ [Next]_vars => [F!Next]_(F!vars)
<1> SUFFICES ASSUME Inv, [Next]_vars PROVE F!Next \/ UNCHANGED F!vars
  OBVIOUS
<1>1. ASSUME Creating PROVE F!Grow \/ UNCHANGED F!vars
  <2>1. ASSUME NEW t \in Created, Create(t) PROVE F!Grow
    BY <2>1, CreateStep
  <2>2. ASSUME CreateStringReference PROVE F!Grow
    BY <2>2, CreateStringReferenceStep
  <2>3. ASSUME NEW t \in {"array", "object"}, NEW p \in Owner(t),
               CreateListReference(t, heap.cell[p].child)
        PROVE  F!Grow
    BY <2>3, CreateListReferenceStep
  <2>4. ASSUME NEW t \in Created \cap {"number", "string"}, NEW n \in 1 .. MaxItems,
               CreateArray(t, n)
        PROVE  F!Grow
    BY <2>4, CreateArrayStep
  <2>5. ASSUME NEW i \in Live(heap), NEW recurse \in BOOLEAN, Duplicate(i, recurse)
        PROVE  F!Grow \/ UNCHANGED F!vars
    BY <2>5, DuplicateStep
  <2> QED
    BY <1>1, <2>1, <2>2, <2>3, <2>4, <2>5 DEF Creating, Known
<1>2. ASSUME Adding PROVE F!Put \/ F!Grow
  <2>1. ASSUME NEW p \in Container("array"), NEW i \in held, AddItemToArray(p, i) PROVE F!Put
    BY <2>1, AddItemToArrayStep
  <2>2. ASSUME NEW p \in Container("array"), NEW k \in 0 .. MaxItems, NEW i \in held,
               InsertItemInArray(p, k, i)
        PROVE  F!Put
    BY <2>2, InsertItemInArrayStep
  <2>3. ASSUME NEW p \in Container("array"), NEW i \in Live(heap), AddItemReferenceToArray(p, i)
        PROVE  F!Put
    BY <2>3, AddItemReferenceToArrayStep
  <2>4. ASSUME NEW p \in Container("object"), NEW n \in Name, NEW i \in held,
               NEW constant \in BOOLEAN, AddItemToObject(p, n, i, constant)
        PROVE  F!Put
    BY <2>4, AddItemToObjectStep
  <2>5. ASSUME NEW p \in Container("object"), NEW n \in Name, NEW i \in Live(heap),
               NEW keyCopied \in BOOLEAN, AddItemReferenceToObject(p, n, i, keyCopied)
        PROVE  F!Put \/ F!Grow
    BY <2>5, AddItemReferenceToObjectStep
  <2>6. ASSUME NEW p \in Container("object"), NEW n \in Name, NEW t \in Created,
               NEW keyCopied \in BOOLEAN, AddToObject(p, n, t, keyCopied)
        PROVE  F!Put \/ F!Grow
    BY <2>6, AddToObjectStep
  <2> QED
    BY <1>2, <2>1, <2>2, <2>3, <2>4, <2>5, <2>6 DEF Adding, Known
<1>3. ASSUME Removing
      PROVE  F!Take \/ F!RemoveTree \/ F!Exchange \/ F!Rename \/ F!Drop \/ UNCHANGED F!vars
  <2>1. ASSUME NEW p \in Containers, NEW i \in Found(p), Detach(p, i)
        PROVE  F!Take \/ UNCHANGED F!vars
    <3>1. PICK t \in {"array", "object"} : p \in Container(t)
      BY DEF Containers
    <3> QED
      BY <2>1, <3>1, DetachStep
  <2>2. ASSUME NEW p \in Containers, NEW i \in Found(p), DeleteItem(p, i)
        PROVE  F!RemoveTree \/ UNCHANGED F!vars
    <3>1. PICK t \in {"array", "object"} : p \in Container(t)
      BY DEF Containers
    <3> QED
      BY <2>2, <3>1, DeleteItemStep
  <2>3. ASSUME NEW p \in Container("array"), NEW r \in held, NEW i \in Found(p),
               ReplaceItem(p, i, r)
        PROVE  F!Exchange \/ UNCHANGED F!vars
    BY <2>3, ReplaceItemStep
  <2>4. ASSUME NEW p \in Container("object"), NEW n \in Name, NEW r \in held, NEW cs \in BOOLEAN,
               NEW keyCopied \in BOOLEAN, ReplaceItemInObject(p, n, r, cs, keyCopied)
        PROVE  F!Exchange \/ F!Rename
    BY <2>4, ReplaceItemInObjectStep
  <2>5. ASSUME NEW i \in held, Delete(i) PROVE F!Drop
    BY <2>5, DeleteStep
  <2> QED
    BY <1>3, <2>1, <2>2, <2>3, <2>4, <2>5 DEF Removing
<1>4. ASSUME UNCHANGED vars PROVE UNCHANGED F!vars
  BY <1>4, SameStep DEF vars
<1> QED
  BY <1>1, <1>2, <1>3, <1>4 DEF Next, F!Next

(* Every call of cjson.c, all of its pointer writes together, changes one  *)
(* sequence of members at one place, keeps the order of the others, and    *)
(* deletes one tree and nothing else: the heap implements Forest.          *)
THEOREM Refinement == Spec => ImplementsForest
<1>1. Inv /\ [Next]_vars => [F!Next]_(F!vars)
  BY NextForest
<1> QED
  BY <1>1, InitForest, Invariance, PTL DEF Spec, ImplementsForest, F!Spec

-----------------------------------------------------------------------------
(* A copy as a picture: of is the item that a new one stands for, S are    *)
(* the new ones, and a pointer p among them goes where q goes.             *)
Maps(of, S, p, q) == IF q = NULL THEN p = NULL ELSE p \in S /\ of[p] = q

Alike(c, d, j) ==
  /\ c.type = d.type /\ c.string = d.string /\ c.isConst = d.isConst
  /\ c.isRef = FALSE /\ c.value = IF d.value = NULL THEN NULL ELSE j

(* Without its siblings the copy n of i may end where i goes on.           *)
Paints(h, A, g, i, n, s, of) ==
  LET S == Live(g) \ Live(h)
  IN  /\ of \in [S -> A] /\ Maps(of, S, n, i)
      /\ \A j \in S :
           /\ Alike(g.cell[j], h.cell[of[j]], j)
           /\ Maps(of, S, g.cell[j].child, h.cell[of[j]].child)
           /\ j # n \/ s => Maps(of, S, g.cell[j].next, h.cell[of[j]].next)

(* Whatever an item of A points to, apart from its owner, is in A.         *)
Enclosed(h, A) ==
  /\ A \in SUBSET Live(h)
  /\ \A j \in A : h.cell[j].child \in A \cup {NULL} /\ h.cell[j].next \in A \cup {NULL}

(* What copy promises when it had memory enough.                           *)
CopyPaints(h, A, i, s, r) == r.ok => \E of : Paints(h, A, r.heap, i, r.item, s, of)

PaintsBelow(m) ==
  \A h, R, up, A, i, s :
    Whole(h, R, up) /\ Free(h) < m /\ Enclosed(h, A) /\ i \in A \cup {NULL} /\ s \in BOOLEAN =>
      CopyPaints(h, A, i, s, copy[CallOf(h, i, s)])

(* More new items do not disturb a map.                                    *)
LEMMA MapsMore ==
  ASSUME NEW of, NEW S, NEW p, NEW q, Maps(of, S, p, q), NEW of2, NEW S2, S \subseteq S2,
         \A y \in S : of2[y] = of[y]
  PROVE  Maps(of2, S2, p, q)
BY DEF Maps

(* New items do not disturb what an enclosed set leads to.                 *)
LEMMA GrownEnclosed ==
  ASSUME NEW h, NEW up, NEW g, NEW up2, Grown(h, up, g, up2), NEW A, Enclosed(h, A)
  PROVE  Enclosed(g, A) /\ \A j \in A : g.cell[j] = h.cell[j]
BY DEF Grown, Enclosed

(* What copy leaves of the heap it is called on, memory or not.            *)
LEMMA CopyGrows ==
  ASSUME NEW h, NEW R, NEW up, Whole(h, R, up), NEW i \in Live(h) \cup {NULL}, NEW s \in BOOLEAN,
         NEW r, r = copy[CallOf(h, i, s)]
  PROVE  \E up2 \in Pointers :
           /\ Whole(r.heap, IF r.item = NULL THEN R ELSE R \cup {r.item}, up2)
           /\ Grown(h, up, r.heap, up2)
<1>1. CopiesBelow(Free(h))
  BY FreeNat, CopiesAlways
<1>2. Copied(h, R, up, i, r)
  BY <1>1, CopyStep
<1> QED
  BY <1>2 DEF Copied

(* The copy of an item with its members, when they all fitted.             *)
LEMMA AttachedPaints ==
  ASSUME NEW h, NEW R, NEW up, Whole(h, R, up), PaintsBelow(Free(h)), NEW A, Enclosed(h, A),
         NEW i \in A, NEW n, n = Fresh(h), n # NULL, NEW s \in BOOLEAN,
         copy[KidsCall(CallOf(h, i, s))].ok,
         NEW e, e = Attached(copy, CallOf(h, i, s))
  PROVE  \E of : Paints(h, A, e, i, n, FALSE, of)
<1> DEFINE g == CopyItem(h, i, n)
           j == h.cell[i].child
           k == copy[CallOf(g, j, TRUE)]
           c == CopyOf(h.cell[i], n)
<1>1. /\ h \in Heap /\ Live(h) \in SUBSET Item /\ NULL \notin Item /\ i \in Live(h) /\ i \in Item
      /\ j \in A \cup {NULL}
  BY WholeParts DEF Enclosed
<1>2. n \in Item \ Live(h)
  BY <1>1, FreshIs
<1>3. e = SetChild(k.heap, n, k.item) /\ k.ok
  BY DEF Attached, CallOf, KidsCall
<1>4. g = CopyItem(h, i, n)
  OBVIOUS
<1>5. Alike(c, h.cell[i], n) /\ c.live = TRUE /\ c.child = NULL /\ c.next = NULL /\ c.isRef = FALSE
  BY DEF CopyOf, Alike
<1> HIDE DEF g, c
<1>6. NewCell(h, up, c) /\ Added(h, g, n, c)
  BY <1>1, <1>2, <1>4, CopyAdds DEF c
<1>7. Live(g) = Live(h) \cup {n} /\ \E up1 \in Pointers : Whole(g, R \cup {n}, up1) /\ Orphaned(up, up1, n)
  <2>1. PICK d : d = c
    OBVIOUS
  <2>2. NewCell(h, up, d) /\ Added(h, g, n, d)
    BY <1>6, <2>1
  <2>3. Joins(R, up, n, h, g)
    BY <1>2, <2>2, NewJoins
  <2> QED
    BY <2>3 DEF Joins
<1>8. PICK up1 \in Pointers : Whole(g, R \cup {n}, up1) /\ Orphaned(up, up1, n)
  BY <1>7
<1>9. Grown(h, up, g, up1)
  BY <1>2, <1>5, <1>6, <1>7, <1>8, GrownNew
<1>10. \A x \in Item : g.cell[x] = IF x = n THEN c ELSE h.cell[x]
  BY <1>6 DEF Added
<1>11. Enclosed(g, A) /\ \A y \in A : g.cell[y] = h.cell[y]
  BY <1>9, GrownEnclosed
<1> HIDE DEF j
<1>12. Free(g) < Free(h)
  BY <1>2, <1>7, FreeFewer
<1>13. PICK yes \in BOOLEAN : yes = TRUE
  OBVIOUS
<1>14. k = copy[CallOf(g, j, yes)]
  BY <1>13
<1>15. j \in Live(g) \cup {NULL}
  BY <1>1, <1>11 DEF Enclosed
<1>16. PICK f, x : f = k.heap /\ x = k.item
  OBVIOUS
<1> HIDE DEF k
<1>17. PICK up2 \in Pointers :
         /\ Whole(f, IF x = NULL THEN R \cup {n} ELSE (R \cup {n}) \cup {x}, up2)
         /\ Grown(g, up1, f, up2)
  BY <1>8, <1>14, <1>15, <1>16, CopyGrows
<1>18. \E of : Paints(g, A, f, j, x, yes, of)
  <2>1. CopyPaints(g, A, j, yes, copy[CallOf(g, j, yes)])
    BY <1>1, <1>8, <1>11, <1>12 DEF PaintsBelow
  <2> QED
    BY <1>3, <1>14, <1>16, <2>1 DEF CopyPaints
<1>19. PICK of1 : Paints(g, A, f, j, x, yes, of1)
  BY <1>18
<1> DEFINE S1 == Live(f) \ Live(g)
           S == Live(e) \ Live(h)
           of == [y \in S |-> IF y = n THEN i ELSE of1[y]]
<1>20. f \in Heap /\ Live(f) \in SUBSET Item /\ f.cell[n] = c /\ n \in Live(f)
  <2>1. f \in Heap /\ Live(f) \in SUBSET Item
    BY <1>17, WholeParts
  <2>2. n \in Live(g)
    BY <1>7
  <2> QED
    BY <1>2, <1>10, <1>17, <2>1, <2>2 DEF Grown
<1>21. \A y \in Item : e.cell[y] = IF y = n THEN [c EXCEPT !.child = x] ELSE f.cell[y]
  <2>1. f.cell \in [Item -> Cell] /\ f = [cell |-> f.cell, blocks |-> f.blocks, misused |-> f.misused]
    BY <1>20 DEF Heap
  <2>2. e = [f EXCEPT !.cell[n].child = x]
    BY <1>3, <1>16 DEF SetChild
  <2> QED
    BY <1>2, <1>20, <2>1, <2>2
<1>22. /\ e.cell[n].child = x /\ Alike(e.cell[n], h.cell[i], n) /\ e.cell[n].live = TRUE
  <2>1. e.cell[n] = [c EXCEPT !.child = x]
    BY <1>2, <1>21
  <2>2. c \in Cell
    BY <1>6 DEF Added, NewCell, Heap
  <2>3. DOMAIN c = {"live", "type", "next", "prev", "child", "isRef", "string", "isConst", "value"}
    BY <2>2 DEF Cell
  <2> QED
    BY <1>5, <2>1, <2>2 DEF Alike, Cell
<1>23. Live(e) = Live(f)
  BY <1>2, <1>20, <1>21, <1>22 DEF Live
<1>24. S = S1 \cup {n} /\ n \notin S1 /\ n \notin A
  BY <1>2, <1>7, <1>17, <1>20, <1>23 DEF Grown, Enclosed
<1>25. /\ of1 \in [S1 -> A] /\ Maps(of1, S1, x, j)
       /\ \A y \in S1 : /\ Alike(f.cell[y], g.cell[of1[y]], y)
                        /\ Maps(of1, S1, f.cell[y].child, g.cell[of1[y]].child)
                        /\ Maps(of1, S1, f.cell[y].next, g.cell[of1[y]].next)
  BY <1>13, <1>19 DEF Paints
<1> HIDE DEF S1, S
<1>26. of \in [S -> A] /\ of[n] = i /\ S1 \subseteq S /\ \A y \in S1 : of[y] = of1[y] /\ of1[y] \in A
  BY <1>24, <1>25
<1> HIDE DEF of
<1>27. Maps(of, S, n, i)
  BY <1>1, <1>24, <1>26 DEF Maps
<1>28. Maps(of, S, e.cell[n].child, h.cell[i].child)
  BY <1>22, <1>25, <1>26, MapsMore DEF j
<1>29. ASSUME NEW y \in S, y # n
       PROVE  /\ Alike(e.cell[y], h.cell[of[y]], y)
              /\ Maps(of, S, e.cell[y].child, h.cell[of[y]].child)
              /\ Maps(of, S, e.cell[y].next, h.cell[of[y]].next)
  <2>1. y \in S1 /\ y \in Item
    BY <1>20, <1>23, <1>24, <1>29 DEF S
  <2>2. e.cell[y] = f.cell[y] /\ g.cell[of1[y]] = h.cell[of[y]]
    BY <1>11, <1>21, <1>26, <1>29, <2>1
  <2>3. /\ Alike(f.cell[y], g.cell[of1[y]], y)
        /\ Maps(of1, S1, f.cell[y].child, g.cell[of1[y]].child)
        /\ Maps(of1, S1, f.cell[y].next, g.cell[of1[y]].next)
    BY <1>25, <2>1
  <2>4. /\ Maps(of, S, f.cell[y].child, g.cell[of1[y]].child)
        /\ Maps(of, S, f.cell[y].next, g.cell[of1[y]].next)
    BY <1>26, <2>3, MapsMore
  <2> QED
    BY <2>2, <2>3, <2>4
<1>30. \A y \in S : /\ Alike(e.cell[y], h.cell[of[y]], y)
                    /\ Maps(of, S, e.cell[y].child, h.cell[of[y]].child)
                    /\ y # n => Maps(of, S, e.cell[y].next, h.cell[of[y]].next)
  BY <1>22, <1>26, <1>28, <1>29
<1> QED
  BY <1>26, <1>27, <1>30 DEF Paints, S

(* What a link from the item n to x changes in the cells of a heap.        *)
LinkWritten(f, g, n, x) ==
  /\ Rewired(f, g) /\ Cd(g) = Cd(f)
  /\ \A y \in Item : Nx(g)[y] = IF y = n THEN x ELSE Nx(f)[y]

LinkSeen(f, g, n, x) ==
  /\ g \in Heap /\ Live(g) = Live(f)
  /\ \A y \in Item : g.cell[y].child = f.cell[y].child
  /\ \A y \in Item : g.cell[y].next = IF y = n THEN x ELSE f.cell[y].next
  /\ \A y \in Item : \A d, z : Alike(f.cell[y], d, z) => Alike(g.cell[y], d, z)

LEMMA LinkIsSeen ==
  ASSUME NEW f \in Heap, NEW g, NEW n, NEW x, LinkWritten(f, g, n, x)
  PROVE  LinkSeen(f, g, n, x)
<1>1. /\ g \in Heap /\ Cd(g) = Cd(f) /\ \A y \in Item : SameItem(f.cell[y], g.cell[y])
      /\ \A y \in Item : Nx(g)[y] = IF y = n THEN x ELSE Nx(f)[y]
  BY DEF LinkWritten, Rewired
<1>2. /\ \A y \in Item : Nx(f)[y] = f.cell[y].next /\ Cd(f)[y] = f.cell[y].child
      /\ \A y \in Item : Nx(g)[y] = g.cell[y].next /\ Cd(g)[y] = g.cell[y].child
  BY <1>1, HeapTypes
<1>3. Live(g) = Live(f)
  BY <1>1 DEF SameItem, Live
<1>4. \A y \in Item : g.cell[y].child = f.cell[y].child
  BY <1>1, <1>2
<1>5. \A y \in Item : g.cell[y].next = IF y = n THEN x ELSE f.cell[y].next
  BY <1>1, <1>2
<1>6. ASSUME NEW y \in Item, NEW d, NEW z, Alike(f.cell[y], d, z) PROVE Alike(g.cell[y], d, z)
  <2>1. SameItem(f.cell[y], g.cell[y])
    BY <1>1
  <2> QED
    BY <1>6, <2>1 DEF SameItem, Alike
<1> QED
  BY <1>1, <1>3, <1>4, <1>5, <1>6 DEF LinkSeen

(* The siblings of the original are copied behind the copy.                *)
LEMMA SiblingsPaint ==
  ASSUME NEW h, NEW R, NEW up, Whole(h, R, up), PaintsBelow(Free(h)), NEW A, Enclosed(h, A),
         NEW i \in A, NEW n \in Item \ Live(h),
         NEW e, NEW up3 \in Pointers, Whole(e, R \cup {n}, up3), Grown(h, up, e, up3),
         \E of : Paints(h, A, e, i, n, FALSE, of),
         NEW r, r = copy[CallOf(e, h.cell[i].next, TRUE)], r.ok,
         NEW g, g = suffix_object(r.heap, n, r.item)
  PROVE  \E of : Paints(h, A, g, i, n, TRUE, of)
<1> DEFINE l == h.cell[i].next
<1>1. /\ Live(h) \in SUBSET Item /\ NULL \notin Item /\ i \in Live(h) /\ l \in A \cup {NULL}
      /\ Live(e) \in SUBSET Item /\ n \in Live(e) /\ n \notin A /\ e \in Heap
  BY WholeParts DEF Enclosed
<1>2. r = copy[CallOf(e, l, TRUE)]
  OBVIOUS
<1> HIDE DEF l
<1>3. Enclosed(e, A) /\ \A y \in A : e.cell[y] = h.cell[y]
  BY GrownEnclosed
<1>4. Free(e) < Free(h)
  BY <1>1, FreeFewer DEF Grown
<1>5. PICK yes \in BOOLEAN : yes = TRUE
  OBVIOUS
<1>6. r = copy[CallOf(e, l, yes)]
  BY <1>2, <1>5
<1>7. l \in Live(e) \cup {NULL}
  BY <1>1, <1>3 DEF Enclosed
<1>8. PICK f, x : f = r.heap /\ x = r.item
  OBVIOUS
<1>9. PICK up4 \in Pointers :
        /\ Whole(f, IF x = NULL THEN R \cup {n} ELSE (R \cup {n}) \cup {x}, up4)
        /\ Grown(e, up3, f, up4)
  BY <1>6, <1>7, <1>8, CopyGrows
<1>10. \E of : Paints(e, A, f, l, x, yes, of)
  <2>1. CopyPaints(e, A, l, yes, copy[CallOf(e, l, yes)])
    BY <1>1, <1>3, <1>4 DEF PaintsBelow
  <2> QED
    BY <1>6, <1>8, <2>1 DEF CopyPaints
<1>11. PICK of1 : Paints(h, A, e, i, n, FALSE, of1)
  OBVIOUS
<1>12. PICK of2 : Paints(e, A, f, l, x, yes, of2)
  BY <1>10
<1> DEFINE S1 == Live(e) \ Live(h)
           S2 == Live(f) \ Live(e)
           S == Live(g) \ Live(h)
           of == [y \in S |-> IF y \in S1 THEN of1[y] ELSE of2[y]]
<1>13. f \in Heap /\ Live(f) \in SUBSET Item /\ n \in Live(f)
  <2>1. f \in Heap /\ Live(f) \in SUBSET Item
    BY <1>9, WholeParts
  <2> QED
    BY <1>1, <1>9, <2>1 DEF Grown
<1>14. x \in Item \cup {NULL}
  <2>1. CASE x = NULL
    BY <2>1
  <2>2. CASE x # NULL
    <3>1. Whole(f, (R \cup {n}) \cup {x}, up4)
      BY <1>9, <2>2
    <3>2. (R \cup {n}) \cup {x} \in SUBSET Live(f)
      BY <3>1, WholeParts
    <3> QED
      BY <1>13, <3>2
  <2> QED
    BY <2>1, <2>2
<1>15. LinkWritten(f, g, n, x)
  <2> DEFINE m == SetNext(f, n, x)
  <2>1. m = SetNext(f, n, x) /\ g = SetPrev(m, x, n)
    BY <1>8 DEF suffix_object
  <2> HIDE DEF m
  <2>2. /\ Rewired(f, m) /\ Cd(m) = Cd(f) /\ \A y \in Item : Nx(m)[y] = IF y = n THEN x ELSE Nx(f)[y]
    BY <1>13, <1>14, <2>1, SetNextIs
  <2>3. m \in Heap
    BY <2>2 DEF Rewired
  <2>4. Rewired(m, g) /\ Cd(g) = Cd(m) /\ Nx(g) = Nx(m)
    BY <1>14, <2>1, <2>3, SetPrevIs
  <2>5. Rewired(f, g)
    BY <2>2, <2>4, RewiredTwice
  <2> QED
    BY <2>2, <2>4, <2>5 DEF LinkWritten
<1>16. LinkSeen(f, g, n, x)
  BY <1>13, <1>15, LinkIsSeen
<1>17. /\ g \in Heap /\ Live(g) = Live(f)
       /\ \A y \in Item : g.cell[y].child = f.cell[y].child
       /\ \A y \in Item : g.cell[y].next = IF y = n THEN x ELSE f.cell[y].next
       /\ \A y \in Item : \A d, z : Alike(f.cell[y], d, z) => Alike(g.cell[y], d, z)
  BY <1>16 DEF LinkSeen
<1>18. S = S1 \cup S2 /\ S1 \cap S2 = {} /\ n \in S1 /\ \A y \in S1 : f.cell[y] = e.cell[y]
  BY <1>1, <1>9, <1>17 DEF Grown
<1>19. /\ of1 \in [S1 -> A] /\ Maps(of1, S1, n, i)
       /\ \A y \in S1 : /\ Alike(e.cell[y], h.cell[of1[y]], y)
                        /\ Maps(of1, S1, e.cell[y].child, h.cell[of1[y]].child)
                        /\ y # n => Maps(of1, S1, e.cell[y].next, h.cell[of1[y]].next)
  BY <1>11 DEF Paints
<1>20. /\ of2 \in [S2 -> A] /\ Maps(of2, S2, x, l)
       /\ \A y \in S2 : /\ Alike(f.cell[y], e.cell[of2[y]], y)
                        /\ Maps(of2, S2, f.cell[y].child, e.cell[of2[y]].child)
                        /\ Maps(of2, S2, f.cell[y].next, e.cell[of2[y]].next)
  BY <1>5, <1>12 DEF Paints
<1>21. S1 \in SUBSET Item /\ S2 \in SUBSET Item
  BY <1>1, <1>13
<1> HIDE DEF S1, S2, S
<1>22. /\ of \in [S -> A] /\ S1 \subseteq S /\ S2 \subseteq S
       /\ \A y \in S1 : of[y] = of1[y] /\ of1[y] \in A
       /\ \A y \in S2 : of[y] = of2[y] /\ of2[y] \in A
  BY <1>18, <1>19, <1>20
<1> HIDE DEF of
<1>23. Maps(of, S, n, i)
  BY <1>19, <1>22, MapsMore
<1>24. Maps(of, S, x, l)
  BY <1>20, <1>22, MapsMore
<1>25. ASSUME NEW y \in S1
       PROVE  /\ Alike(g.cell[y], h.cell[of[y]], y)
              /\ Maps(of, S, g.cell[y].child, h.cell[of[y]].child)
              /\ Maps(of, S, g.cell[y].next, h.cell[of[y]].next)
  <2>1. /\ y \in Item /\ f.cell[y] = e.cell[y] /\ of[y] = of1[y]
        /\ Alike(f.cell[y], h.cell[of[y]], y)
    BY <1>18, <1>19, <1>21, <1>22
  <2>2. Maps(of, S, g.cell[y].child, h.cell[of[y]].child)
    <3>1. Maps(of1, S1, e.cell[y].child, h.cell[of1[y]].child)
      BY <1>19
    <3>2. Maps(of, S, e.cell[y].child, h.cell[of1[y]].child)
      BY <1>22, <3>1, MapsMore
    <3> QED
      BY <1>17, <2>1, <3>2
  <2>3. Maps(of, S, g.cell[y].next, h.cell[of[y]].next)
    <3>1. CASE y = n
      <4>1. of[y] = i
        BY <1>1, <1>23, <3>1 DEF Maps
      <4> QED
        BY <1>17, <1>24, <2>1, <3>1, <4>1 DEF l
    <3>2. CASE y # n
      <4>1. Maps(of1, S1, e.cell[y].next, h.cell[of1[y]].next)
        BY <1>19, <3>2
      <4>2. Maps(of, S, e.cell[y].next, h.cell[of1[y]].next)
        BY <1>22, <4>1, MapsMore
      <4> QED
        BY <1>17, <2>1, <3>2, <4>2
    <3> QED
      BY <3>1, <3>2
  <2> QED
    BY <1>17, <2>1, <2>2, <2>3
<1>26. ASSUME NEW y \in S2
       PROVE  /\ Alike(g.cell[y], h.cell[of[y]], y)
              /\ Maps(of, S, g.cell[y].child, h.cell[of[y]].child)
              /\ Maps(of, S, g.cell[y].next, h.cell[of[y]].next)
  <2>1. /\ y \in Item /\ of[y] = of2[y] /\ y # n /\ e.cell[of2[y]] = h.cell[of[y]]
    BY <1>3, <1>18, <1>21, <1>22
  <2>2. /\ Alike(f.cell[y], e.cell[of2[y]], y)
        /\ Maps(of2, S2, f.cell[y].child, e.cell[of2[y]].child)
        /\ Maps(of2, S2, f.cell[y].next, e.cell[of2[y]].next)
    BY <1>20
  <2>3. /\ Maps(of, S, f.cell[y].child, e.cell[of2[y]].child)
        /\ Maps(of, S, f.cell[y].next, e.cell[of2[y]].next)
    BY <1>22, <2>2, MapsMore
  <2> QED
    BY <1>17, <2>1, <2>2, <2>3
<1>27. \A y \in S : /\ Alike(g.cell[y], h.cell[of[y]], y)
                    /\ Maps(of, S, g.cell[y].child, h.cell[of[y]].child)
                    /\ Maps(of, S, g.cell[y].next, h.cell[of[y]].next)
  BY <1>18, <1>25, <1>26
<1> QED
  BY <1>22, <1>23, <1>27 DEF Paints, S

(* One call of copy, when the calls with less memory are right.            *)
LEMMA PaintStep ==
  ASSUME NEW h, NEW R, NEW up, Whole(h, R, up), PaintsBelow(Free(h)), NEW A, Enclosed(h, A),
         NEW i \in A \cup {NULL}, NEW s \in BOOLEAN
  PROVE  CopyPaints(h, A, i, s, copy[CallOf(h, i, s)])
<1> DEFINE c == CallOf(h, i, s)
           n == Fresh(h)
           e == Attached(copy, c)
           r == copy[c]
<1>1. h \in Heap /\ Live(h) \in SUBSET Item /\ NULL \notin Item /\ i \in Live(h) \cup {NULL}
  BY WholeParts DEF Enclosed
<1>2. c \in Call /\ c.heap = h /\ c.item = i /\ c.siblings = s
  BY <1>1 DEF CallOf, Call
<1>3. e = Attached(copy, CallOf(h, i, s)) /\ n = Fresh(h) /\ r = copy[c] /\ e = Attached(copy, c)
  OBVIOUS
<1>4. RestCall(copy, c) = CallOf(e, h.cell[i].next, TRUE)
  BY <1>2 DEF RestCall, CallOf
<1> SUFFICES ASSUME r.ok PROVE \E of : Paints(h, A, r.heap, i, r.item, s, of)
  BY DEF CopyPaints
<1>5. c = CallOf(h, i, s)
  OBVIOUS
<1> HIDE DEF c, n, e
<1>6. r = Body(copy, c)
  BY <1>2, CopyAt
<1> HIDE DEF r
<1>7. CASE i = NULL
  <2>1. r = Made(h, NULL, TRUE)
    BY <1>2, <1>6, <1>7 DEF Body
  <2>2. r.heap = h /\ r.item = NULL
    BY <2>1 DEF Made
  <2> DEFINE of == [y \in {} |-> y]
  <2>3. Paints(h, A, h, NULL, NULL, s, of)
    BY DEF Paints, Maps
  <2> QED
    BY <1>7, <2>2, <2>3
<1>8. CASE i # NULL
  <2>1. i \in A /\ i \in Live(h)
    BY <1>1, <1>8
  <2>2. n # NULL /\ copy[KidsCall(c)].ok
    BY <1>2, <1>3, <1>6, <1>8 DEF Body, Made
  <2>3. n \in Item \ Live(h)
    BY <1>1, <1>3, <2>2, FreshIs
  <2>4. \E of : Paints(h, A, e, i, n, FALSE, of)
    BY <1>3, <1>5, <2>1, <2>2, AttachedPaints
  <2>5. CASE ~s
    <3>1. r = Made(e, n, TRUE)
      BY <1>2, <1>3, <1>6, <1>8, <2>2, <2>5 DEF Body
    <3>2. r.heap = e /\ r.item = n /\ s = FALSE
      BY <2>5, <3>1 DEF Made
    <3> QED
      BY <2>4, <3>2
  <2>6. CASE s
    <3> DEFINE t == copy[CallOf(e, h.cell[i].next, TRUE)]
               g == suffix_object(t.heap, n, t.item)
    <3>1. r = Made(g, n, t.ok)
      BY <1>2, <1>3, <1>4, <1>6, <1>8, <2>2, <2>6 DEF Body
    <3>2. /\ t = copy[CallOf(e, h.cell[i].next, TRUE)] /\ g = suffix_object(t.heap, n, t.item)
          /\ r.heap = g /\ r.item = n /\ t.ok /\ s = TRUE
      BY <2>6, <3>1 DEF Made
    <3> HIDE DEF t, g
    <3>3. CopiesBelow(Free(h))
      BY FreeNat, CopiesAlways
    <3>4. \E up3 \in Pointers :
            /\ Whole(e, R \cup {n}, up3) /\ Grown(h, up, e, up3)
            /\ e.cell[n].string = h.cell[i].string /\ e.cell[n].next = NULL
      BY <1>3, <1>5, <2>1, <2>2, <3>3, AttachedWhole
    <3>5. PICK up3 \in Pointers : Whole(e, R \cup {n}, up3) /\ Grown(h, up, e, up3)
      BY <3>4
    <3>6. \E of : Paints(h, A, g, i, n, TRUE, of)
      BY <2>1, <2>3, <2>4, <3>2, <3>5, SiblingsPaint
    <3> QED
      BY <3>2, <3>6
  <2> QED
    BY <2>5, <2>6
<1> QED
  BY <1>7, <1>8

(* The induction, on the number of free items.                             *)
LEMMA PaintsAlways ==
  ASSUME NEW m \in Nat
  PROVE  PaintsBelow(m)
<1> DEFINE Bad == {k \in Nat : ~PaintsBelow(k)}
<1> SUFFICES ASSUME Bad # {} PROVE FALSE
  OBVIOUS
<1>1. Bad \in SUBSET Nat /\ \A k \in Nat : k \notin Bad => PaintsBelow(k)
  OBVIOUS
<1>2. \A k \in Bad : ~PaintsBelow(k)
  OBVIOUS
<1> HIDE DEF Bad
<1>3. PICK k \in Bad : \A j \in Bad : k <= j
  BY <1>1, LeastNat
<1>4. k \in Nat /\ \A j \in Nat : j < k => PaintsBelow(j)
  BY <1>1, <1>3
<1>5. PaintsBelow(k)
  <2> SUFFICES ASSUME NEW h, NEW R, NEW up, NEW A, NEW i, NEW s, Whole(h, R, up), Free(h) < k,
                      Enclosed(h, A), i \in A \cup {NULL}, s \in BOOLEAN
               PROVE  CopyPaints(h, A, i, s, copy[CallOf(h, i, s)])
    BY DEF PaintsBelow
  <2>1. PaintsBelow(Free(h))
    BY <1>4, FreeNat
  <2> QED
    BY <2>1, PaintStep
<1> QED
  BY <1>2, <1>3, <1>5

(* What maps pointer by pointer maps walk by walk.                         *)
LEMMA WalkMaps ==
  ASSUME NEW h \in Heap, NEW g \in Heap, NEW R, NEW up, HeapGraph(g, R, up), NEW n, up[n] = NULL,
         NEW S \in SUBSET Live(g), NEW of \in [S -> Live(h)],
         \A j \in S : /\ ~g.cell[j].isRef
                      /\ Maps(of, S, g.cell[j].child, h.cell[of[j]].child)
                      /\ j # n => Maps(of, S, g.cell[j].next, h.cell[of[j]].next),
         NEW j \in S, NEW k \in 0 .. MaxItems
  PROVE  Maps(of, S, Walk(g, g.cell[j].child)[k], Walk(h, h.cell[of[j]].child)[k])
<1> DEFINE a == Walk(g, g.cell[j].child)
           b == Walk(h, h.cell[of[j]].child)
           Bad == {m \in 0 .. MaxItems : ~Maps(of, S, a[m], b[m])}
<1>1. /\ Live(g) \in SUBSET Item /\ Live(h) \in SUBSET Item /\ NULL \notin Item
      /\ of[j] \in Live(h) /\ MaxItems \in Nat
  BY HeapTypes, NoItem, ItemsFinite
<1>2. g.cell[j].child \in Item \cup {NULL} /\ h.cell[of[j]].child \in Item \cup {NULL}
  BY <1>1, HeapTypes DEF Pointers
<1>3. /\ a \in [0 .. MaxItems -> Item \cup {NULL}] /\ a[0] = g.cell[j].child
      /\ \A m \in 1 .. MaxItems : a[m] = IF a[m - 1] = NULL THEN NULL ELSE Nx(g)[a[m - 1]]
  BY <1>2, WalkSteps
<1>4. /\ b \in [0 .. MaxItems -> Item \cup {NULL}] /\ b[0] = h.cell[of[j]].child
      /\ \A m \in 1 .. MaxItems : b[m] = IF b[m - 1] = NULL THEN NULL ELSE Nx(h)[b[m - 1]]
  BY <1>2, WalkSteps
<1>5. \A m \in 0 .. MaxItems : a[m] # NULL => a[m] # n
  <2> SUFFICES ASSUME NEW m \in 0 .. MaxItems, a[m] # NULL PROVE up[a[m]] = j
    BY <1>1
  <2>1. j \in Live(g) /\ ~g.cell[j].isRef
    OBVIOUS
  <2> QED
    BY <2>1, WalkMembers
<1> SUFFICES ASSUME Bad # {} PROVE FALSE
  OBVIOUS
<1>6. Bad \in SUBSET Nat /\ \A m \in 0 .. MaxItems : m \notin Bad => Maps(of, S, a[m], b[m])
  BY <1>1
<1>7. \A m \in Bad : m \in 0 .. MaxItems /\ ~Maps(of, S, a[m], b[m])
  OBVIOUS
<1> HIDE DEF Bad, a, b
<1>8. PICK m \in Bad : \A x \in Bad : m <= x
  BY <1>6, LeastNat
<1>9. m # 0
  BY <1>3, <1>4, <1>7, <1>8
<1>10. m \in 1 .. MaxItems /\ m - 1 \in 0 .. MaxItems /\ m - 1 \notin Bad
  BY <1>1, <1>6, <1>7, <1>8, <1>9
<1>11. Maps(of, S, a[m - 1], b[m - 1])
  BY <1>6, <1>10
<1>12. CASE b[m - 1] = NULL
  <2>1. a[m - 1] = NULL
    BY <1>11, <1>12 DEF Maps
  <2>2. a[m] = NULL /\ b[m] = NULL
    BY <1>3, <1>4, <1>10, <1>12, <2>1
  <2> QED
    BY <1>7, <1>8, <2>2 DEF Maps
<1>13. CASE b[m - 1] # NULL
  <2> DEFINE x == a[m - 1]
  <2>1. x \in S /\ of[x] = b[m - 1]
    BY <1>11, <1>13 DEF Maps
  <2>2. x # NULL /\ x # n /\ x \in Item /\ b[m - 1] \in Item
    BY <1>1, <1>4, <1>5, <1>10, <1>13, <2>1
  <2>3. a[m] = Nx(g)[x] /\ b[m] = Nx(h)[b[m - 1]]
    BY <1>3, <1>4, <1>10, <1>13, <2>2
  <2>4. a[m] = g.cell[x].next /\ b[m] = h.cell[of[x]].next
    BY <2>1, <2>2, <2>3, HeapTypes
  <2> HIDE DEF x
  <2>5. Maps(of, S, a[m], b[m])
    BY <2>1, <2>2, <2>4
  <2> QED
    BY <1>7, <1>8, <2>5
<1> QED
  BY <1>12, <1>13

(* The new items are pictures, sequence by sequence.                       *)
LEMMA PicturesMade ==
  ASSUME NEW h, NEW R, NEW up, Whole(h, R, up), NEW i \in Live(h), NEW n, n \notin Live(h),
         NEW g, NEW R2, NEW up2, Whole(g, R2, up2), n \in R2, NEW of,
         Paints(h, Live(h), g, i, n, FALSE, of)
  PROVE  Pictures(h, g, i, n)
<1> DEFINE S == Live(g) \ Live(h)
<1>1. h \in Heap /\ g \in Heap /\ HeapGraph(g, R2, up2) /\ up2[n] = NULL /\ n \in S
      /\ Live(h) \in SUBSET Item /\ Live(g) \in SUBSET Item /\ NULL \notin Item
  BY WholeParts
<1>2. /\ of \in [S -> Live(h)] /\ Maps(of, S, n, i)
      /\ \A j \in S : /\ Alike(g.cell[j], h.cell[of[j]], j)
                      /\ Maps(of, S, g.cell[j].child, h.cell[of[j]].child)
                      /\ j # n => Maps(of, S, g.cell[j].next, h.cell[of[j]].next)
  BY DEF Paints
<1>3. S \in SUBSET Live(g) /\ S = Live(g) \ Live(h)
  OBVIOUS
<1> HIDE DEF S
<1>4. n \in S /\ of[n] = i
  BY <1>1, <1>2 DEF Maps
<1>5. \A j \in S : ~g.cell[j].isRef
  BY <1>2 DEF Alike
<1>6. ASSUME NEW j \in S
      PROVE  /\ DOMAIN Chain(g, j) = DOMAIN Chain(h, of[j])
             /\ \A k \in DOMAIN Chain(g, j) :
                  Chain(g, j)[k] \in S /\ of[Chain(g, j)[k]] = Chain(h, of[j])[k]
  <2> DEFINE a == Walk(g, g.cell[j].child)
             b == Walk(h, h.cell[of[j]].child)
  <2>1. \A k \in 0 .. MaxItems : Maps(of, S, a[k], b[k])
    BY <1>1, <1>2, <1>3, <1>5, WalkMaps
  <2>2. \A m \in 1 .. MaxItems : m - 1 \in 0 .. MaxItems
    BY ItemsFinite
  <2>3. /\ DOMAIN Chain(g, j) = {m \in 1 .. MaxItems : a[m - 1] # NULL}
        /\ \A k \in DOMAIN Chain(g, j) : Chain(g, j)[k] = a[k - 1]
    BY DEF Chain
  <2>4. /\ DOMAIN Chain(h, of[j]) = {m \in 1 .. MaxItems : b[m - 1] # NULL}
        /\ \A k \in DOMAIN Chain(h, of[j]) : Chain(h, of[j])[k] = b[k - 1]
    BY DEF Chain
  <2>5. NULL \notin S
    BY <1>1, <1>3
  <2> HIDE DEF a, b
  <2>6. \A m \in 1 .. MaxItems : a[m - 1] # NULL <=> b[m - 1] # NULL
    BY <2>1, <2>2, <2>5 DEF Maps
  <2>7. DOMAIN Chain(g, j) = DOMAIN Chain(h, of[j])
    BY <2>6, <2>3, <2>4
  <2>8. ASSUME NEW k \in DOMAIN Chain(g, j)
        PROVE  Chain(g, j)[k] \in S /\ of[Chain(g, j)[k]] = Chain(h, of[j])[k]
    <3>1. k \in 1 .. MaxItems /\ a[k - 1] # NULL /\ Chain(g, j)[k] = a[k - 1]
      BY <2>8, <2>3
    <3>2. Chain(h, of[j])[k] = b[k - 1]
      BY <2>7, <2>8, <2>4
    <3>3. Maps(of, S, a[k - 1], b[k - 1])
      BY <2>1, <2>2, <3>1
    <3> QED
      BY <2>6, <3>1, <3>2, <3>3 DEF Maps
  <2> QED
    BY <2>7, <2>8
<1>7. \A j \in S :
        /\ g.cell[j].type = h.cell[of[j]].type /\ g.cell[j].string = h.cell[of[j]].string
        /\ g.cell[j].isConst = h.cell[of[j]].isConst /\ ~g.cell[j].isRef
        /\ g.cell[j].value = IF h.cell[of[j]].value = NULL THEN NULL ELSE j
  BY <1>2 DEF Alike
<1> QED
  BY <1>2, <1>4, <1>6, <1>7 DEF Pictures, S

(* Nothing but the copy is new, so without a copy nothing is.              *)
LEMMA GrownBack ==
  ASSUME NEW h, NEW R, NEW up, Whole(h, R, up), NEW g, NEW up2, Whole(g, R, up2),
         Grown(h, up, g, up2)
  PROVE  g = h
<1>1. h \in Heap /\ HeapGraph(h, R, up) /\ R \in SUBSET Live(h) /\ Live(h) \in SUBSET Item /\ NULL \notin Item
      /\ Cleared(h) /\ Counted(h)
  BY WholeParts DEF Whole
<1>2. g \in Heap /\ HeapGraph(g, R, up2) /\ Live(g) \in SUBSET Item /\ Cleared(g) /\ Counted(g)
  BY WholeParts DEF Whole
<1> DEFINE X == Live(g) \ Live(h)
<1>3. X = {}
  <2> SUFFICES ASSUME X # {} PROVE FALSE
    OBVIOUS
  <2>1. Rooted(Live(g), Pv(g), up2) /\ \A j \in Live(g) : Node(Live(g), Nx(g), Pv(g), Kd(g), R, up2, j)
    BY <1>2 DEF HeapGraph, Graph
  <2>2. PICK x \in X : Par(Pv(g), up2, x) \notin X
    <3>1. X \in SUBSET Live(g)
      OBVIOUS
    <3> HIDE DEF X
    <3> QED
      BY <2>1, <3>1 DEF Rooted
  <2>3. x \in Live(g) /\ x \notin Live(h) /\ x \notin R /\ x \in Item
    BY <1>1, <1>2
  <2>4. Node(Live(g), Nx(g), Pv(g), Kd(g), R, up2, x)
    BY <2>1, <2>3
  <2>5. CASE Pv(g)[x] = NULL
    <3>1. up2[x] \in Live(g) /\ up2[x] \notin Live(h)
      BY <2>3, <2>4, <2>5 DEF Node, Grown
    <3> QED
      BY <2>2, <2>5, <3>1 DEF Par
  <2>6. CASE Pv(g)[x] # NULL
    <3> DEFINE w == Pv(g)[x]
    <3>1. w \in Live(g) /\ Nx(g)[w] = x
      BY <2>4, <2>6 DEF Node
    <3>2. w \notin X
      BY <2>2, <2>6 DEF Par
    <3>3. w \in Live(h) /\ w \in Item
      BY <1>2, <3>1, <3>2
    <3>4. Nx(h)[w] = x
      BY <3>1, <3>3 DEF Grown, Nx
    <3>5. Node(Live(h), Nx(h), Pv(h), Kd(h), R, up, w)
      BY <1>1, <3>3 DEF HeapGraph, Graph
    <3> QED
      BY <1>1, <2>3, <3>4, <3>5 DEF Node
  <2> QED
    BY <2>5, <2>6
<1>4. Live(g) = Live(h)
  BY <1>3 DEF Grown
<1>5. \A j \in Item : g.cell[j] = h.cell[j]
  BY <1>1, <1>2, <1>4 DEF Grown, Cleared
<1>6. g.cell = h.cell
  BY <1>1, <1>2, <1>5 DEF Heap
<1>7. g.blocks = h.blocks /\ g.misused = h.misused
  <2>1. Keys(g) = Keys(h) /\ Values(g) = Values(h)
    BY <1>4, <1>6 DEF Keys, Values
  <2>2. g.misused \in BOOLEAN /\ h.misused \in BOOLEAN
    BY <1>1, <1>2 DEF Heap
  <2> QED
    BY <1>1, <1>2, <2>1, <2>2 DEF Counted
<1> QED
  BY <1>1, <1>2, <1>6, <1>7 DEF Heap

(* A copy shows what the original shows, or nothing has changed.           *)
LEMMA DuplicateMade ==
  ASSUME Inv, NEW i \in Live(heap), Duplicate(i, TRUE)
  PROVE  /\ \A j \in Live(heap) : heap'.cell[j] = heap.cell[j]
         /\ \/ heap' = heap /\ held' = held
            \/ \E n \in held' \ held :
                 /\ Pictures(heap, heap', i, n)
                 /\ heap'.cell[n].next = NULL /\ heap'.cell[n].prev = NULL
<1>1. PICK up : Whole(heap, Roots, up)
  BY DEF Inv, Sound
<1>2. /\ heap \in Heap /\ Live(heap) \in SUBSET Item /\ NULL \notin Item /\ held \in SUBSET Live(heap)
      /\ i \in Item /\ i # NULL
  BY <1>1, WholeParts DEF Roots
<1> DEFINE c == CallOf(heap, i, FALSE)
           e == Attached(copy, c)
           n == Fresh(heap)
           r == copy[c]
<1>3. heap' = r.heap /\ held' = IF r.ok THEN held \cup {r.item} ELSE held
  BY DEF Duplicate, cJSON_Duplicate, CallOf
<1>4. PICK s \in BOOLEAN : s = FALSE
  OBVIOUS
<1>5. /\ c = CallOf(heap, i, s) /\ e = Attached(copy, CallOf(heap, i, s)) /\ e = Attached(copy, c)
      /\ n = Fresh(heap) /\ r = copy[c]
  BY <1>4
<1> HIDE DEF c, e, n, r
<1>6. c \in Call /\ c.heap = heap /\ c.item = i /\ c.siblings = FALSE
  BY <1>2, <1>4, <1>5 DEF CallOf, Call
<1>7. r = Body(copy, c)
  BY <1>5, <1>6, CopyAt
<1>8. CASE ~r.ok
  <2>1. r.item = NULL
    BY <1>2, <1>5, <1>6, <1>7, <1>8 DEF Body, Made
  <2>2. r = copy[CallOf(heap, i, s)]
    BY <1>5
  <2>3. PICK up2 \in Pointers : Whole(heap', Roots, up2) /\ Grown(heap, up, heap', up2)
    BY <1>1, <1>3, <2>1, <2>2, CopyGrows
  <2>4. heap' = heap
    BY <1>1, <2>3, GrownBack
  <2> QED
    BY <1>3, <1>8, <2>4
<1>9. CASE r.ok
  <2>1. r = Made(e, n, TRUE) /\ n # NULL /\ copy[KidsCall(c)].ok
    BY <1>2, <1>5, <1>6, <1>7, <1>9 DEF Body, Made
  <2>2. heap' = e /\ held' = held \cup {n}
    BY <1>3, <2>1 DEF Made
  <2>3. n \in Item \ Live(heap)
    BY <1>2, <1>5, <2>1, FreshIs
  <2>4. \E up3 \in Pointers :
          /\ Whole(e, Roots \cup {n}, up3) /\ Grown(heap, up, e, up3)
          /\ e.cell[n].string = heap.cell[i].string /\ e.cell[n].next = NULL
    <3>1. CopiesBelow(Free(heap))
      BY FreeNat, CopiesAlways
    <3> QED
      BY <1>1, <1>5, <2>1, <3>1, AttachedWhole
  <2>5. PICK up3 \in Pointers :
          /\ Whole(e, Roots \cup {n}, up3) /\ Grown(heap, up, e, up3) /\ e.cell[n].next = NULL
    BY <2>4
  <2>6. Enclosed(heap, Live(heap))
    <3> SUFFICES ASSUME NEW j \in Live(heap)
                 PROVE  /\ heap.cell[j].child \in Live(heap) \cup {NULL}
                        /\ heap.cell[j].next \in Live(heap) \cup {NULL}
      BY DEF Enclosed
    <3> QED
      BY <1>1, ChildIs, NextIs
  <2>7. \E of : Paints(heap, Live(heap), e, i, n, FALSE, of)
    <3>1. PaintsBelow(Free(heap))
      BY FreeNat, PaintsAlways
    <3>2. copy[KidsCall(CallOf(heap, i, s))].ok
      BY <1>5, <2>1
    <3>3. PICK A : A = Live(heap)
      OBVIOUS
    <3> QED
      BY <1>1, <1>5, <2>1, <2>6, <3>1, <3>2, <3>3, AttachedPaints
  <2>8. n \in held \cup {n} /\ n \notin Live(heap)
    BY <2>3
  <2>9. Pictures(heap, e, i, n)
    BY <1>1, <2>5, <2>7, <2>8, PicturesMade
  <2>10. e.cell[n].prev = NULL
    <3>1. Pv(e)[n] = NULL /\ e \in Heap
      BY <2>5, <2>8, WholeParts
    <3> QED
      BY <2>3, <3>1, HeapTypes
  <2>11. n \in held' \ held /\ \A j \in Live(heap) : e.cell[j] = heap.cell[j]
    BY <1>2, <2>2, <2>3, <2>5 DEF Grown
  <2> QED
    BY <2>2, <2>5, <2>9, <2>10, <2>11
<1> QED
  BY <1>8, <1>9

(* A deep copy is identical to what it copies, for trees of any depth, and *)
(* one that runs out of memory at any depth changes nothing.               *)
THEOREM CopiesIdentical == Spec => DuplicateIdentical
<1>1. Inv /\ [Next]_vars =>
        [\A i \in Live(heap) : Duplicate(i, TRUE) =>
           /\ \A j \in Live(heap) : heap'.cell[j] = heap.cell[j]
           /\ \/ heap' = heap /\ held' = held
              \/ \E n \in held' \ held :
                   /\ Pictures(heap, heap', i, n)
                   /\ heap'.cell[n].next = NULL /\ heap'.cell[n].prev = NULL]_vars
  BY DuplicateMade
<1> QED
  BY <1>1, Invariance, PTL DEF Spec, DuplicateIdentical
=============================================================================
