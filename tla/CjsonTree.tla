----------------------------- MODULE CjsonTree -----------------------------
(***************************************************************************)
(* The item trees of src/vme/cjson.c: what every call that creates, links, *)
(* unlinks, copies or deletes items does to the pointers, and who frees    *)
(* what.  An item is a cell of the heap; an array or an object points to   *)
(* its first child and the children form a doubly linked list.             *)
(*                                                                         *)
(* The heap holds as many items as Item, and an allocation fails when they *)
(* are all in use: each call's clean-up is then taken as the code has it.  *)
(* The copy of a key that is given to an item may fail at any time, also   *)
(* where the code does not look; the copy of a text, and of the key of an  *)
(* item that is duplicated, fails only along with the item, to the same    *)
(* clean-up.  The strings are counted, not kept.                           *)
(***************************************************************************)
EXTENDS Integers, FiniteSets, Sequences

CONSTANTS
  Item,        \* the items that fit in memory
  NULL,        \* no item
  Static,      \* whose text it is that is not the library's
  MaxRoom,     \* the items, keys and references there may be at a time, together
  Created,     \* the kinds of item the application creates
  Name,        \* the keys the application uses
  NoName,      \* the key of an item that was given none: string is NULL
  NoCopy,      \* the key of an item for whose key there was no memory: NULL too
  Lower        \* a key with its letters in lower case

Type == {"array", "object", "string", "number"}

ASSUME TreeAssumption ==
  /\ IsFiniteSet(Item) /\ NULL \notin Item /\ Static \notin Item \cup {NULL}
  /\ MaxRoom \in Nat
  /\ Created \subseteq Type
  /\ NoName \notin Name /\ NoCopy \notin Name \cup {NoName}
  /\ Lower \in [Name -> Name]

MaxItems == Cardinality(Item)

VARIABLES
  heap,        \* the items, the strings allocated, and whether memory was misused
  held,        \* the items the application has to delete or to give away
  lost         \* the items that no pointer leads to any more

vars == <<heap, held, lost>>

(* An item: value says whose copy of a text its valuestring is. *)
Cell == [live : BOOLEAN, type : Type \cup {"invalid"},
         next : Item \cup {NULL}, prev : Item \cup {NULL}, child : Item \cup {NULL},
         isRef : BOOLEAN, string : Name \cup {NoName, NoCopy}, isConst : BOOLEAN,
         value : Item \cup {NULL, Static}]

Heap == [cell : [Item -> Cell], blocks : Nat, misused : BOOLEAN]

Zeroed == [live |-> FALSE, type |-> "invalid", next |-> NULL, prev |-> NULL,
           child |-> NULL, isRef |-> FALSE, string |-> NoName, isConst |-> FALSE,
           value |-> NULL]

Live(h) == {i \in Item : h.cell[i].live}

Init ==
  /\ heap = [cell |-> [i \in Item |-> Zeroed], blocks |-> 0, misused |-> FALSE]
  /\ held = {} /\ lost = {}

-----------------------------------------------------------------------------
(* Writing through a pointer that is tested first. *)
SetNext(h, i, v) == IF i = NULL THEN h ELSE [h EXCEPT !.cell[i].next = v]
SetPrev(h, i, v) == IF i = NULL THEN h ELSE [h EXCEPT !.cell[i].prev = v]
SetChild(h, i, v) == [h EXCEPT !.cell[i].child = v]

(* The item the next allocation returns: any that is not in use will do. *)
Fresh(h) == IF Live(h) = Item THEN NULL ELSE CHOOSE i \in Item : i \notin Live(h)

cJSON_New_Item(h, i, t) ==
  [h EXCEPT !.cell[i] = [Zeroed EXCEPT !.live = TRUE, !.type = t]]

(* cJSON_strdup of a valuestring. *)
CopyValue(h, i) == [h EXCEPT !.cell[i].value = i, !.blocks = @ + 1]

CreateItem(h, i, t) ==
  LET new == cJSON_New_Item(h, i, t)
  IN  IF t = "string" THEN CopyValue(new, i) ELSE new

OwnsKey(c) == ~c.isConst /\ c.string \in Name
OwnsValue(c) == ~c.isRef /\ c.value # NULL
OwnsChild(c) == ~c.isRef /\ c.child # NULL

(* What cJSON_Delete goes on to from an item. *)
After(h, i) ==
  LET c == h.cell[i]
  IN  {j \in {c.next} : j # NULL} \cup {j \in {c.child} : OwnsChild(c)}

(* The items that the steps lead to from From. *)
Reached(From, Step) ==
  LET within[n \in 0 .. MaxItems] ==
        IF n = 0 THEN From
        ELSE LET nearer == within[n - 1] IN nearer \cup UNION {Step[k] : k \in nearer}
  IN  within[MaxItems]

(* The items cJSON_Delete comes to: the item, its later siblings, and      *)
(* whatever is below them that they own.                                   *)
Doomed(h, i) == Reached({i}, [k \in Item |-> After(h, k)])

(* How often it comes to an item of D: more than once is a double free. *)
Visits(h, D) ==
  1 + Cardinality({j \in D : h.cell[j].next # NULL})
    + Cardinality({j \in D : OwnsChild(h.cell[j])})

cJSON_Delete(h, i) ==
  IF i = NULL THEN h
  ELSE LET D == Doomed(h, i)
       IN  [cell |-> [j \in Item |-> IF j \in D THEN Zeroed ELSE h.cell[j]],
            blocks |-> h.blocks - Cardinality({j \in D : OwnsKey(h.cell[j])})
                                - Cardinality({j \in D : OwnsValue(h.cell[j])}),
            misused |-> h.misused \/ ~(D \subseteq Live(h)) \/ Visits(h, D) > Cardinality(D)]

-----------------------------------------------------------------------------
(* The nth item of the list that starts at i, counting from 0. *)
Walk(h, i) ==
  LET at[n \in 0 .. MaxItems] ==
        IF n = 0 THEN i
        ELSE LET before == at[n - 1]
             IN  IF before = NULL THEN NULL ELSE h.cell[before].next
  IN  at

get_array_item(h, p, k) == Walk(h, h.cell[p].child)[k]

case_insensitive_strcmp(m, n) == m = n \/ (m \in Name /\ Lower[m] = Lower[n])

(* The first item of the name.  Where case matters strcmp reads each name  *)
(* up to it, and a search that comes to NULL goes no further.              *)
get_object_item(h, p, n, caseSensitive) ==
  LET at == Walk(h, h.cell[p].child)
      Stops(k) == \/ at[k] = NULL
                  \/ LET s == h.cell[at[k]].string
                     IN  IF caseSensitive THEN s \in {n, NoCopy} ELSE case_insensitive_strcmp(s, n)
  IN  at[CHOOSE k \in 0 .. MaxItems : Stops(k) /\ \A j \in 0 .. k - 1 : ~Stops(j)]

suffix_object(h, prev, i) == SetPrev(SetNext(h, prev, i), i, prev)

(* Fault: the item goes behind the first one, not the last. *)
AddAfterFirst(h, p, i) ==
  LET first == h.cell[p].child
  IN  IF first = NULL THEN SetChild(h, p, i) ELSE suffix_object(h, first, i)

add_item_to_array(h, p, i) ==
  LET at == Walk(h, h.cell[p].child)
  IN  IF at[0] = NULL THEN SetChild(h, p, i)
      ELSE LET last == CHOOSE k \in 0 .. MaxItems - 1 : at[k] # NULL /\ at[k + 1] = NULL
           IN  suffix_object(h, at[last], i)

(* Fault: a key that is a constant is freed as well. *)
NewKeyFreesConstant(h, i, n, constant) ==
  LET freed == IF h.cell[i].string \in Name THEN 1 ELSE 0
  IN  [h EXCEPT !.cell[i].string = n, !.cell[i].isConst = constant,
                !.blocks = @ - freed + IF constant \/ n = NoCopy THEN 0 ELSE 1]

(* The key of i is replaced by n, and what it had is freed. *)
NewKey(h, i, n, constant) ==
  LET c == h.cell[i]
      freed == IF OwnsKey(c) THEN 1 ELSE 0
      copied == IF constant \/ n = NoCopy THEN 0 ELSE 1
  IN  [h EXCEPT !.cell[i].string = n, !.cell[i].isConst = constant,
                !.blocks = @ - freed + copied]

add_item_to_object(h, p, n, i, constant) ==
  add_item_to_array(NewKey(h, i, n, constant), p, i)

(* A copy of the item that shares its children and its text. *)
create_reference(h, i, r) ==
  [h EXCEPT !.cell[r] = [h.cell[i] EXCEPT !.string = NoName, !.isRef = TRUE,
                                          !.next = NULL, !.prev = NULL]]

(* A reference that nothing leads to: it stays allocated, and what it      *)
(* points to does not matter any more.                                     *)
Unreachable == [Zeroed EXCEPT !.live = TRUE, !.isRef = TRUE]

(* Fault: the next item still points back to the one that left. *)
DetachKeepsPrev(h, p, i) ==
  IF i = NULL THEN h
  ELSE LET c == h.cell[i]
           around == SetNext(h, c.prev, c.next)
           first == IF h.cell[p].child = i THEN SetChild(around, p, c.next) ELSE around
       IN  SetPrev(SetNext(first, i, NULL), i, NULL)

cJSON_DetachItemViaPointer(h, p, i) ==
  IF i = NULL THEN h
  ELSE LET c == h.cell[i]
           around == SetPrev(SetNext(h, c.prev, c.next), c.next, c.prev)
           first == IF h.cell[p].child = i THEN SetChild(around, p, c.next) ELSE around
       IN  SetPrev(SetNext(first, i, NULL), i, NULL)

(* Fault: the item before the new one is not told of it. *)
InsertUnlinked(h, p, k, i) ==
  LET after == get_array_item(h, p, k)
      linked == SetPrev(SetPrev(SetNext(h, i, after), i, h.cell[after].prev), after, i)
  IN  IF after = NULL THEN add_item_to_array(h, p, i)
      ELSE IF after = h.cell[p].child THEN SetChild(linked, p, i)
      ELSE linked

cJSON_InsertItemInArray(h, p, k, i) ==
  LET after == get_array_item(h, p, k)
      prev == h.cell[after].prev
      linked == SetPrev(SetPrev(SetNext(h, i, after), i, prev), after, i)
  IN  IF after = NULL THEN add_item_to_array(h, p, i)
      ELSE IF after = h.cell[p].child THEN SetChild(linked, p, i)
      ELSE SetNext(linked, prev, i)

(* Fault: the old item is deleted while it is still linked. *)
ReplaceDeletesFirst(h, p, i, r) ==
  IF i = NULL \/ i = r THEN h
  ELSE LET c == h.cell[i]
           gone == cJSON_Delete(h, i)
           around == SetNext(SetPrev(SetPrev(SetNext(gone, r, c.next), r, c.prev), c.next, r), c.prev, r)
       IN  IF h.cell[p].child = i THEN SetChild(around, p, r) ELSE around

cJSON_ReplaceItemViaPointer(h, p, i, r) ==
  IF i = NULL \/ i = r THEN h
  ELSE LET c == h.cell[i]
           linked == SetPrev(SetNext(h, r, c.next), r, c.prev)
           around == SetNext(SetPrev(linked, c.next, r), c.prev, r)
           first == IF h.cell[p].child = i THEN SetChild(around, p, r) ELSE around
       IN  cJSON_Delete(SetPrev(SetNext(first, i, NULL), i, NULL), i)

(* Fault: the copy is made without the key. *)
CopyItemNameless(h, i, n) ==
  LET new == cJSON_New_Item(h, n, h.cell[i].type)
  IN  IF h.cell[i].value = NULL THEN new ELSE CopyValue(new, n)

(* Fault: the text of a reference is not copied. *)
CopyItemOwnText(h, i, n) ==
  LET c == h.cell[i]
      key == IF OwnsKey(c) THEN 1 ELSE 0
      new == [h EXCEPT
        !.cell[n] = [Zeroed EXCEPT !.live = TRUE, !.type = c.type,
                                   !.string = c.string, !.isConst = c.isConst],
        !.blocks = @ + key]
  IN  IF OwnsValue(c) THEN CopyValue(new, n) ELSE new

(* The copy of one item: no reference, with a text and a key of its own. *)
CopyItem(h, i, n) ==
  LET c == h.cell[i]
      key == IF OwnsKey(c) THEN 1 ELSE 0
      new == [h EXCEPT
        !.cell[n] = [Zeroed EXCEPT !.live = TRUE, !.type = c.type,
                                   !.string = c.string, !.isConst = c.isConst],
        !.blocks = @ + key]
  IN  IF c.value = NULL THEN new ELSE CopyValue(new, n)

(* What one step of the copy starts from: the heap, the item, and whether  *)
(* the loop over the children goes on from it to its siblings.             *)
Call == [heap : Heap, item : Item \cup {NULL}, siblings : BOOLEAN]

(* The copy of an item and all below it, and of its siblings too.  When    *)
(* memory runs out each level deletes what it has made.                    *)
copy[c \in Call] ==
  LET h == c.heap
      i == c.item
      n == Fresh(h)
      kids == copy[[heap |-> CopyItem(h, i, n), item |-> h.cell[i].child, siblings |-> TRUE]]
      whole == SetChild(kids.heap, n, kids.item)
      rest == copy[[heap |-> whole, item |-> h.cell[i].next, siblings |-> TRUE]]
  IN  IF i = NULL THEN [heap |-> h, item |-> NULL, ok |-> TRUE]
      ELSE IF n = NULL THEN [heap |-> h, item |-> NULL, ok |-> FALSE]
      ELSE IF ~kids.ok THEN [heap |-> cJSON_Delete(whole, n), item |-> NULL, ok |-> FALSE]
      ELSE IF ~c.siblings THEN [heap |-> whole, item |-> n, ok |-> TRUE]
      ELSE [heap |-> suffix_object(rest.heap, n, rest.item), item |-> n, ok |-> rest.ok]

cJSON_Duplicate(h, i, recurse) ==
  IF recurse THEN copy[[heap |-> h, item |-> i, siblings |-> FALSE]]
  ELSE IF Fresh(h) = NULL THEN [heap |-> h, item |-> NULL, ok |-> FALSE]
  ELSE [heap |-> CopyItem(h, i, Fresh(h)), item |-> Fresh(h), ok |-> TRUE]

(* The array of n new items; when one cannot be had, all are given back. *)
CreateArrayOf(h, t, n) ==
  LET a == Fresh(h)
      made[k \in 0 .. n] ==
        IF k = 0 THEN [heap |-> cJSON_New_Item(h, a, "array"), last |-> NULL, ok |-> TRUE]
        ELSE LET before == made[k - 1]
                 new == Fresh(before.heap)
                 with == CreateItem(before.heap, new, t)
             IN  IF ~before.ok THEN before
                 ELSE IF new = NULL
                      THEN [heap |-> cJSON_Delete(before.heap, a), last |-> NULL, ok |-> FALSE]
                 ELSE [heap |-> IF k = 1 THEN SetChild(with, a, new)
                                ELSE suffix_object(with, before.last, new),
                       last |-> new, ok |-> TRUE]
  IN  made[n]

-----------------------------------------------------------------------------
(* What the application takes care of: it changes no list through a        *)
(* reference or that a reference shows, it makes no item part of itself,   *)
(* and it deletes nothing that a remaining reference refers to.            *)
Members(p) == {Walk(heap, heap.cell[p].child)[k] : k \in 0 .. MaxItems} \ {NULL}

References == {r \in Live(heap) : heap.cell[r].isRef}

Known == Live(heap) \ lost

Owner(t) == {p \in Live(heap) \ References : heap.cell[p].type = t}

Container(t) == {p \in Owner(t) : \A r \in References : heap.cell[r].child \notin Members(p)}
Containers == Container("array") \cup Container("object")

(* All that can be seen below an item, through references too. *)
Below(i) == Reached({heap.cell[i].child} \ {NULL},
                  [k \in Item |-> {heap.cell[k].next, heap.cell[k].child} \ {NULL}])

Fits(p, i) == i # p /\ p \notin Below(i)

Unwatched(D) ==
  \A r \in References \ D : {heap.cell[r].child, heap.cell[r].value} \cap D = {}

(* Detached from p, i may be deleted. *)
MayDelete(p, i) ==
  i # NULL => Unwatched(Doomed(cJSON_DetachItemViaPointer(heap, p, i), i))

(* A search that strcmp survives has found no item, or one with a name. *)
Survives(i) == i # NULL => heap.cell[i].string # NoCopy

-----------------------------------------------------------------------------
(* cJSON_CreateNull and the like, cJSON_CreateString, cJSON_CreateRaw,     *)
(* cJSON_CreateArray and cJSON_CreateObject.                               *)
Create(t) ==
  LET i == Fresh(heap)
  IN  /\ i # NULL
      /\ heap' = CreateItem(heap, i, t)
      /\ held' = held \cup {i}
      /\ UNCHANGED lost

(* cJSON_CreateStringReference. *)
CreateStringReference ==
  LET i == Fresh(heap)
  IN  /\ i # NULL
      /\ heap' = [cJSON_New_Item(heap, i, "string") EXCEPT
                    !.cell[i].isRef = TRUE, !.cell[i].value = Static]
      /\ held' = held \cup {i}
      /\ UNCHANGED lost

(* cJSON_CreateObjectReference and cJSON_CreateArrayReference. *)
CreateListReference(t, child) ==
  LET i == Fresh(heap)
  IN  /\ i # NULL
      /\ heap' = [cJSON_New_Item(heap, i, t) EXCEPT
                    !.cell[i].isRef = TRUE, !.cell[i].child = child]
      /\ held' = held \cup {i}
      /\ UNCHANGED lost

(* cJSON_CreateIntArray and the like, cJSON_CreateStringArray. *)
CreateArray(t, n) ==
  LET made == CreateArrayOf(heap, t, n)
  IN  /\ Fresh(heap) # NULL
      /\ heap' = made.heap
      /\ held' = IF made.ok THEN held \cup {Fresh(heap)} ELSE held
      /\ UNCHANGED lost

AddItemToArray(p, i) ==
  /\ Fits(p, i)
  /\ heap' = add_item_to_array(heap, p, i)
  /\ held' = held \ {i}
  /\ UNCHANGED lost

(* Without memory for the key nothing happens. *)
AddItemToObject(p, n, i, constant) ==
  /\ Fits(p, i)
  /\ heap' = add_item_to_object(heap, p, n, i, constant)
  /\ held' = held \ {i}
  /\ UNCHANGED lost

AddItemReferenceToArray(p, i) ==
  LET r == Fresh(heap)
  IN  /\ r # NULL /\ Fits(p, i)
      /\ heap' = add_item_to_array(create_reference(heap, i, r), p, r)
      /\ UNCHANGED <<held, lost>>

(* Without memory for the key add_item_to_object leaves the new reference  *)
(* alone, and so does its caller, who had the only pointer to it.          *)
AddItemReferenceToObject(p, n, i, keyCopied) ==
  LET r == Fresh(heap)
  IN  /\ r # NULL /\ Fits(p, i)
      /\ heap' = IF keyCopied
                  THEN add_item_to_object(create_reference(heap, i, r), p, n, r, FALSE)
                  ELSE [heap EXCEPT !.cell[r] = Unreachable]
      /\ lost' = IF keyCopied THEN lost ELSE lost \cup {r}
      /\ UNCHANGED held

(* cJSON_AddNullToObject and the like: the new item is deleted when there  *)
(* is no memory for its key.                                               *)
AddToObject(p, n, t, keyCopied) ==
  LET i == Fresh(heap)
      new == CreateItem(heap, i, t)
  IN  /\ i # NULL
      /\ heap' = IF keyCopied THEN add_item_to_object(new, p, n, i, FALSE)
                 ELSE cJSON_Delete(new, i)
      /\ UNCHANGED <<held, lost>>

(* Detached by index or by name. *)
Detach(p, i) ==
  /\ heap' = cJSON_DetachItemViaPointer(heap, p, i)
  /\ held' = held \cup ({i} \ {NULL})
  /\ UNCHANGED lost

DeleteItem(p, i) ==
  /\ MayDelete(p, i)
  /\ heap' = cJSON_Delete(cJSON_DetachItemViaPointer(heap, p, i), i)
  /\ UNCHANGED <<held, lost>>

InsertItemInArray(p, k, i) ==
  /\ Fits(p, i)
  /\ heap' = cJSON_InsertItemInArray(heap, p, k, i)
  /\ held' = held \ {i}
  /\ UNCHANGED lost

ReplaceItem(p, i, r) ==
  /\ Fits(p, r) /\ MayDelete(p, i)
  /\ heap' = cJSON_ReplaceItemViaPointer(heap, p, i, r)
  /\ held' = IF i = NULL THEN held ELSE held \ {r}
  /\ UNCHANGED lost

(* The replacement gets the name whether or not there is an item to        *)
(* replace, and stays with the application when there is none.  Nobody     *)
(* looks whether there was memory for the copy of the name.                *)
ReplaceItemInObject(p, n, r, caseSensitive, keyCopied) ==
  LET i == get_object_item(heap, p, n, caseSensitive)
      name == IF keyCopied THEN n ELSE NoCopy
  IN  /\ Fits(p, r) /\ Survives(i) /\ MayDelete(p, i)
      /\ heap' = cJSON_ReplaceItemViaPointer(NewKey(heap, r, name, FALSE), p, i, r)
      /\ held' = IF i = NULL THEN held ELSE held \ {r}
      /\ UNCHANGED lost

Delete(i) ==
  /\ Unwatched(Doomed(heap, i))
  /\ heap' = cJSON_Delete(heap, i)
  /\ held' = held \ {i}
  /\ UNCHANGED lost

Duplicate(i, recurse) ==
  LET made == cJSON_Duplicate(heap, i, recurse)
  IN  /\ heap' = made.heap
      /\ held' = IF made.ok THEN held \cup {made.item} ELSE held
      /\ UNCHANGED lost

-----------------------------------------------------------------------------
Creating ==
  \/ \E t \in Created : Create(t)
  \/ CreateStringReference
  \/ \E t \in {"array", "object"} : \E p \in Owner(t) :
       CreateListReference(t, heap.cell[p].child)
  \/ /\ "array" \in Created
     /\ \E t \in Created \cap {"number", "string"}, n \in 1 .. MaxItems : CreateArray(t, n)
  \/ \E i \in Known, recurse \in BOOLEAN : Duplicate(i, recurse)

Adding ==
  \/ \E p \in Container("array"), i \in held : AddItemToArray(p, i)
  \/ \E p \in Container("array"), k \in 0 .. MaxItems, i \in held : InsertItemInArray(p, k, i)
  \/ \E p \in Container("array"), i \in Known : AddItemReferenceToArray(p, i)
  \/ \E p \in Container("object"), n \in Name :
       \/ \E i \in held, constant \in BOOLEAN : AddItemToObject(p, n, i, constant)
       \/ \E i \in Known, keyCopied \in BOOLEAN : AddItemReferenceToObject(p, n, i, keyCopied)
       \/ \E t \in Created, keyCopied \in BOOLEAN : AddToObject(p, n, t, keyCopied)

(* The item of a list that an index or a name finds. *)
Found(p) ==
  {get_array_item(heap, p, k) : k \in 0 .. MaxItems} \cup
  {i \in {get_object_item(heap, p, n, cs) :
            n \in {m \in Name : p \in Container("object")}, cs \in BOOLEAN} : Survives(i)}

Removing ==
  \/ \E p \in Containers : \E i \in Found(p) : Detach(p, i) \/ DeleteItem(p, i)
  \/ \E p \in Container("array"), r \in held : \E i \in Found(p) : ReplaceItem(p, i, r)
  \/ \E p \in Container("object"), n \in Name, r \in held, cs, keyCopied \in BOOLEAN :
       ReplaceItemInObject(p, n, r, cs, keyCopied)
  \/ \E i \in held : Delete(i)

(* The bound of the instance: items, keys and references together. *)
Bounded ==
  Cardinality(Live(heap)) + Cardinality({i \in Live(heap) : heap.cell[i].string # NoName})
    + Cardinality(References) <= MaxRoom

Next == (Creating \/ Adding \/ Removing) /\ Bounded'

Spec == Init /\ [][Next]_vars

-----------------------------------------------------------------------------
(* The heap is always a heap: in particular what was freed stays zeroed,   *)
(* so no call writes to an item after its deletion.                        *)
TypeOK ==
  /\ heap \in Heap
  /\ held \subseteq Live(heap) /\ lost \subseteq Live(heap)
  /\ \A i \in Item \ Live(heap) : heap.cell[i] = Zeroed

(* Every list is doubly linked and starts at its owner's child: the walks  *)
(* forward and the unlinking by prev agree, whatever was added, inserted,  *)
(* replaced or detached before.                                            *)
Linked ==
  \A i \in Live(heap) :
    LET c == heap.cell[i]
    IN  /\ c.next # NULL => heap.cell[c.next].prev = i
        /\ c.prev # NULL => heap.cell[c.prev].next = i
        /\ OwnsChild(c) => heap.cell[c.child].prev = NULL

(* How many places a live item is owned from. *)
Owners(i) ==
  (IF i \in held THEN 1 ELSE 0)
    + Cardinality({p \in Live(heap) : OwnsChild(heap.cell[p]) /\ heap.cell[p].child = i})
    + Cardinality({q \in Live(heap) : heap.cell[q].next = i})

(* No call leaves an item with two owners, and none leaks one but for      *)
(* cJSON_AddItemReferenceToObject, which loses its new reference, and      *)
(* nothing else, when there is no memory for the key: every other live     *)
(* item is owned from one place, and reached from what the application     *)
(* holds.                                                                  *)
OwnedOnce ==
  /\ \A i \in Live(heap) : Owners(i) = IF i \in lost THEN 0 ELSE 1
  /\ Reached(held, [k \in Item |-> After(heap, k)]) = Known
  /\ lost \subseteq References

(* Nothing is freed twice, no string is lost and none is freed that was    *)
(* not the library's: as many are allocated as items own, through every    *)
(* change of a key between a copied and a constant one.                    *)
StringsBalanced ==
  /\ ~heap.misused
  /\ heap.blocks = Cardinality({i \in Live(heap) : OwnsKey(heap.cell[i])})
                  + Cardinality({i \in Live(heap) : OwnsValue(heap.cell[i])})

(* Every member of an object has been given a name, however it came there: *)
(* get_object_item hands the name to strcmp untested.  It is NULL only if  *)
(* replace_item_in_object, which does not look, had no memory for it       *)
(* (NoCopy), in the item it gave it to or in a copy of that item.          *)
MembersNamed ==
  \A p \in Owner("object") : \A i \in Members(p) : heap.cell[i].string # NoName

-----------------------------------------------------------------------------
(* The members of an item, in order. *)
Chain(h, i) ==
  LET at == Walk(h, h.cell[i].child)
  IN  [k \in {n \in 1 .. MaxItems : at[n - 1] # NULL} |-> at[k - 1]]

F == INSTANCE Forest WITH
  live <- Live(heap),
  kids <- [i \in Item |-> IF OwnsChild(heap.cell[i]) THEN Chain(heap, i) ELSE << >>],
  name <- [i \in Item |-> heap.cell[i].string]

(* Through all the pointer work, each call changes one list at one place,  *)
(* keeps the order of the others, and deletes one tree.                    *)
ImplementsForest == F!Spec

(* Every new item of g is the picture of an item of h: it has the type,    *)
(* the name and a text of its own, is no reference, and its members are,   *)
(* in order, the pictures of the members that one shows.                   *)
Pictures(h, g, i, n) ==
  LET New == Live(g) \ Live(h)
  IN  \E of \in [New -> Live(h)] :
        /\ n \in New /\ of[n] = i
        /\ \A j \in New :
             LET c == g.cell[j]
                 d == h.cell[of[j]]
             IN  /\ c.type = d.type /\ c.string = d.string /\ c.isConst = d.isConst
                 /\ ~c.isRef /\ c.value = IF d.value = NULL THEN NULL ELSE j
                 /\ DOMAIN Chain(g, j) = DOMAIN Chain(h, of[j])
                 /\ \A k \in DOMAIN Chain(g, j) :
                      Chain(g, j)[k] \in New /\ of[Chain(g, j)[k]] = Chain(h, of[j])[k]

(* "Duplicate will create a new, identical cJSON item to the one you pass":*)
(* the copy shows what the original shows, through references too, and is  *)
(* a root of its own; the original is as it was; and when memory runs out, *)
(* at any depth, everything is as it was.                                  *)
DuplicateIdentical ==
  [][\A i \in Live(heap) : Duplicate(i, TRUE) =>
       /\ \A j \in Live(heap) : heap'.cell[j] = heap.cell[j]
       /\ \/ heap' = heap /\ held' = held
          \/ \E n \in held' \ held :
               /\ Pictures(heap, heap', i, n)
               /\ heap'.cell[n].next = NULL /\ heap'.cell[n].prev = NULL]_vars
=============================================================================
