----------------------------- MODULE Containers -----------------------------
(***************************************************************************)
(* The containers that ContainerSubHandler and ComposedSubHandler of       *)
(* pymin/service/util.py manage.  A dictionary is a function with a finite *)
(* domain, an item a record; an item has the flags `add', `update' and     *)
(* `delete' when its class has such an attribute (hasattr in the code).    *)
(* The two classes differ in the place where they find the container only; *)
(* ComposedSubHandler also marks the object that holds it: see Touched.    *)
(***************************************************************************)
EXTENDS Naturals, Sequences

Empty == [k \in {} |-> k]

Put(c, k, item) == [j \in DOMAIN c \cup {k} |-> IF j = k THEN item ELSE c[j]]
Without(c, ks) == [j \in DOMAIN c \ ks |-> c[j]]

HasFlag(item, flag) == flag \in DOMAIN item
SetFlag(item, flag, v) == IF HasFlag(item, flag)
                          THEN [item EXCEPT ![flag] = v] ELSE item

\* An item that is deleted logically is still there.
Gone(item) == HasFlag(item, "delete") /\ item["delete"]
Visible(c) == {k \in DOMAIN c : ~Gone(c[k])}

\* add: an item that was deleted comes back as it was, and not the new one.
CanAdd(c, k) == k \notin Visible(c)
AddItem(c, k, item) ==
    IF k \in DOMAIN c
    THEN Put(c, k, SetFlag(SetFlag(c[k], "add", FALSE), "delete", FALSE))
    ELSE Put(c, k, SetFlag(item, "add", TRUE))

\* update: item.update() has made `item' of what was there.
UpdateItem(c, k, item) == Put(c, k, SetFlag(item, "update", TRUE))

DeleteItem(c, k) == IF HasFlag(c[k], "delete")
                    THEN Put(c, k, SetFlag(c[k], "delete", TRUE))
                    ELSE Without(c, {k})

\* clear forgets the items, flags and all.
Cleared == Empty

\* The object that holds a container, after add, update or delete in it.
Touched(holder) == SetFlag(holder, "update", TRUE)

-----------------------------------------------------------------------------
\* Lists.  None of their items has flags; an index counts from one here.
CanAppend(list, item) == \A i \in DOMAIN list : list[i] # item
DropAt(list, i) == [j \in 1..(Len(list) - 1) |->
                        IF j < i THEN list[j] ELSE list[j + 1]]
ReplaceAt(list, i, item) == [list EXCEPT ![i] = item]
=============================================================================
