------------------------------- MODULE Lists -------------------------------
(***************************************************************************)
(* The doubly linked lists of libs/list.h, which hold the wait queues, the *)
(* run queues and the process list, as sequences from list_next(head) on.  *)
(* An element is linked into a list at most once (Distinct): the clients   *)
(* have to see to it, a second list_add would corrupt the list.            *)
(***************************************************************************)
EXTENDS Naturals, Sequences

Elements(list) == {list[i] : i \in DOMAIN list}

Distinct(list) == \A i, j \in DOMAIN list : list[i] = list[j] => i = j

\* list_add_before() and list_add_after() at the head of the list.
AddLast(list, x) == Append(list, x)
AddFirst(list, x) == <<x>> \o list

\* list_del() of the i-th element.
DelAt(list, i) == SubSeq(list, 1, i - 1) \o SubSeq(list, i + 1, Len(list))

\* "if (!list_empty(link)) list_del_init(link)": unlink x if it is linked.
Unlink(list, x) ==
    IF x \in Elements(list)
    THEN DelAt(list, CHOOSE i \in DOMAIN list : list[i] = x) ELSE list
=============================================================================
