----------------------------- MODULE SortedIndex -----------------------------
(* The list of keys that content.c and simplecache.c keep: read from a file,   *)
(* sorted once, searched by bisection.  Keys are numbers in strcmp's order.    *)
EXTENDS Integers, Sequences, Functions

\* qsort with _itemcmp: the orders of the list in which it can leave it
Sortings(list) ==
  LET at == DOMAIN list IN
  {s \in {[i \in at |-> list[p[i]]] : p \in Bijection(at, at)} :
     \A i, j \in at : i < j => s[i] <= s[j]}

\* The search of content_get and simplecache_get, with the C program's indices lo and
\* hi as a pair: is there an entry for the key?
Finds(items, key) ==
  LET n == Len(items)
      mid(r) == r[1] + (r[2] - r[1]) \div 2
      find[r \in (0..n) \X (-1..(n - 1))] ==
        LET k == items[mid(r) + 1] IN
        IF r[1] > r[2] THEN FALSE
        ELSE IF key < k THEN find[<<r[1], mid(r) - 1>>]
        ELSE IF key > k THEN find[<<mid(r) + 1, r[2]>>]
        ELSE TRUE
  IN find[<<0, n - 1>>]
=============================================================================
