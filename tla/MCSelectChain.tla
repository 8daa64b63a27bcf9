--------------------------- MODULE MCSelectChain ---------------------------
(* SelectChain for TLC: a table and a CTE, and groups of builder methods that interact. *)
EXTENDS SelectChain

Table(name, cte) ==
    [table |-> name, cte |-> cte,
     columns |-> <<[name |-> "id", nullable |-> FALSE], [name |-> "note", nullable |-> TRUE]>>]

Users == Table("users", FALSE)
Posts == Table("posts", FALSE)
Totals == Table("totals", TRUE)

SomeNames == <<"p1", "p2", "p3", "p4", "p5", "p6", "p7", "p8">>

Menu(methods, sources, bound) == [methods |-> methods, sources |-> sources, calls |-> bound]

SomeMenus ==
    {Menu({"group", "having", "order"}, {Users}, 2),
     Menu({"where", "limit", "lock", "distinct"}, {Users}, 2),
     Menu({"having", "lock"}, {Users}, 2),
     Menu({"order", "having", "distinct"}, {Users}, 2),
     Menu({"join", "order", "distinct"}, {Users, Totals}, 3),
     Menu({"join", "lock"}, {Users, Posts}, 2),
     Menu({"join", "where"}, {Users, Totals}, 2),
     Menu({"order_pair", "lock", "group"}, {Users}, 2),
     Menu({"join", "case"}, {Users, Posts, Totals}, 2),
     Menu({"group", "window", "offset"}, {Users}, 2),
     Menu({"subquery", "where"}, {Users, Totals}, 2),
     Menu({"subquery", "having"}, {Users}, 2),
     Menu({"subquery", "group"}, {Users, Totals}, 2)}
=============================================================================
