----------------------------- MODULE MCStateQuery -----------------------------
EXTENDS StateQuery

Request(op, point, parts, eras) ==
  [op |-> op, point |-> point, parts |-> parts, eras |-> eras]

AnyRequest ==
  {Request("acquire", point, 0, Eras) : point \in {1, 2}}
    \cup {Request("release", 0, 0, Eras)}
    \cup {Request("query", 0, parts, eras) : parts \in {0, 1, 3}, eras \in {Eras, {2}}}
=============================================================================
