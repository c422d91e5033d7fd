------------------------------- MODULE Paging -------------------------------
(***************************************************************************)
(* Listings the NAS hands out page by page: the members of a set, in the   *)
(* order of a rank, from an offset on.  Nothing holds a listing still      *)
(* between two pages.                                                      *)
(***************************************************************************)
EXTENDS Integers, FiniteSets

CONSTANT PageSize

ASSUME PageSizeAssumption == PageSize \in Nat \ {0}

\* A rank that orders the members of S.
Orders(rank, S) ==
    /\ rank \in [S -> Nat]
    /\ \A x, y \in S : rank[x] = rank[y] => x = y

\* The number of rows up to and including row x.
Position(rank, listing, x) ==
    Cardinality({y \in listing : rank[y] <= rank[x]})

Page(rank, listing, offset) ==
    {x \in listing :
        Position(rank, listing, x) \in (offset + 1)..(offset + PageSize)}
=============================================================================
