----------------------------- MODULE MCOsdMulti -----------------------------
(* Commands with values and commands about many objects on small instances.   *)
(*                                                                            *)
(* The initiators of a behaviour are of one of the four kinds  of OsdMulti,    *)
(* chosen at its start: registers do not depend on walks or collections, and   *)
(* this way the numbers of states add up instead of multiplying.               *)
EXTENDS OsdMulti

CONSTANTS A1, A2

VARIABLE workload

Common(cmd, name, rest, get) ==
    [cmd |-> cmd, obj |-> <<IdLB, IdLB>>, name |-> name, rest |-> rest, get |-> get, len |-> 8,
     cmp |-> 0, swap |-> 1, add |-> 2]

\* Swaps that chain, a sum that wraps, attributes set along the way, one of them
\* refused, replies that are refused, and requests without data.
SmallRequests ==
    {Common("CAS", CasAttr, <<>>, "fits"),
     [Common("CAS", CasAttr, <<Entry(A1, 1), Entry(A2, 1)>>, "refused") EXCEPT !.cmp = 1, !.swap = 0],
     Common("FA", FaAttr, <<Entry(A1, NoVal), Entry("READ_ONLY", 1)>>, "fits"),
     Common("FA", FaAttr, <<>>, "all"),
     [Common("FA", FaAttr, <<>>, "fits") EXCEPT !.len = 0],
     [Common("GEN_CAS", A1, <<>>, "fits") EXCEPT !.cmp = 1, !.swap = Long],
     [Common("GEN_CAS", A1, <<>>, "refused") EXCEPT !.cmp = Long, !.swap = NoVal],
     [Common("COND_SETATTR", A1, <<Entry(A2, 1), Entry("READ_ONLY", 1)>>, "fits") EXCEPT !.cmp = 1, !.swap = 0],
     [Common("COND_SETATTR", A1, <<Entry(A2, NoVal)>>, "fits") EXCEPT !.cmp = 0],
     [Common("COND_SETATTR", A1, <<>>, "fits") EXCEPT !.len = 0]}

Criterion(a, min, max) == [name |-> a, min |-> min, max |-> max]

SmallCriteria ==
    {[type |-> 0, list |-> <<Criterion(A1, 1, NoVal), Criterion(A2, NoVal, 0)>>, len |-> 8],
     [type |-> 1, list |-> <<Criterion(A1, 1, 1), Criterion(A2, 1, NoVal)>>, len |-> 8],
     [type |-> 0, list |-> <<>>, len |-> 8],
     [type |-> 2, list |-> <<Criterion(A1, 1, 1)>>, len |-> 8],
     [type |-> 0, list |-> <<Criterion("PARTITION_PG", 1, 1)>>, len |-> 8],
     [type |-> 0, list |-> <<>>, len |-> 7]}

SmallLists ==
    {<<Entry(A1, 1)>>, <<Entry(A1, 0), Entry(A2, 1), Entry(A1, Long)>>, <<Entry(A1, NoVal)>>,
     <<Entry(A2, 0), Entry("READ_ONLY", 1)>>}

SmallNames == {<<A1, Atomics>>}

MCInit == MInit /\ workload \in {"registers", "lists", "attribute lists", "members"}

Kind(w) == workload = w /\ UNCHANGED workload

Registering == Kind("registers") /\ RegisterNext({IdLB}, {NoVal, 1, Long})

\* Both rows of lazy_init_attr or none.
InitialisedWhole ==
    \A p \in Pid, o \in Oid : <<p, o, Tmstmp>> \in attr <=> <<p, o, Atomics>> \in attr

\* Lists do not look at data files: a failed removal that leaves a file, or an
\* object without one, is left to the other two kinds; so are attributes that are
\* initialised by half.
Listing ==
    Kind("lists") /\ ListNext(IdLB .. MaxOid, {IdLB, MaxOid}) /\ FilesMatchObjects'

ListingAttrs ==
    /\ Kind("attribute lists") /\ ListAttrNext(IdLB .. MaxOid, {A1}, {Long}) /\ FilesMatchObjects'
    /\ InitialisedWhole'

\* One collection in every partition, and user objects.
Collecting == Kind("members") /\ MemberNext(IdLB + 1 .. MaxOid, {IdLB}, {A1}, {1})

MCNext == Registering \/ Listing \/ ListingAttrs \/ Collecting

MCSpec == MCInit /\ [][MCNext]_<<mvars, workload>>

\* Without what is written and never read.
MultiView == <<obj, attr, coll, dfile, dbfile, root, ic, val, op, walk, workload>>
=============================================================================
