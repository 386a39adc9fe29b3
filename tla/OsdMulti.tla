------------------------------ MODULE OsdMulti ------------------------------
(***************************************************************************)
(* The commands about many objects: LIST and LIST COLLECTION, which answer    *)
(* in pages, QUERY, and SET MEMBER ATTRIBUTES (osd.c:2072-2251, 2362-2508,      *)
(* 2999-3070, mtq.c).                                                          *)
(*                                                                             *)
(* A walk is an initiator that asks for page after page while objects come     *)
(* and go; its record is what the properties look at.                          *)
(***************************************************************************)
EXTENDS OsdAttrs, FiniteSets

CONSTANTS
    DataPids,   \* the partitions in which initiators create objects
    Requests,   \* atomic commands
    ListLens,   \* allocation lengths of LIST and LIST COLLECTION,
    AttrLens,   \* of LIST with attributes,
    QueryLens,  \* and of QUERY
    NameLists,  \* the attributes that LIST is to report, in the order given
    Criteria,   \* query lists
    MemberLists \* attribute lists of SET MEMBER ATTRIBUTES

\* Entries of attribute lists and of query lists.
Entries      == [name : Attrs \cup {"READ_ONLY"}, value : Value]
QueryEntries == [name : Attrs \cup {"PARTITION_PG"}, min : Value, max : Value]

\* CAS and FA are about their own counters, and work on 64-bit words; what GEN
\* CAS and COND SETATTR put in is any value.
ASSUME RequestAssumption ==
    \A r \in Requests :
        /\ r.cmd \in {"CAS", "FA", "GEN_CAS", "COND_SETATTR"}
        /\ r.obj \in Pid \X Oid /\ r.name \in Attrs
        /\ r.cmd = "CAS" => r.name = CasAttr /\ r.swap \in 0 .. Word - 1
        /\ r.cmd = "FA"  => r.name = FaAttr
        /\ r.add \in 0 .. Word - 1 /\ r.swap \in Value
        /\ r.rest \in Seq(Entries)

\* Initiators leave the counters to CAS and FA, and the names of pages alone:
\* the target would take GEN CAS and COND SETATTR on a counter as well.
ASSUME InitiatorAssumption ==
    \A r \in Requests :
        /\ r.cmd \notin {"CAS", "FA"} => r.name \in Plain
        /\ \A i \in DOMAIN r.rest : r.rest[i].name \in Counters \cup Plain \cup {"READ_ONLY"}

ASSUME ListAssumption ==
    /\ DataPids \subseteq IdLB .. MaxPid
    /\ ListLens \subseteq Nat /\ AttrLens \subseteq Nat /\ QueryLens \subseteq Nat
    /\ MemberLists \subseteq Seq(Entries)
    /\ NameLists \subseteq Seq(Attrs) \ {<<>>}
    /\ \A q \in Criteria : q.list \in Seq(QueryEntries)

VARIABLES
    walk    \* the walk in progress, or the last one

mvars == <<avars, walk>>

\* A list of ids has a header of 24 bytes and 8 bytes per id; one with
\* attributes has a header of 16 bytes per object and an entry per attribute.
ListHeader == 24
IdSize     == 8
OdeHeader  == 16
LE_MIN_ITEM_LEN == 16

Lowest(S) == CHOOSE i \in S : \A j \in S : i <= j
Rank(i, S) == Cardinality({j \in S : j < i})

\* A command that only looks: what came back is in the reply.
looked(rep) ==
    /\ sense' = rep.ret
    /\ reply' = rep
    /\ UNCHANGED <<tables, disk, root, ic, val, op>>

\* Nothing came back.
declined(req, ret) == looked([req |-> req, ret |-> ret]) /\ UNCHANGED ccap

-----------------------------------------------------------------------------
(* LIST and LIST COLLECTION without attributes *)

obj_get_all_pids == {p \in Pid : obj[p][PARTITION_OID] = "PARTITION"}

obj_get_oids_in_pid(p) == {o \in Oid : obj[p][o] = "USEROBJECT"}

obj_get_cids_in_pid(p) == {o \in Oid : obj[p][o] = "COLLECTION"}

\* What a list is about: partitions, user objects, collections, or members.
listed(kind, p, c) ==
    CASE kind = "LIST" /\ p = 0            -> obj_get_all_pids
      [] kind = "LIST" /\ p # 0            -> obj_get_oids_in_pid(p)
      [] kind = "LIST_COLLECTION" /\ c = 0 -> obj_get_cids_in_pid(p)
      [] OTHER                             -> coll_members(p, c)

MutContinueAfter(ids, initial, room) ==
    LET rows == {i \in ids : i >= initial}
        page == {i \in rows : Rank(i, rows) < room \div IdSize}
    IN  [ids  |-> page,
         cont |-> IF rows = page THEN 0 ELSE Lowest(rows \ page) + 1,
         more |-> IdSize * Cardinality(rows) + 16]

\* As many of the ids from initial on as there is room for, the first one that
\* is left out, and the length of all.
db_exec_id_rtrvl_stmt(ids, initial, room) ==
    LET rows == {i \in ids : i >= initial}
        page == {i \in rows : Rank(i, rows) < room \div IdSize}
    IN  [ids  |-> page,
         cont |-> IF rows = page THEN 0 ELSE Lowest(rows \ page),
         more |-> IdSize * Cardinality(rows) + 16]

\* With a list id the continuation starts over: cont_id is still 0.
start_at(initial, list_id) == IF list_id # 0 THEN 0 ELSE initial

page_of(kind, p, c, initial, list_id, alloc) ==
    db_exec_id_rtrvl_stmt(listed(kind, p, c), start_at(initial, list_id), alloc - ListHeader)

list_ccap(kind, p) == IF kind = "LIST" THEN fill_ccap("PARTITION", p, PARTITION_OID)
                                       ELSE fill_ccap("COLLECTION", p, IdLB)

\* With no allocation length a reply has a buffer only if attributes are to be
\* retrieved too; the assertion on it comes first.
unbuffered(req, alloc) ==
    /\ alloc = 0
    /\ \/ declined(req, "OSD_OK")
       \/ osd_open /\ vals_kept /\ answer(req, "DIED", NoVal)

\* Neither command looks whether the partition or the collection exists.
osd_list(kind, p, c, initial, list_id, alloc) ==
    LET req == [cmd |-> kind, initial |-> start_at(initial, list_id), alloc |-> alloc]
    IN  \/ unbuffered(req, alloc)
        \/ alloc \in 1 .. ListHeader - 1 /\ declined(req, "ILLEGAL_REQUEST")
        \/ alloc >= ListHeader /\ DbMayFail /\ declined(req, "HARDWARE_ERROR")
        \/ /\ alloc >= ListHeader
           /\ looked([req |-> req, ret |-> "OSD_OK",
                       page |-> page_of(kind, p, c, initial, list_id, alloc)])
           /\ list_ccap(kind, p)

-----------------------------------------------------------------------------
(* LIST with attributes *)

\* The size of an entry: 10 bytes and the value, rounded up.
entry_len(v) == IF v = NoVal THEN 16 ELSE IF v = Long THEN 32 ELSE 24

Ode(o) == [part |-> "object", oid |-> o]

\* The row of the timestamps page stands for the object.
put_object(s, p, o) ==
    IF <<p, o, Tmstmp>> \notin attr \/ obj[p][o] # "USEROBJECT" THEN s
    ELSE IF s.room >= OdeHeader
    THEN [s EXCEPT !.out = Append(@, Ode(o)), !.room = @ - OdeHeader]
    ELSE [s EXCEPT !.cont = IF @ = 0 THEN o ELSE @]

MutStopEarly(s, p, o, a) ==
    LET v == attr_get_val(<<p, o, a>>)
        full == s.room >= entry_len(v)
        left == IF full THEN s.room - entry_len(v) ELSE 0
        cont == IF s.cont = 0 THEN o ELSE s.cont
    IN  IF <<p, o, a>> \notin attr \/ obj[p][o] # "USEROBJECT" THEN s
        ELSE IF s.room >= LE_MIN_ITEM_LEN
        THEN [out  |-> Append(s.out, [part |-> "attr", oid |-> o, name |-> a, full |-> full]),
              room |-> left,
              cont |-> IF left < OdeHeader + entry_len(v) THEN cont ELSE s.cont]
        ELSE [s EXCEPT !.cont = IF s.out = <<>> THEN @ ELSE cont]

\* le_pack_attr cuts a value that does not fit.
put_attr(s, p, o, a) ==
    LET v == attr_get_val(<<p, o, a>>)
        full == s.room >= entry_len(v)
        left == IF full THEN s.room - entry_len(v) ELSE 0
        cont == IF s.cont = 0 THEN o ELSE s.cont
    IN  IF <<p, o, a>> \notin attr \/ obj[p][o] # "USEROBJECT" THEN s
        ELSE IF s.room >= LE_MIN_ITEM_LEN
        THEN [out  |-> Append(s.out, [part |-> "attr", oid |-> o, name |-> a, full |-> full]),
              room |-> left,
              cont |-> IF left < LE_MIN_ITEM_LEN THEN cont ELSE s.cont]
        ELSE [s EXCEPT !.cont = IF s.out = <<>> THEN @ ELSE cont]

put_row(s, p, o, a) == IF a = Tmstmp THEN put_object(s, p, o) ELSE put_attr(s, p, o, a)

MutObjectLast(s, p, o, names) ==
    LET upto[k \in 0 .. Len(names)] ==
          IF k = 0 THEN s ELSE put_row(upto[k - 1], p, o, names[k])
    IN  put_object(upto[Len(names)], p, o)

\* UNION ALL and ORDER BY put an object's rows together, those of the first
\* SELECT, for the object, first (external: SQLite merges the SELECTs in order).
put_rows(s, p, o, names) ==
    LET upto[k \in 0 .. Len(names)] ==
          IF k = 0 THEN put_object(s, p, o) ELSE put_row(upto[k - 1], p, o, names[k])
    IN  upto[Len(names)]

mtq_list_oids_attr(p, names, initial, room) ==
    LET upto[o \in -1 .. MaxOid] ==
          IF o < initial THEN [out |-> <<>>, room |-> room, cont |-> 0]
          ELSE put_rows(upto[o - 1], p, o, names)
    IN  upto[MaxOid]

Parts(s, part) == {i \in DOMAIN s.out : s.out[i].part = part}

\* Entries with no object before them end in the assertion of mtq.c:411, unless
\* they fill the buffer.
asserts(s) == /\ Parts(s, "attr") # {} /\ Parts(s, "object") = {}
              /\ s.room >= LE_MIN_ITEM_LEN

\* The room shrinks by multiples of 8: the first entry decides.
misaligned(s, room) == room % 8 # 0 /\ Parts(s, "attr") # {}

\* A list of partitions with attributes has no body.
osd_list_attr(p, names, initial, list_id, alloc) ==
    LET req == [cmd |-> "LIST_ATTR", pid |-> p, names |-> names,
                initial |-> start_at(initial, list_id), alloc |-> alloc]
        s == mtq_list_oids_attr(p, names, start_at(initial, list_id), alloc - ListHeader)
        bad == misaligned(s, alloc - ListHeader)
    IN  \/ unbuffered(req, alloc)
        \/ alloc \in 1 .. ListHeader - 1 /\ declined(req, "ILLEGAL_REQUEST")
        \/ /\ alloc >= ListHeader /\ p = 0
           /\ looked([req |-> req, ret |-> "OSD_OK", entries |-> <<>>, cont |-> 0])
           /\ list_ccap("LIST", p)
        \/ /\ alloc >= ListHeader /\ p # 0 /\ (bad \/ DbMayFail)
           /\ declined(req, "HARDWARE_ERROR")
        \/ /\ alloc >= ListHeader /\ p # 0 /\ ~bad /\ ~asserts(s)
           /\ looked([req |-> req, ret |-> "OSD_OK", entries |-> s.out, cont |-> s.cont])
           /\ list_ccap("LIST", p)
        \/ /\ alloc >= ListHeader /\ p # 0 /\ ~bad /\ asserts(s)
           /\ osd_open /\ vals_kept /\ answer(req, "DIED", NoVal)

\* Sort orders, the page format, attributes that do not go with list_attr, LIST
\* COLLECTION with list_attr, whose attribute list is never parsed, and list ids
\* (they lie where the length of a continuation is expected) with no proper
\* continuation are refused before anything is looked up.
list_refused(kind) ==
    declined([cmd |-> kind], "ILLEGAL_REQUEST")

-----------------------------------------------------------------------------
(* QUERY *)

MutMinExclusive(v, c) ==
    (c.min # NoVal => c.min < v) /\ (c.max # NoVal => v <= c.max)

\* Bounds are inclusive; a bound of length 0 is none.
within(v, c) == (c.min # NoVal => c.min <= v) /\ (c.max # NoVal => v <= c.max)

\* The members with one of the given rows.  The statement joins on the object id
\* alone: rows of any partition match.
query_select(p, c, rows) == {o \in coll_members(p, c) : \E k \in rows : k[2] = o}

\* One SELECT per criterion, joined by UNION or INTERSECT; one without
\* conditions when there is no criterion.
mtq_run_query(p, c, q) ==
    LET select(i) == query_select(p, c, {k \in attr : k[3] = q.list[i].name /\ within(val[k], q.list[i])})
    IN  IF q.list = <<>> THEN query_select(p, c, attr)
        ELSE {o \in Oid : IF q.type = 0 THEN \E i \in DOMAIN q.list : o \in select(i)
                                        ELSE \A i \in DOMAIN q.list : o \in select(i)}

\* Row r is stored if more than 8 bytes are left; the difference is unsigned.
stored(r, alloc) == alloc - 5 - 8 * r > 8 \/ alloc - 5 - 8 * r < 0

osd_query(p, c, q, alloc) ==
    LET req == [cmd |-> "QUERY", pid |-> p, cid |-> c, query |-> q, alloc |-> alloc]
        rows == mtq_run_query(p, c, q)
        absent == p < IdLB \/ ~obj_ispresent(p, c)
        bad_page == \E i \in DOMAIN q.list : q.list[i].name = "PARTITION_PG"
    IN  \/ (absent \/ DbMayFail \/ q.len < 8) /\ declined(req, "ILLEGAL_REQUEST")
        \/ ~absent /\ q.len >= 8 /\ alloc = 0 /\ declined(req, "OSD_OK")
        \/ /\ ~absent /\ q.len >= 8 /\ alloc > 0 /\ (alloc < 13 \/ bad_page)
           /\ declined(req, "ILLEGAL_REQUEST")
        \/ /\ ~absent /\ q.len >= 8 /\ alloc >= 13 /\ ~bad_page
           /\ q.type \notin {0, 1} \/ DbMayFail
           /\ declined(req, "HARDWARE_ERROR")
        \/ /\ ~absent /\ q.len >= 8 /\ alloc >= 13 /\ ~bad_page /\ q.type \in {0, 1}
           /\ looked([req |-> req, ret |-> "OSD_OK",
                       ids |-> {o \in rows : stored(Rank(o, rows), alloc)}])
           /\ fill_ccap("COLLECTION", p, c)

-----------------------------------------------------------------------------
(* SET MEMBER ATTRIBUTES *)

\* INSERT OR REPLACE ... SELECT pid, oid ... FROM coll WHERE cid = c: whatever
\* partition the membership is in.
member_rows(p, c, list) ==
    {<<p, r[3], list[i].name>> : r \in {x \in coll : x[2] = c}, i \in DOMAIN list}

\* One statement; a later entry replaces an earlier one.
mtq_set_member_attrs(p, c, list) ==
    LET rows == member_rows(p, c, list)
        last(a) == CHOOSE i \in DOMAIN list :
                     list[i].name = a /\ \A j \in DOMAIN list : list[j].name = a => j <= i
    IN  /\ attr' = attr \cup rows
        /\ val' = [k \in attr \cup rows |-> IF k \in rows THEN list[last(k[3])].value ELSE val[k]]

\* The transaction is committed on every path.
osd_set_member_attributes(p, c, list) ==
    LET req == [cmd |-> "SET", objs |-> {<<p, o>> : o \in coll_members(p, c)}, list |-> list]
        illegal == ~obj_ispresent(p, c) \/ get_obj_type(p, c) # "COLLECTION"
        unsettable == \E i \in DOMAIN list : list[i].name = "READ_ONLY"
    IN  \/ (illegal \/ DbMayFail) /\ declined(req, "ILLEGAL_REQUEST")
        \/ ~illegal /\ unsettable /\ declined(req, "PARAM_LIST")
        \/ ~illegal /\ ~unsettable /\ DbMayFail /\ declined(req, "HARDWARE_ERROR")
        \/ /\ ~illegal /\ ~unsettable
           /\ mtq_set_member_attrs(p, c, list)
           /\ fill_ccap("COLLECTION", p, c)
           /\ sense' = "OSD_OK"
           /\ reply' = [req |-> req, ret |-> "OSD_OK", out |-> NoVal]
           /\ UNCHANGED <<obj, coll, disk, root, ic, op>>

-----------------------------------------------------------------------------
(* Walks *)

NoWalk == [phase |-> "none"]

\* Objects that a walk has to report: those that stay from its beginning on.
\* With attributes, those whose attributes have been initialised.
to_report(w) ==
    IF w.kind = "LIST_ATTR"
    THEN {o \in obj_get_oids_in_pid(w.pid) : <<w.pid, o, Tmstmp>> \in attr}
    ELSE listed(w.kind, w.pid, w.cid)

\* While other commands run.
walk_goes_on ==
    \E w \in {walk} :
        walk' = IF w.phase = "none" THEN w ELSE [w EXCEPT !.must = @ \cap to_report(w)']

\* The objects a page reports in full.
reported(w) ==
    IF w.kind # "LIST_ATTR"
    THEN page_of(w.kind, w.pid, w.cid, w.next, 0, w.alloc).ids
    ELSE LET s == mtq_list_oids_attr(w.pid, w.names, w.next, w.alloc - ListHeader)
             on == {s.out[i] : i \in DOMAIN s.out}
             owed(o) == {n \in DOMAIN w.names :
                           w.names[n] # Tmstmp /\ <<w.pid, o, w.names[n]>> \in attr}
         IN  {o \in Oid : /\ Ode(o) \in on
                          /\ \A n \in owed(o) :
                               [part |-> "attr", oid |-> o, name |-> w.names[n], full |-> TRUE] \in on}

continuation(w) ==
    IF w.kind # "LIST_ATTR"
    THEN page_of(w.kind, w.pid, w.cid, w.next, 0, w.alloc).cont
    ELSE mtq_list_oids_attr(w.pid, w.names, w.next, w.alloc - ListHeader).cont

\* One page: an error is no progress, and a target that dies ends the walk.
walk_page(w) ==
    /\ IF w.kind = "LIST_ATTR" THEN osd_list_attr(w.pid, w.names, w.next, 0, w.alloc)
                               ELSE osd_list(w.kind, w.pid, w.cid, w.next, 0, w.alloc)
    /\ walk' = IF reply'.ret = "DIED" THEN NoWalk
               ELSE IF reply'.ret # "OSD_OK" THEN w
               ELSE [w EXCEPT !.seen  = @ \cup reported(w),
                              !.twice = @ \/ reported(w) \cap w.seen # {},
                              !.next  = continuation(w),
                              !.phase = IF continuation(w) = 0 THEN "over" ELSE "going"]

first_page(kind, p, c, names, alloc) ==
    LET w == [phase |-> "going", kind |-> kind, pid |-> p, cid |-> c, names |-> names, alloc |-> alloc,
              next |-> 0, must |-> {}, seen |-> {}, twice |-> FALSE]
    IN  walk_page([w EXCEPT !.must = to_report(w)])

next_page == walk.phase = "going" /\ walk_page(walk)

-----------------------------------------------------------------------------
MInit == AInit /\ walk = NoWalk

Other(A) == A /\ walk_goes_on

\* Initiators address REMOVE and REMOVE COLLECTION to what they are for.
CreateOrRemove(users, colls) ==
    \E p \in DataPids :
        \/ \E o \in users :
              \/ Other(StoreStep(osd_create(p, o, 1)))
              \/ Other(StoreStep(IsOf("USEROBJECT", p, o) /\ osd_remove(p, o)))
        \/ \E c \in colls :
              \/ Other(StoreStep(osd_create_collection(p, c)))
              \/ Other(StoreStep(IsOf("COLLECTION", p, c) /\ osd_remove_collection(p, c, 1)))

Partitions ==
    \E p \in IdLB .. MaxPid :
        \/ Other(StoreStep(osd_create_partition(p)))
        \/ Other(StoreStep(osd_remove_partition(p)))

Restart == Other(StoreStep(osd_open))

InitialiseAttrs(ids) ==
    \E p \in DataPids, o \in ids : Other(StoreStep(osd_getattr_list(p, o, "GETALLATTR_PG", FALSE)))

ChangePointer(users, colls) ==
    \E p \in DataPids, o \in users, c \in colls, n \in CollPtrs, form \in ValueForms :
        Other(StoreStep(/\ IsOf("COLLECTION", p, c)
                        /\ form = "NULL" => coll_get_cid(p, o, n) # {0}
                        /\ set_cap(p, o, n, c, form, FALSE)))

SetAttributes(ids, names, values) ==
    \E p \in DataPids, o \in ids, a \in names, v \in values :
        /\ a \in Counters => v \in {NoVal, Long}
        /\ Other(SetValue(p, o, a, v))

Atomic ==
    \E r \in Requests :
        \/ r.cmd \in {"CAS", "FA"} /\ Other(cdb_counter(r))
        \/ r.cmd \in {"GEN_CAS", "COND_SETATTR"} /\ Other(cdb_gen_cas(r))

Served == Other(InService)

\* What a list may be about: <<kind, partition, collection>>.
Subjects(colls) ==
    {<<"LIST", p, 0>> : p \in DataPids \cup {0}}
        \cup ({"LIST_COLLECTION"} \X DataPids \X (colls \cup {0}))

\* Walks, a request that names a list id, and one that is refused.
List(colls) ==
    /\ op.pc = "idle"
    /\ \/ \E s \in Subjects(colls), alloc \in ListLens :
            \/ alloc >= ListHeader /\ first_page(s[1], s[2], s[3], <<>>, alloc)
            \/ Other(osd_list(s[1], s[2], s[3], IdLB, 1, alloc))
       \/ \E kind \in {"LIST", "LIST_COLLECTION"} : Other(list_refused(kind))
       \/ next_page

ListAttr ==
    /\ op.pc = "idle"
    /\ \/ \E p \in DataPids \cup {0}, names \in NameLists, alloc \in AttrLens :
            \/ alloc >= ListHeader /\ first_page("LIST_ATTR", p, 0, names, alloc)
            \/ Other(osd_list_attr(p, names, IdLB, 1, alloc))
       \/ next_page

Query(colls) ==
    /\ op.pc = "idle"
    /\ \E p \in DataPids, c \in colls, q \in Criteria, alloc \in QueryLens : Other(osd_query(p, c, q, alloc))

SetMembers(colls) ==
    /\ op.pc = "idle"
    /\ \E p \in DataPids, c \in colls, l \in MemberLists : Other(osd_set_member_attributes(p, c, l))

\* Initiators that use the registers of objects, ...
RegisterNext(ids, values) ==
    \/ CreateOrRemove(ids, ids) \/ Partitions \/ Restart \/ InitialiseAttrs(ids)
    \/ SetAttributes(ids, Counters \cup Plain, values) \/ Atomic \/ Served

\* ... that list what there is, ...
ListNext(users, colls) ==
    CreateOrRemove(users, colls) \/ Partitions \/ ChangePointer(users, colls) \/ List(colls)

\* ... with attributes, ...
ListAttrNext(ids, names, values) ==
    \/ CreateOrRemove(ids, {}) \/ Partitions \/ InitialiseAttrs(ids)
    \/ SetAttributes(ids, names, values) \/ ListAttr

\* ... and that work on the members of collections.
MemberNext(users, colls, names, values) ==
    \/ CreateOrRemove(users, colls) \/ Partitions \/ ChangePointer(users, colls)
    \/ SetAttributes(users, names, values) \/ Query(colls) \/ SetMembers(colls)

MNext ==
    \/ RegisterNext(OidInput, Value) \/ ListNext(OidInput, OidInput)
    \/ ListAttrNext(OidInput, Plain, Value) \/ MemberNext(OidInput, OidInput, Plain, Value)

MSpec == MInit /\ [][MNext]_mvars

-----------------------------------------------------------------------------
(* Properties *)

\* A walk that goes on where the last page ended misses nothing and repeats
\* nothing: every partition, user object, collection or member that was there
\* from its start has been reported or is still ahead, whatever was created or
\* removed between its pages; with attributes, completely, if perhaps more than
\* once (db.c:367-427, mtq.c:303-399).
WalkComplete ==
    walk.phase # "none" =>
        /\ \A i \in walk.must : i \in walk.seen \/ (walk.phase = "going" /\ i >= walk.next)
        /\ walk.kind # "LIST_ATTR" => ~walk.twice

\* The longest entry that values of the model have.
MaxEntry == 32

\* A walk gets on: a page with room for one id, or for one object with all the
\* entries asked for and the smallest entry more, is the last one or sends the
\* initiator on to a later id.  With less, LIST with attributes gives the id of
\* the object it has just reported in full as its continuation, for ever
\* (mtq.c:372-377, db.c:393-413).
PagesAdvance ==
    [][LET r == reply'.req
           later(cont) == cont = 0 \/ cont > r.initial
       IN  /\ /\ r.cmd \in {"LIST", "LIST_COLLECTION"} /\ "page" \in DOMAIN reply'
              /\ r.alloc >= ListHeader + IdSize
              => later(reply'.page.cont)
           /\ /\ r.cmd = "LIST_ATTR" /\ "entries" \in DOMAIN reply'
              /\ r.alloc >= ListHeader + OdeHeader + MaxEntry * Len(r.names) + LE_MIN_ITEM_LEN
              => later(reply'.cont)]_mvars

\* In a list with attributes every entry follows the object it belongs to, or
\* another entry of that object, as long as no object of the partition has one of
\* the attributes without having been initialised (mtq.c:313-382).
AttrListSound ==
    [][LET r == reply'.req
           out == reply'.entries
       IN  /\ r.cmd = "LIST_ATTR" /\ "entries" \in DOMAIN reply'
           /\ \A o \in Oid, n \in DOMAIN r.names :
                <<r.pid, o, r.names[n]>> \in attr => <<r.pid, o, Tmstmp>> \in attr
           => \A i \in DOMAIN out : out[i].part = "attr" => i > 1 /\ out[i - 1].oid = out[i].oid]_mvars

\* What a criterion says of one object of partition p.
Satisfies(p, o, c) ==
    LET v == val[<<p, o, c.name>>]
    IN  <<p, o, c.name>> \in attr /\ (c.min = NoVal \/ v >= c.min) /\ (c.max = NoVal \/ v <= c.max)

\* A QUERY with criteria answers with the members whose own attributes satisfy
\* some of them, or all: the first ones, one for every 8 bytes that the room
\* behind the header begins with.  The last of them may reach up to 7 bytes
\* beyond the allocation length.  Excluded are rows that another partition has
\* for the same ids, and so many members that the count of the bytes left wraps
\* (mtq.c:94-97, 155-178).
QueryAnswers ==
    [][LET r == reply'.req
           chosen == {o \in coll_members(r.pid, r.cid) :
                        IF r.query.type = 0
                        THEN \E i \in DOMAIN r.query.list : Satisfies(r.pid, o, r.query.list[i])
                        ELSE \A i \in DOMAIN r.query.list : Satisfies(r.pid, o, r.query.list[i])}
           room == (r.alloc - 13 + 7) \div 8
       IN  /\ r.cmd = "QUERY" /\ "ids" \in DOMAIN reply'
           /\ r.query.list # <<>>
           /\ \A k \in attr : k[1] = r.pid \/ k[2] \notin coll_members(r.pid, r.cid)
           /\ 8 * Cardinality(chosen) <= r.alloc + 3
           => reply'.ids = {o \in chosen : Rank(o, chosen) < room}]_mvars

\* What mtq.c:429 says of SET MEMBER ATTRIBUTES: "set attributes on members of
\* the give collection", and so on nothing else.
MemberAttrsOnly ==
    [][reply'.req.cmd = "SET" =>
        \A k \in attr' : k \notin attr \/ val'[k] # val[k] => <<k[1], k[2]>> \in reply'.req.objs]_mvars

=============================================================================
