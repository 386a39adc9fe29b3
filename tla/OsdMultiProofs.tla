--------------------------- MODULE OsdMultiProofs ---------------------------
(***************************************************************************)
(* Proofs about the commands that carry values and about those that concern    *)
(* many objects, for every value of the constants: any requests, any query and *)
(* attribute lists, any buffer lengths, with and without faults.               *)
(***************************************************************************)
EXTENDS OsdMulti, OsdStoreProofs, Iteration, FiniteSetTheorems, SequenceTheorems

-----------------------------------------------------------------------------
(* The inductive invariant                                                    *)

Rows == Pid \X Oid \X Attrs

\* Every row of table attr has a value.
ValOK == val \in [attr -> Value]

\* The command in service has passed its checks, carries a list of entries, and
\* remembers a table to go back to only inside its transaction.
OpOK ==
    \/ op = NoOp
    \/ /\ op = [pc |-> op.pc, req |-> op.req, old |-> op.old, todo |-> op.todo, saved |-> op.saved]
       /\ op.pc \in {"init", "swap", "gswap", "set"}
       /\ op.req \in Requests /\ op.old \in Value /\ op.todo \in Seq(Entries)
       /\ op.pc \in {"init", "swap"} => op.old \in NoVal .. Word - 1
       /\ op.saved # {} => op.pc = "set" /\ op.todo # <<>>
       /\ \A s \in op.saved : s.attr \subseteq Rows /\ s.val \in [s.attr -> Value]

\* Id 0 is that of partitions and of the root: nothing else a list reports has
\* it, so that 0 can stand for "no continuation".
ZeroFree ==
    /\ \A p \in Pid : obj[p][0] \notin {"USEROBJECT", "COLLECTION"}
    /\ obj[0][0] # "PARTITION"
    /\ \A r \in coll : r[3] # 0
    /\ ic.cur_pid # 0 => ic.next_id > 0

\* A walk without attributes: what it has seen lies below the next page, and
\* what it still owes lies ahead of it.
PlainWalk(w) ==
    /\ w.kind \in {"LIST", "LIST_COLLECTION"}
    /\ w.cid \in Oid /\ w.alloc \in Nat /\ w.alloc >= ListHeader
    /\ w.next \in Nat /\ w.seen \subseteq Nat /\ w.twice = FALSE
    /\ w.must \subseteq listed(w.kind, w.pid, w.cid)
    /\ \A i \in w.must : i \in w.seen \/ (w.phase = "going" /\ i >= w.next)
    /\ w.phase = "going" => \A i \in w.seen : i < w.next

\* A user object whose attributes have been initialised.
Started(p, o) == <<p, o, Tmstmp>> \in attr /\ obj[p][o] = "USEROBJECT"

\* A walk with attributes: what it owes is still there, and has been seen or lies
\* ahead.
AttrWalk(w) ==
    /\ w.alloc \in Int /\ w.next \in Nat /\ w.names \in Seq(Attrs)
    /\ \A i \in w.must : /\ i \in Oid /\ Started(w.pid, i)
                         /\ i \in w.seen \/ (w.phase = "going" /\ i >= w.next)

WalkShape(w) ==
    /\ w = [phase |-> w.phase, kind |-> w.kind, pid |-> w.pid, cid |-> w.cid, names |-> w.names,
            alloc |-> w.alloc, next |-> w.next, must |-> w.must, seen |-> w.seen, twice |-> w.twice]
    /\ w.phase \in {"going", "over"} /\ w.pid \in Pid
    /\ w.kind # "LIST_ATTR" => PlainWalk(w)
    /\ w.kind = "LIST_ATTR" => AttrWalk(w)

WalkOK == walk = NoWalk \/ WalkShape(walk)

MultiInv == TypeOK /\ ValOK /\ OpOK /\ ZeroFree /\ WalkOK

-----------------------------------------------------------------------------
(* Commands of the object store                                               *)

\* What the initiators of MNext ask of the object store.
Namespace ==
    \/ \E p \in Pid, o \in Oid :
         \/ osd_create(p, o, 1) \/ osd_create_collection(p, o)
         \/ osd_remove(p, o) \/ osd_remove_collection(p, o, 1)
         \/ osd_getattr_list(p, o, "GETALLATTR_PG", FALSE)
    \/ \E p \in Pid : osd_create_partition(p) \/ osd_remove_partition(p)
    \/ \E p \in Pid, o, c \in Oid, n \in CollPtrs, form \in ValueForms : set_cap(p, o, n, c, form, FALSE)
    \/ osd_open

LEMMA NamespaceType == ASSUME TypeOK, Namespace PROVE TypeOK'
BY CreateType, CreateCollectionType, RemoveType, RemoveCollectionType, GetAttrType,
   CreatePartitionType, RemovePartitionType, SetCapType, OpenType DEF Namespace

\* Nothing that ZeroFree is about changes, or only gets less.
LEMMA Fewer ==
    ASSUME TypeOK, ZeroFree,
           \/ obj' = obj
           \/ \E p \in Pid, o \in Oid : obj' = obj_delete(p, o),
           coll' \subseteq coll,
           ic' = ic \/ ic' = NoCache
    PROVE  ZeroFree'
<1>1. \A p \in Pid, o \in Oid : obj'[p][o] = obj[p][o] \/ obj'[p][o] = "ILLEGAL_OBJ"
  BY DeleteRow DEF TypeOK
<1>2. 0 \in Pid /\ 0 \in Oid
  BY Inputs
<1> QED
  BY <1>1, <1>2 DEF ZeroFree, NoCache

LEMMA RejectedZero ==
    ASSUME TypeOK, ZeroFree, NEW s, Rejected(s) PROVE ZeroFree'
BY Fewer DEF Rejected, tables

\* The ids that a creating command uses are not 0.
LEMMA ChosenNotZero ==
    ASSUME TypeOK, ZeroFree, NEW p \in Pid, NEW r \in Oid, NEW id \in Oid,
           ~bad_target(p, r), chosen_id(p, r, id)
    PROVE  p # 0 /\ id > 0
<1>1. p \in Nat /\ id \in Nat /\ r \in Nat /\ IdLB \in Nat /\ IdLB > 1 /\ p >= IdLB
  BY Inputs DEF bad_target
<1>2. CASE r # 0
  BY <1>1, <1>2 DEF bad_target, chosen_id
<1>3. CASE r = 0
  <2>1. alloc_id(p, id)
    BY <1>3 DEF chosen_id
  <2>2. CASE id = IdLB
    BY <1>1, <2>2
  <2>3. CASE proposed_id(p, id) /\ ic.cur_pid = p
    BY <1>1, <2>3 DEF proposed_id, ZeroFree
  <2>4. CASE proposed_id(p, id) /\ ic.cur_pid # p
    BY <1>1, <2>4 DEF proposed_id, obj_get_nextoid, Oid
  <2> QED
    BY <2>1, <2>2, <2>3, <2>4 DEF alloc_id
<1> QED
  BY <1>1, <1>2, <1>3

\* A row that is not row 0 is inserted, and the cache is ahead of it.
LEMMA InsertZero ==
    ASSUME TypeOK, ZeroFree, NEW p \in Pid, NEW id \in Oid, id > 0, NEW type \in RowType, NEW r,
           obj' = obj_insert(p, id, 1, type) \/ obj' = obj,
           coll' \subseteq coll,
           ic' = ic_after(p, r, id, 1)
    PROVE  ZeroFree'
<1>1. 0 \in Pid /\ 0 \in Oid /\ id \in Nat
  BY Inputs
<1>2. 0 \notin id .. id + 1 - 1
  BY <1>1
<1>3. \A q \in Pid : obj'[q][0] = obj[q][0]
  BY <1>1, <1>2, InsertRows DEF TypeOK
<1>4. ic'.cur_pid # 0 => ic'.next_id > 0
  BY <1>1 DEF ic_after, NoCache
<1> QED
  BY <1>1, <1>3, <1>4 DEF ZeroFree

LEMMA CreateZero ==
    ASSUME TypeOK, ZeroFree, NEW p \in Pid, NEW r \in Oid, osd_create(p, r, 1)
    PROVE  ZeroFree'
<1>1. CASE Rejected("ILLEGAL_REQUEST")
  BY <1>1, RejectedZero
<1>2. CASE nextoid_failed(p, r)
  BY <1>2, Fewer DEF nextoid_failed, tables
<1>3. ASSUME NEW id \in Oid, ~bad_target(p, r), chosen_id(p, r, id), create_objects(p, r, id, 1)
      PROVE  ZeroFree'
  <2>1. "USEROBJECT" \in RowType
    BY DEF RowType, ObjType
  <2> QED
    BY <1>3, <2>1, ChosenNotZero, InsertZero DEF create_objects
<1>4. ASSUME NEW id \in Oid, ~bad_target(p, r), chosen_id(p, r, id), id + 1 - 1 \in Oid,
             NEW bad \in id .. id + 1 - 1, create_undone(p, id, 1, bad)
      PROVE  ZeroFree'
  <2>1. bad = id /\ id # 0 /\ 0 \in Oid /\ 0 \in Pid
    BY <1>4, ChosenNotZero, Inputs
  <2>2. /\ coll' \subseteq coll /\ ic' = NoCache
        /\ \A q \in Pid, o \in Oid : o \notin id .. bad => obj'[q][o] = obj[q][o]
    BY <1>4, UndoneEffect
  <2>3. \A q \in Pid : obj'[q][0] = obj[q][0]
    <3>1. 0 \notin id .. bad
      BY <2>1, Inputs
    <3> QED
      BY <2>1, <2>2, <3>1
  <2> QED
    BY <2>1, <2>2, <2>3 DEF ZeroFree, NoCache
<1> QED
  BY <1>1, <1>2, <1>3, <1>4 DEF osd_create

LEMMA CreateCollectionZero ==
    ASSUME TypeOK, ZeroFree, NEW p \in Pid, NEW r \in Oid, osd_create_collection(p, r)
    PROVE  ZeroFree'
<1>1. CASE Rejected("ILLEGAL_REQUEST")
  BY <1>1, RejectedZero
<1>2. CASE nextoid_failed(p, r)
  BY <1>2, Fewer DEF nextoid_failed, tables
<1>3. ASSUME NEW id \in Oid, ~bad_target(p, r), chosen_id(p, r, id),
             insert_collection(p, r, id), UNCHANGED coll
      PROVE  ZeroFree'
  <2>1. "COLLECTION" \in RowType
    BY DEF RowType, ObjType
  <2> QED
    BY <1>3, <2>1, ChosenNotZero, InsertZero DEF insert_collection
<1> QED
  BY <1>1, <1>2, <1>3 DEF osd_create_collection

LEMMA CreatePartitionZero ==
    ASSUME TypeOK, ZeroFree, NEW r \in Pid, osd_create_partition(r)
    PROVE  ZeroFree'
<1>1. CASE Rejected("ILLEGAL_REQUEST") \/ Rejected("HARDWARE_ERROR")
  BY <1>1, RejectedZero
<1>2. ASSUME NEW p \in Pid, p # 0, obj' = obj_insert(p, PARTITION_OID, 1, "PARTITION"),
             UNCHANGED <<coll, ic>>
      PROVE  ZeroFree'
  <2>1. 0 \in Pid /\ 0 \in Oid /\ "PARTITION" \in RowType
    BY Inputs DEF RowType, ObjType
  <2>2. \A q \in Pid : obj'[q][0] = IF q = p /\ 0 \in PARTITION_OID .. PARTITION_OID + 1 - 1
                                    THEN "PARTITION" ELSE obj[q][0]
    BY <1>2, <2>1, InsertRows DEF TypeOK
  <2> QED
    BY <1>2, <2>1, <2>2 DEF ZeroFree
<1>3. ASSUME NEW p \in Pid,
             r = 0 \/ r >= IdLB,
             IF r # 0 THEN p = r ELSE \/ obj_get_nextpid(1) /\ p = IdLB
                                      \/ obj_get_nextpid(p) /\ p # 1
      PROVE  p # 0
  BY <1>3, Inputs DEF obj_get_nextpid, Pid
<1> QED
  BY <1>1, <1>2, <1>3 DEF osd_create_partition

LEMMA SetCapZero ==
    ASSUME TypeOK, ZeroFree, NEW p \in Pid, NEW o \in Oid, NEW c \in Oid, NEW n, NEW len, NEW e,
           set_cap(p, o, n, c, len, e)
    PROVE  ZeroFree'
<1>1. CASE Rejected("ILLEGAL_REQUEST") \/ Rejected("PARAM_LIST")
  BY <1>1, RejectedZero
<1>2. CASE coll' \subseteq coll /\ UNCHANGED <<obj, ic>>
  BY <1>2, Fewer
<1>3. CASE /\ ~absent_object(p, o) /\ get_obj_type(p, o) = "USEROBJECT"
           /\ coll' = coll_insert(p, c, {o}, n) /\ UNCHANGED <<obj, ic>>
  <2>1. o # 0
    BY <1>3, Inputs DEF get_obj_type
  <2>2. \A x \in coll' : x \in coll \/ x = <<p, c, o, n>>
    BY <1>3 DEF coll_insert
  <2> QED
    BY <1>3, <2>1, <2>2, SMTT(30) DEF ZeroFree
<1> QED
  BY <1>1, <1>2, <1>3 DEF set_cap

LEMMA NamespaceZero == ASSUME TypeOK, ZeroFree, Namespace PROVE ZeroFree'
<1>1. ASSUME NEW p \in Pid, NEW o \in Oid, osd_remove(p, o) PROVE ZeroFree'
  <2>1. CASE Rejected("ILLEGAL_REQUEST")
    BY <2>1, RejectedZero
  <2>2. CASE /\ ic' = NoCache
             /\ coll' \subseteq coll
             /\ (obj' = obj_delete(p, o) \/ obj' = obj)
    BY <2>2, Fewer
  <2> QED
    BY <1>1, <2>1, <2>2 DEF osd_remove, coll_delete_oid
<1>2. ASSUME NEW p \in Pid, NEW o \in Oid, osd_remove_collection(p, o, 1) PROVE ZeroFree'
  <2>1. CASE Rejected("ILLEGAL_REQUEST")
    BY <2>1, RejectedZero
  <2>2. CASE /\ ic' = NoCache
             /\ coll' \subseteq coll
             /\ (obj' = obj_delete(p, o) \/ obj' = obj)
    BY <2>2, Fewer
  <2> QED
    BY <1>2, <2>1, <2>2 DEF osd_remove_collection, coll_delete_cid, tables
<1>3. ASSUME NEW p \in Pid, osd_remove_partition(p) PROVE ZeroFree'
  <2>1. CASE Rejected("ILLEGAL_REQUEST") \/ Rejected("NOT_EMPTY")
    BY <2>1, RejectedZero
  <2>2. CASE /\ ic' = NoCache
             /\ coll' \subseteq coll
             /\ (obj' = obj_delete(p, PARTITION_OID) \/ obj' = obj)
    BY <2>2, Fewer, Inputs DEF PARTITION_OID
  <2> QED
    BY <1>3, <2>1, <2>2 DEF osd_remove_partition
<1>4. ASSUME NEW p \in Pid, NEW o \in Oid, NEW page, NEW e, osd_getattr_list(p, o, page, e) PROVE ZeroFree'
  <2>1. CASE get_refused(p, o, page)
    BY <2>1, RejectedZero DEF get_refused
  <2> QED
    BY <1>4, <2>1, Fewer DEF osd_getattr_list
<1>5. ASSUME osd_open PROVE ZeroFree'
  <2>1. CASE fresh_tables /\ ic' = NoCache
    BY <2>1, FreshRows, Inputs DEF fresh_tables, ZeroFree, NoCache
  <2> QED
    BY <1>5, <2>1, Fewer DEF osd_open, restarted, tables
<1> QED
  BY <1>1, <1>2, <1>3, <1>4, <1>5, CreateZero, CreateCollectionZero, CreatePartitionZero, SetCapZero
  DEF Namespace

-----------------------------------------------------------------------------
(* Values, and the command in service                                         *)

LEMMA Values ==
    /\ Word \in Nat /\ Word > 0 /\ NoVal = -1 /\ Long = Word
    /\ Value = -1 .. Word /\ 0 \in Value /\ NoVal \in Value /\ PageName \in Value
BY AttrAssumption DEF NoVal, Long, Value, PageName

Core == TypeOK /\ ValOK /\ OpOK /\ ZeroFree

LEMMA ValsKept == ASSUME ValOK, vals_kept PROVE ValOK'
BY Values DEF ValOK, vals_kept

LEMMA ValueSet ==
    ASSUME ValOK, NEW p, NEW o, NEW a, NEW v \in Value, NEW e, set_value(p, o, a, v, e)
    PROVE  ValOK'
BY Values DEF ValOK, set_value

LEMMA RowSet ==
    ASSUME TypeOK, ValOK, NEW k \in Rows, NEW v \in Value, attr_set_attr(k, v)
    PROVE  attr' \subseteq Rows /\ ValOK'
BY DEF TypeOK, ValOK, Rows, attr_set_attr

LEMMA RowDeleted ==
    ASSUME TypeOK, ValOK, NEW k, attr_delete_attr(k)
    PROVE  attr' \subseteq Rows /\ ValOK'
BY DEF TypeOK, ValOK, Rows, attr_delete_attr

\* The row an atomic command is about.
LEMMA RequestRow ==
    ASSUME NEW r \in Requests
    PROVE  /\ row(r) \in Rows /\ r.obj[1] \in Pid /\ r.obj[2] \in Oid
           /\ r.swap \in Value /\ r.rest \in Seq(Entries)
<1>1. r.obj \in Pid \X Oid /\ r.name \in Attrs
  BY RequestAssumption
<1>2. r.obj[1] \in Pid /\ r.obj[2] \in Oid
  BY <1>1
<1> QED
  BY <1>1, <1>2, RequestAssumption DEF row, Rows

LEMMA AnswerOp == ASSUME NEW req, NEW ret, NEW out, answer(req, ret, out) PROVE OpOK'
BY DEF answer, OpOK

\* The store, and what ZeroFree is about, in a statement on table attr.
LEMMA AttrStatement ==
    ASSUME TypeOK, ZeroFree, attr' \subseteq Rows, sense' \in Sense,
           UNCHANGED <<obj, coll, disk, root, ic, ccap>>
    PROVE  TypeOK' /\ ZeroFree'
<1>1. TypeOK'
  BY DEF TypeOK, Rows, disk
<1>2. ZeroFree'
  BY DEF ZeroFree
<1> QED
  BY <1>1, <1>2

LEMMA GiveUp ==
    ASSUME Core, NEW req, NEW ret \in Sense, give_up(req, ret) PROVE Core'
<1>1. attr' \subseteq Rows
  BY DEF give_up, tables, Core, TypeOK, Rows
<1>2. OpOK' /\ ValOK'
  BY AnswerOp DEF give_up, tables, Core, ValOK
<1> QED
  BY <1>1, <1>2, AttrStatement DEF give_up, tables, Core

LEMMA StatementOnly ==
    ASSUME Core, statement_only, attr' \subseteq Rows, ValOK', OpOK' PROVE Core'
<1>1. "OSD_OK" \in Sense
  BY DEF Sense
<1> QED
  BY <1>1, AttrStatement DEF statement_only, Core

LEMMA GotoOp ==
    ASSUME NEW pc \in {"init", "swap", "gswap", "set"}, NEW r \in Requests, NEW old \in Value,
           NEW todo \in Seq(Entries), goto(pc, r, old, todo),
           pc \in {"init", "swap"} => old \in NoVal .. Word - 1
    PROVE  OpOK'
<1> DEFINE new == [pc |-> pc, req |-> r, old |-> old, todo |-> todo, saved |-> {}]
<1>1. op' = new
  BY DEF goto
<1>2. op'.pc = pc /\ op'.req = r /\ op'.old = old /\ op'.todo = todo /\ op'.saved = {}
  BY <1>1
<1> HIDE DEF new
<1>3. op' = [pc |-> op'.pc, req |-> op'.req, old |-> op'.old, todo |-> op'.todo, saved |-> op'.saved]
  BY <1>1, <1>2 DEF new
<1> QED
  BY <1>2, <1>3 DEF OpOK

\* The command that is in service is a record.
LEMMA InServiceOp ==
    ASSUME OpOK, op.pc # "idle"
    PROVE  /\ op = [pc |-> op.pc, req |-> op.req, old |-> op.old, todo |-> op.todo, saved |-> op.saved]
           /\ op.pc \in {"init", "swap", "gswap", "set"}
           /\ op.req \in Requests /\ op.old \in Value /\ op.todo \in Seq(Entries)
           /\ op.pc \in {"init", "swap"} => op.old \in NoVal .. Word - 1
           /\ op.saved # {} => op.pc = "set" /\ op.todo # <<>>
           /\ \A s \in op.saved : s.attr \subseteq Rows /\ s.val \in [s.attr -> Value]
BY DEF OpOK, NoOp

LEMMA ReadValue ==
    ASSUME Core, NEW r \in Requests, NEW buflen, NEW first, read_value(r, buflen, first),
           \A b \in BOOLEAN : first[b] \in {"init", "swap", "gswap"},
           buflen # 8 => \A b \in BOOLEAN : first[b] = "gswap"
    PROVE  Core'
<1> DEFINE got == attr_get_val(row(r))
<1>1. CASE give_up(r, "ILLEGAL_REQUEST") \/ give_up(r, "HARDWARE_ERROR")
  BY <1>1, GiveUp DEF Sense
<1>2. CASE /\ ~(got = Long /\ buflen = 8)
           /\ goto(first[got = NoVal], r, got, r.rest)
           /\ statement_only /\ UNCHANGED <<attr, val>>
  <2>1. got \in Value
    BY Values DEF attr_get_val, Core, ValOK
  <2>2. (got = NoVal) \in BOOLEAN
    OBVIOUS
  <2> HIDE DEF got
  <2>3. first[got = NoVal] \in {"init", "swap", "gswap"}
    BY <2>2
  <2>4. first[got = NoVal] \in {"init", "swap"} => got \in NoVal .. Word - 1
    <3> SUFFICES ASSUME first[got = NoVal] \in {"init", "swap"} PROVE got \in NoVal .. Word - 1
      OBVIOUS
    <3>1. buflen = 8
      BY <2>2
    <3> QED
      BY <3>1, <1>2, <2>1, Values
  <2>5. OpOK'
    BY <1>2, <2>1, <2>3, <2>4, RequestRow, GotoOp
  <2>6. attr' \subseteq Rows /\ ValOK'
    BY <1>2 DEF Core, TypeOK, Rows, ValOK
  <2> QED
    BY <1>2, <2>5, <2>6, StatementOnly
<1> QED
  BY <1>1, <1>2 DEF read_value

LEMMA CounterBegins ==
    ASSUME Core, NEW r \in Requests, cdb_counter(r) PROVE Core'
<1>1. CASE give_up(r, "ILLEGAL_REQUEST")
  BY <1>1, GiveUp DEF Sense
<1>2. CASE read_value(r, 8, [missing \in BOOLEAN |-> IF missing THEN "init" ELSE "swap"])
  BY <1>2, ReadValue
<1> QED
  BY <1>1, <1>2 DEF cdb_counter

\* The process is opened again: what is on disk stays.
LEMMA Reopened ==
    ASSUME Core, NEW r, osd_open, vals_kept, answer(r, "DIED", NoVal) PROVE Core'
<1>1. Namespace
  BY DEF Namespace
<1> QED
  BY <1>1, NamespaceType, NamespaceZero, ValsKept, AnswerOp DEF Core

LEMMA GenCasBegins ==
    ASSUME Core, NEW r \in Requests, cdb_gen_cas(r) PROVE Core'
<1>1. CASE give_up(r, "ILLEGAL_REQUEST")
  BY <1>1, GiveUp DEF Sense
<1>2. CASE osd_open /\ vals_kept /\ answer(r, "DIED", NoVal)
  BY <1>2, Reopened
<1>3. CASE read_value(r, 65534, [missing \in BOOLEAN |-> "gswap"])
  BY <1>3, ReadValue
<1> QED
  BY <1>1, <1>2, <1>3 DEF cdb_gen_cas

LEMMA CounterInitialised == ASSUME Core, init_counter PROVE Core'
<1>1. op.pc = "init" /\ op.req \in Requests /\ op.todo \in Seq(Entries)
  BY InServiceOp DEF init_counter, Core
<1>2. CASE give_up(op.req, "HARDWARE_ERROR")
  BY <1>2, GiveUp DEF Sense
<1>3. CASE zero_counter(op.req) /\ goto("swap", op.req, 0, op.todo) /\ statement_only
  <2>1. 0 \in NoVal .. Word - 1
    BY Values
  <2>2. OpOK'
    BY <1>1, <1>3, <2>1, Values, GotoOp
  <2>3. attr' \subseteq Rows /\ ValOK'
    BY <1>1, <1>3, Values, RequestRow, RowSet DEF zero_counter, Core
  <2> QED
    BY <1>3, <2>2, <2>3, StatementOnly
<1> QED
  BY <1>2, <1>3 DEF init_counter

LEMMA CounterSwapped == ASSUME Core, swap_counter PROVE Core'
<1>1. /\ op.pc = "swap" /\ op.req \in Requests /\ op.todo \in Seq(Entries)
      /\ op.old \in Value /\ op.old \in NoVal .. Word - 1
  BY InServiceOp DEF swap_counter, Core
<1>2. CASE give_up(op.req, "HARDWARE_ERROR")
  BY <1>2, GiveUp DEF Sense
<1>3. CASE /\ IF op.req.cmd = "CAS" THEN osd_cas(op.req, op.old) ELSE osd_fa(op.req, op.old)
           /\ goto("set", op.req, op.old, op.todo)
           /\ statement_only
  <2>1. OpOK'
    BY <1>1, <1>3, GotoOp
  <2>2. (op.old + op.req.add) % Word \in Value
    <3>1. op.old \in Int /\ op.req.add \in Int
      BY <1>1, Values, RequestAssumption
    <3> QED
      BY <3>1, Values
  <2>3. attr' \subseteq Rows /\ ValOK'
    <3>1. CASE UNCHANGED <<attr, val>>
      BY <3>1 DEF Core, TypeOK, Rows, ValOK
    <3>2. CASE attr_set_attr(row(op.req), op.req.swap)
      BY <1>1, <3>2, RequestRow, RowSet DEF Core
    <3>3. CASE attr_set_attr(row(op.req), (op.old + op.req.add) % Word)
      BY <1>1, <2>2, <3>3, RequestRow, RowSet DEF Core
    <3> QED
      BY <1>3, <3>1, <3>2, <3>3 DEF osd_cas, osd_fa
  <2> QED
    BY <1>3, <2>1, <2>3, StatementOnly
<1> QED
  BY <1>2, <1>3 DEF swap_counter

LEMMA GenCasExecuted == ASSUME Core, exec_gen_cas PROVE Core'
<1>1. op.pc = "gswap" /\ op.req \in Requests /\ op.old \in Value
  BY InServiceOp DEF exec_gen_cas, Core
<1>2. CASE give_up(op.req, "HARDWARE_ERROR")
  BY <1>2, GiveUp DEF Sense
<1>3. CASE /\ osd_gen_cas(op.req, op.old)
           /\ goto("set", op.req, op.old, others_to_set(op.req, op.old))
           /\ statement_only
  <2>1. others_to_set(op.req, op.old) \in Seq(Entries)
    BY <1>1, RequestRow DEF others_to_set
  <2>2. OpOK'
    BY <1>1, <1>3, <2>1, GotoOp
  <2>3. attr' \subseteq Rows /\ ValOK'
    <3>1. CASE UNCHANGED <<attr, val>>
      BY <3>1 DEF Core, TypeOK, Rows, ValOK
    <3>2. CASE attr_set_attr(row(op.req), op.req.swap)
      BY <1>1, <3>2, RequestRow, RowSet DEF Core
    <3>3. CASE attr_delete_attr(row(op.req))
      BY <3>3, RowDeleted DEF Core
    <3> QED
      BY <1>3, <3>1, <3>2, <3>3 DEF osd_gen_cas
  <2> QED
    BY <1>3, <2>2, <2>3, StatementOnly
<1> QED
  BY <1>2, <1>3 DEF exec_gen_cas

\* SET ATTRIBUTES, as a command and as a part of one.
LEMMA SetValueStore ==
    ASSUME TypeOK, ValOK, ZeroFree, NEW p \in Pid, NEW o \in Oid, NEW a, NEW v \in Value, NEW e,
           set_value(p, o, a, v, e)
    PROVE  TypeOK' /\ ValOK' /\ ZeroFree'
<1>1. osd_set_attributes(p, o, a, IF v = NoVal THEN "MISFIT" ELSE "VALUE", e)
  BY DEF set_value
<1>2. TypeOK'
  BY <1>1, SetAttributesType
<1>3. UNCHANGED <<obj, coll, ic>>
  BY <1>1 DEF osd_set_attributes, Rejected, tables
<1>4. ZeroFree'
  BY <1>3 DEF ZeroFree
<1> QED
  BY <1>2, <1>4, ValueSet

\* The entry that is next, and the rest.
LEMMA NextEntry ==
    ASSUME OpOK, op.pc = "set", op.todo # <<>>
    PROVE  Head(op.todo).value \in Value /\ Tail(op.todo) \in Seq(Entries)
<1>1. op.todo \in Seq(Entries)
  BY InServiceOp
<1>2. Head(op.todo) \in Entries /\ Tail(op.todo) \in Seq(Entries)
  BY <1>1
<1> QED
  BY <1>2 DEF Entries

LEMMA AttrListSet == ASSUME Core, set_attr_list PROVE Core'
<1>1. /\ op = [pc |-> op.pc, req |-> op.req, old |-> op.old, todo |-> op.todo, saved |-> op.saved]
      /\ op.pc = "set" /\ op.todo # <<>> /\ op.req \in Requests /\ op.old \in Value
      /\ \A s \in op.saved : s.attr \subseteq Rows /\ s.val \in [s.attr -> Value]
  BY InServiceOp DEF set_attr_list, Core
<1>2. Head(op.todo).value \in Value /\ Tail(op.todo) \in Seq(Entries)
  BY <1>1, NextEntry DEF Core
<1>3. TypeOK' /\ ValOK' /\ ZeroFree'
  BY <1>1, <1>2, RequestRow, SetValueStore DEF set_attr_list, Core
<1>4. OpOK'
  <2>1. CASE answer(op.req, sense', NoVal)
    BY <2>1, AnswerOp
  <2> DEFINE begun == IF op.saved = {} THEN {[attr |-> attr, val |-> val]} ELSE op.saved
             saved == IF Tail(op.todo) = <<>> THEN {} ELSE begun
  <2>2. CASE op' = [op EXCEPT !.todo = Tail(@), !.saved = saved]
    <3>1. \A s \in begun : s.attr \subseteq Rows /\ s.val \in [s.attr -> Value]
      BY <1>1 DEF Core, TypeOK, ValOK, Rows
    <3>2. saved # {} => Tail(op.todo) # <<>>
      OBVIOUS
    <3>3. \A s \in saved : s.attr \subseteq Rows /\ s.val \in [s.attr -> Value]
      BY <3>1
    <3> HIDE DEF saved
    <3>4. op' = [pc |-> op.pc, req |-> op.req, old |-> op.old, todo |-> Tail(op.todo), saved |-> saved]
      BY <1>1, <2>2
    <3>5. op'.pc = "set" /\ op'.req = op.req /\ op'.old = op.old /\ op'.todo = Tail(op.todo) /\ op'.saved = saved
      BY <1>1, <3>4
    <3>6. op' = [pc |-> op'.pc, req |-> op'.req, old |-> op'.old, todo |-> op'.todo, saved |-> op'.saved]
      BY <1>1, <3>4, <3>5
    <3> QED
      BY <1>1, <1>2, <3>2, <3>3, <3>5, <3>6 DEF OpOK
  <2> QED
    BY <2>1, <2>2 DEF set_attr_list
<1> QED
  BY <1>3, <1>4 DEF Core

LEMMA CasSetattr == ASSUME Core, exec_cas_setattr PROVE Core'
<1>1. op.pc = "set" /\ op.todo # <<>> /\ op.req \in Requests /\ op.old \in Value
  BY InServiceOp DEF exec_cas_setattr, Core
<1>2. Head(op.todo).value \in Value /\ Tail(op.todo) \in Seq(Entries)
  BY <1>1, NextEntry DEF Core
<1>3. TypeOK' /\ ValOK' /\ ZeroFree'
  BY <1>1, <1>2, RequestRow, SetValueStore DEF exec_cas_setattr, Core
<1>4. OpOK'
  <2>1. CASE answer(op.req, sense', NoVal)
    BY <2>1, AnswerOp
  <2>2. CASE goto("set", op.req, op.old, Tail(op.todo))
    BY <1>1, <1>2, <2>2, GotoOp
  <2> QED
    BY <2>1, <2>2 DEF exec_cas_setattr
<1> QED
  BY <1>3, <1>4 DEF Core

LEMMA AttrsRead == ASSUME Core, exec_getattr PROVE Core'
<1>1. op.pc = "set" /\ op.req \in Requests /\ op.req.obj[1] \in Pid /\ op.req.obj[2] \in Oid
  BY InServiceOp, RequestRow DEF exec_getattr, Core
<1>2. CASE /\ answer(op.req, "OSD_OK", op.old)
           /\ sense' = "OSD_OK" /\ UNCHANGED <<tables, disk, root, ic, ccap, val>>
  <2>1. attr' \subseteq Rows /\ ValOK' /\ sense' \in Sense
    BY <1>2 DEF tables, Core, TypeOK, Rows, ValOK, Sense
  <2> QED
    BY <1>2, <2>1, AnswerOp, AttrStatement DEF Core, tables
<1>3. CASE give_up(op.req, "PARAM_LIST") \/ give_up(op.req, "ILLEGAL_REQUEST")
  BY <1>3, GiveUp DEF Sense
<1>4. ASSUME osd_getattr_list(op.req.obj[1], op.req.obj[2], "GETALLATTR_PG", TRUE), vals_kept,
             NEW out, answer(op.req, sense', out)
      PROVE  Core'
  <2>1. TypeOK'
    BY <1>1, <1>4, GetAttrType DEF Core
  <2>2. UNCHANGED <<obj, coll, ic>>
    BY <1>4 DEF osd_getattr_list, get_refused, Rejected, tables
  <2>3. ZeroFree'
    BY <2>2 DEF Core, ZeroFree
  <2> QED
    BY <1>4, <2>1, <2>3, ValsKept, AnswerOp DEF Core
<1> QED
  BY <1>2, <1>3, <1>4 DEF exec_getattr

LEMMA Died == ASSUME Core, die PROVE Core'
<1>1. \A s \in op.saved : s.attr \subseteq Rows /\ s.val \in [s.attr -> Value]
  BY InServiceOp DEF die, Core
<1>2. CASE osd_open /\ vals_kept
  BY <1>2, Reopened DEF die
<1>3. CASE rolled_back
  <2>1. attr' \subseteq Rows /\ ValOK'
    BY <1>1, <1>3 DEF rolled_back, ValOK
  <2>2. UNCHANGED <<obj, coll>> /\ ic' = NoCache
    BY <1>3 DEF rolled_back
  <2>3. TypeOK'
    BY <1>3, <2>1, Inputs DEF Core, TypeOK, Rows, rolled_back, disk, NoCache, NoCcap, RowType, Sense
  <2>4. ZeroFree'
    BY <2>2 DEF Core, ZeroFree, NoCache
  <2> QED
    BY <2>1, <2>3, <2>4, AnswerOp DEF die, Core
<1> QED
  BY <1>2, <1>3 DEF die

LEMMA ServiceKeeps == ASSUME Core, InService PROVE Core'
BY CounterInitialised, CounterSwapped, GenCasExecuted, AttrListSet, CasSetattr, AttrsRead, Died
DEF InService

-----------------------------------------------------------------------------
(* SET MEMBER ATTRIBUTES and commands that only look                          *)

LEMMA LeastOf ==
    ASSUME NEW S, S \subseteq Nat, S # {}
    PROVE  \E x \in S : \A y \in S : x <= y
<1> DEFINE R == OpToRel(<, Nat)
<1>1. PICK x \in S : \A y \in S : ~(<<y, x>> \in R)
  <2>1. IsWellFoundedOn(R, Nat)
    BY NatLessThanWellFounded
  <2> HIDE DEF R
  <2> QED
    BY <2>1, WFMin
<1>2. \A y \in S : ~(y < x)
  BY <1>1 DEF OpToRel
<1> QED
  BY <1>2

\* The last of the places at which a name stands.
LEMMA LastPlace ==
    ASSUME NEW list \in Seq(Entries), NEW i \in DOMAIN list
    PROVE  \E l \in DOMAIN list :
               /\ list[l].name = list[i].name
               /\ \A j \in DOMAIN list : list[j].name = list[i].name => j <= l
<1> DEFINE places == {j \in DOMAIN list : list[j].name = list[i].name}
           back == {Len(list) - j : j \in places}
<1>1. places \subseteq 1 .. Len(list) /\ Len(list) \in Nat
  OBVIOUS
<1>2. back \subseteq Nat /\ back # {}
  BY <1>1
<1>3. PICK b \in back : \A c \in back : b <= c
  BY <1>2, LeastOf
<1>4. PICK l \in places : b = Len(list) - l
  OBVIOUS
<1>5. ASSUME NEW j \in places PROVE j <= l
  <2>1. Len(list) - j \in back
    OBVIOUS
  <2>2. Len(list) - l <= Len(list) - j
    BY <1>3, <1>4, <2>1
  <2>3. j \in Int /\ l \in Int /\ Len(list) \in Int
    BY <1>1
  <2> HIDE DEF places, back
  <2> QED
    BY <2>2, <2>3
<1> QED
  BY <1>4, <1>5

\* Every row that the statement writes gets the value of an entry.
LEMMA MemberAttrsSet ==
    ASSUME TypeOK, ValOK, NEW p \in Pid, NEW c \in Oid, NEW list \in Seq(Entries),
           ~\E i \in DOMAIN list : list[i].name = "READ_ONLY",
           mtq_set_member_attrs(p, c, list)
    PROVE  attr' \subseteq Rows /\ ValOK'
<1> DEFINE rows == member_rows(p, c, list)
           last(a) == CHOOSE i \in DOMAIN list :
                        list[i].name = a /\ \A j \in DOMAIN list : list[j].name = a => j <= i
<1>1. \A i \in DOMAIN list : list[i].name \in Attrs /\ list[i].value \in Value
  <2> TAKE i \in DOMAIN list
  <2>1. list[i] \in Entries
    OBVIOUS
  <2> QED
    BY <2>1 DEF Entries
<1>2. \A r \in coll : r[3] \in Oid
  BY DEF TypeOK
<1>3. rows \subseteq Rows
  BY <1>1, <1>2 DEF member_rows, Rows
<1>4. \A k \in rows : list[last(k[3])].value \in Value
  <2> TAKE k \in rows
  <2>1. PICK i \in DOMAIN list : k[3] = list[i].name
    BY DEF member_rows
  <2>2. last(k[3]) \in DOMAIN list
    BY <2>1, LastPlace
  <2> QED
    BY <1>1, <2>2
<1>5. attr' = attr \cup rows
  BY DEF mtq_set_member_attrs
<1>6. val' = [k \in attr \cup rows |-> IF k \in rows THEN list[last(k[3])].value ELSE val[k]]
  BY DEF mtq_set_member_attrs
<1> HIDE DEF rows, last
<1>7. attr' \subseteq Rows
  BY <1>3, <1>5 DEF TypeOK, Rows
<1>8. ValOK'
  BY <1>4, <1>5, <1>6 DEF ValOK
<1> QED
  BY <1>7, <1>8

LEMMA Looked ==
    ASSUME Core, NEW rep, rep.ret \in Sense, looked(rep), ccap' \in [obj_type : RowType, pid : Pid, oid : Oid]
    PROVE  Core'
<1>1. TypeOK'
  BY DEF Core, TypeOK, looked, tables, disk
<1>2. ValOK' /\ OpOK' /\ ZeroFree'
  BY DEF Core, ValOK, OpOK, ZeroFree, looked, tables
<1> QED
  BY <1>1, <1>2 DEF Core

LEMMA Declined ==
    ASSUME Core, NEW req, NEW ret \in Sense, declined(req, ret) PROVE Core'
<1>1. ccap' \in [obj_type : RowType, pid : Pid, oid : Oid]
  BY DEF Core, TypeOK, declined
<1> DEFINE rep == [req |-> req, ret |-> ret]
<1>2. rep.ret \in Sense /\ looked(rep)
  BY DEF declined
<1> HIDE DEF rep
<1> QED
  BY <1>1, <1>2, Looked

LEMMA SetMembersKeeps ==
    ASSUME Core, NEW p \in Pid, NEW c \in Oid, NEW list \in Seq(Entries),
           osd_set_member_attributes(p, c, list)
    PROVE  Core'
<1> DEFINE req == [cmd |-> "SET", objs |-> {<<p, o>> : o \in coll_members(p, c)}, list |-> list]
<1> HIDE DEF req
<1>1. CASE declined(req, "ILLEGAL_REQUEST") \/ declined(req, "PARAM_LIST") \/ declined(req, "HARDWARE_ERROR")
  BY <1>1, Declined DEF Sense
<1>2. CASE /\ ~\E i \in DOMAIN list : list[i].name = "READ_ONLY"
           /\ mtq_set_member_attrs(p, c, list)
           /\ fill_ccap("COLLECTION", p, c)
           /\ sense' = "OSD_OK"
           /\ UNCHANGED <<obj, coll, disk, root, ic, op>>
  <2>1. attr' \subseteq Rows /\ ValOK'
    BY <1>2, MemberAttrsSet DEF Core
  <2>2. TypeOK'
    BY <1>2, <2>1 DEF Core, TypeOK, Rows, disk, fill_ccap, RowType, ObjType, Sense
  <2>3. ZeroFree' /\ OpOK'
    BY <1>2 DEF Core, ZeroFree, OpOK
  <2> QED
    BY <2>1, <2>2, <2>3 DEF Core
<1> QED
  BY <1>1, <1>2 DEF osd_set_member_attributes, req

LEMMA QueryKeeps ==
    ASSUME Core, NEW p \in Pid, NEW c \in Oid, NEW q, NEW alloc, osd_query(p, c, q, alloc)
    PROVE  Core'
<1> DEFINE req == [cmd |-> "QUERY", pid |-> p, cid |-> c, query |-> q, alloc |-> alloc]
<1> HIDE DEF req
<1>1. CASE declined(req, "ILLEGAL_REQUEST") \/ declined(req, "OSD_OK") \/ declined(req, "HARDWARE_ERROR")
  BY <1>1, Declined DEF Sense
<1>2. ASSUME NEW ids, looked([req |-> req, ret |-> "OSD_OK", ids |-> ids]), fill_ccap("COLLECTION", p, c)
      PROVE  Core'
  <2> DEFINE rep == [req |-> req, ret |-> "OSD_OK", ids |-> ids]
  <2>1. rep.ret \in Sense /\ looked(rep)
    BY <1>2 DEF Sense
  <2>2. ccap' \in [obj_type : RowType, pid : Pid, oid : Oid]
    BY <1>2 DEF fill_ccap, RowType, ObjType
  <2> HIDE DEF rep
  <2> QED
    BY <2>1, <2>2, Looked
<1> QED
  BY <1>1, <1>2 DEF osd_query, req

LEMMA ListCcap ==
    ASSUME NEW kind, NEW p \in Pid, list_ccap(kind, p)
    PROVE  ccap' \in [obj_type : RowType, pid : Pid, oid : Oid]
BY Inputs DEF list_ccap, fill_ccap, RowType, ObjType, PARTITION_OID

LEMMA ListKeeps ==
    ASSUME Core, NEW kind, NEW p \in Pid, NEW c, NEW initial, NEW list_id, NEW alloc,
           osd_list(kind, p, c, initial, list_id, alloc)
    PROVE  Core'
<1> DEFINE req == [cmd |-> kind, initial |-> start_at(initial, list_id), alloc |-> alloc]
<1> HIDE DEF req
<1>1. CASE declined(req, "ILLEGAL_REQUEST") \/ declined(req, "OSD_OK") \/ declined(req, "HARDWARE_ERROR")
  BY <1>1, Declined DEF Sense
<1>2. ASSUME NEW page, looked([req |-> req, ret |-> "OSD_OK", page |-> page]), list_ccap(kind, p)
      PROVE  Core'
  <2> DEFINE rep == [req |-> req, ret |-> "OSD_OK", page |-> page]
  <2>1. rep.ret \in Sense /\ looked(rep)
    BY <1>2 DEF Sense
  <2> HIDE DEF rep
  <2> QED
    BY <1>2, <2>1, ListCcap, Looked
<1>3. CASE unbuffered(req, alloc)
  BY <1>1, <1>3, Reopened DEF unbuffered
<1> QED
  BY <1>1, <1>2, <1>3 DEF osd_list, req

LEMMA ListAttrKeeps ==
    ASSUME Core, NEW p \in Pid, NEW names, NEW initial, NEW list_id, NEW alloc,
           osd_list_attr(p, names, initial, list_id, alloc)
    PROVE  Core'
<1> DEFINE req == [cmd |-> "LIST_ATTR", pid |-> p, names |-> names,
                   initial |-> start_at(initial, list_id), alloc |-> alloc]
<1> HIDE DEF req
<1>1. CASE declined(req, "ILLEGAL_REQUEST") \/ declined(req, "OSD_OK") \/ declined(req, "HARDWARE_ERROR")
  BY <1>1, Declined DEF Sense
<1>2. ASSUME NEW out, NEW cont,
             looked([req |-> req, ret |-> "OSD_OK", entries |-> out, cont |-> cont]),
             list_ccap("LIST", p)
      PROVE  Core'
  <2> DEFINE rep == [req |-> req, ret |-> "OSD_OK", entries |-> out, cont |-> cont]
  <2>1. rep.ret \in Sense /\ looked(rep)
    BY <1>2 DEF Sense
  <2> HIDE DEF rep
  <2> QED
    BY <1>2, <2>1, ListCcap, Looked
<1>3. CASE osd_open /\ vals_kept /\ answer(req, "DIED", NoVal)
  BY <1>3, Reopened
<1>4. CASE unbuffered(req, alloc)
  BY <1>1, <1>3, <1>4 DEF unbuffered
<1> QED
  BY <1>1, <1>2, <1>3, <1>4 DEF osd_list_attr, req

-----------------------------------------------------------------------------
(* Pages                                                                      *)

\* Lists report ids that are not 0, finitely many.
LEMMA ListedIds ==
    ASSUME TypeOK, ZeroFree, NEW kind \in {"LIST", "LIST_COLLECTION"}, NEW p \in Pid, NEW c \in Oid
    PROVE  listed(kind, p, c) \subseteq Nat \ {0} /\ IsFiniteSet(listed(kind, p, c))
<1>1. IsFiniteSet(Pid) /\ IsFiniteSet(Oid) /\ Pid \subseteq Nat /\ Oid \subseteq Nat
  <2>1. 0 \in Int /\ MaxPid \in Int /\ MaxOid \in Int
    BY IdAssumption
  <2> QED
    BY <2>1, FS_Interval, Inputs DEF Pid, Oid
<1>2. obj_get_all_pids \subseteq Pid \ {0}
  BY DEF obj_get_all_pids, ZeroFree, PARTITION_OID
<1>3. obj_get_oids_in_pid(p) \subseteq Oid \ {0} /\ obj_get_cids_in_pid(p) \subseteq Oid \ {0}
  BY DEF obj_get_oids_in_pid, obj_get_cids_in_pid, ZeroFree
<1>4. coll_members(p, c) \subseteq Oid \ {0}
  <2> SUFFICES ASSUME NEW n, <<p, c, 0, n>> \in coll PROVE FALSE
    BY DEF coll_members
  <2>1. <<p, c, 0, n>>[3] # 0
    BY DEF ZeroFree
  <2> QED
    BY <2>1
<1>5. \/ listed(kind, p, c) = obj_get_all_pids
      \/ listed(kind, p, c) = obj_get_oids_in_pid(p)
      \/ listed(kind, p, c) = obj_get_cids_in_pid(p)
      \/ listed(kind, p, c) = coll_members(p, c)
  BY DEF listed
<1>6. listed(kind, p, c) \subseteq Pid \ {0} \/ listed(kind, p, c) \subseteq Oid \ {0}
  BY <1>2, <1>3, <1>4, <1>5
<1>7. IsFiniteSet(listed(kind, p, c))
  BY <1>1, <1>6, FS_Subset
<1> QED
  BY <1>1, <1>6, <1>7

\* A larger id has no smaller rank.
LEMMA RankGrows ==
    ASSUME NEW S, S \subseteq Nat, IsFiniteSet(S), NEW i \in S, NEW j \in S, i <= j
    PROVE  Rank(i, S) \in Nat /\ Rank(j, S) \in Nat /\ Rank(i, S) <= Rank(j, S)
<1> DEFINE below(x) == {y \in S : y < x}
<1>1. below(i) \subseteq below(j) /\ below(j) \subseteq S
  <2>1. \A y \in S : y \in Nat /\ (y < i => y < j)
    OBVIOUS
  <2> QED
    BY <2>1
<1>2. IsFiniteSet(below(j))
  BY <1>1, FS_Subset
<1>3. IsFiniteSet(below(i)) /\ Cardinality(below(i)) <= Cardinality(below(j))
  BY <1>1, <1>2, FS_Subset
<1>4. Cardinality(below(i)) \in Nat /\ Cardinality(below(j)) \in Nat
  BY <1>2, <1>3, FS_CardinalityType
<1> QED
  BY <1>3, <1>4 DEF Rank

LEMMA LowestOf ==
    ASSUME NEW S, S \subseteq Nat, S # {}
    PROVE  Lowest(S) \in S /\ \A j \in S : Lowest(S) <= j
BY LeastOf DEF Lowest

\* A page holds ids from the first one on, in order and without a gap: what it
\* leaves out is at or above the continuation, which is 0 only if nothing is.
LEMMA PageInOrder ==
    ASSUME NEW ids, ids \subseteq Nat \ {0}, IsFiniteSet(ids), NEW initial \in Nat, NEW room \in Int
    PROVE  LET pg == db_exec_id_rtrvl_stmt(ids, initial, room)
           IN  /\ pg.ids \subseteq {i \in ids : i >= initial}
               /\ pg.cont \in Nat
               /\ pg.cont = 0 => \A i \in ids : i >= initial => i \in pg.ids
               /\ pg.cont # 0 =>
                    /\ pg.cont >= initial
                    /\ \A i \in ids : i >= initial => i \in pg.ids \/ i >= pg.cont
                    /\ \A i \in pg.ids : i < pg.cont
<1> DEFINE rows == {i \in ids : i >= initial}
           page == {i \in rows : Rank(i, rows) < room \div IdSize}
           cont == IF rows = page THEN 0 ELSE Lowest(rows \ page)
           pg == db_exec_id_rtrvl_stmt(ids, initial, room)
<1>1. pg.ids = page /\ pg.cont = cont
  BY DEF db_exec_id_rtrvl_stmt
<1>2. rows \subseteq Nat /\ IsFiniteSet(rows) /\ page \subseteq rows /\ 0 \notin rows
  BY FS_Subset
<1>3. room \div IdSize \in Int
  BY DEF IdSize
<1>4. ASSUME NEW i \in page, NEW j \in rows \ page PROVE i < j
  <2> SUFFICES ASSUME ~(i < j) PROVE FALSE
    OBVIOUS
  <2>1. i \in Nat /\ j \in Nat /\ i \in rows /\ j \in rows
    BY <1>2
  <2>2. Rank(j, rows) \in Nat /\ Rank(i, rows) \in Nat /\ Rank(j, rows) <= Rank(i, rows)
    BY <1>2, <2>1, RankGrows
  <2>3. Rank(i, rows) < room \div IdSize
    OBVIOUS
  <2>4. Rank(j, rows) < room \div IdSize
    BY <1>3, <2>2, <2>3
  <2> QED
    BY <2>4
<1> HIDE DEF page
<1>5. CASE rows = page
  BY <1>1, <1>2, <1>5
<1>6. CASE rows # page
  <2>1. rows \ page # {} /\ rows \ page \subseteq Nat
    BY <1>2, <1>6
  <2>2. cont \in rows \ page /\ \A j \in rows \ page : cont <= j
    BY <1>6, <2>1, LowestOf
  <2>3. cont \in Nat /\ cont # 0 /\ cont >= initial
    BY <1>2, <2>2
  <2>4. \A i \in page : i < cont
    BY <1>4, <2>2
  <2>5. \A i \in ids : i >= initial => i \in page \/ i >= cont
    <3> SUFFICES ASSUME NEW i \in ids, i >= initial, i \notin page PROVE i >= cont
      OBVIOUS
    <3>1. i \in rows \ page /\ i \in Nat
      OBVIOUS
    <3> QED
      BY <2>2, <2>3, <3>1
  <2> QED
    BY <1>1, <1>2, <2>3, <2>4, <2>5
<1> QED
  BY <1>5, <1>6

\* With room for one id, the continuation lies behind the first one.
LEMMA PageMovesOn ==
    ASSUME NEW ids, ids \subseteq Nat \ {0}, IsFiniteSet(ids), NEW initial \in Nat,
           NEW room \in Int, room >= 8
    PROVE  LET pg == db_exec_id_rtrvl_stmt(ids, initial, room)
           IN  pg.cont = 0 \/ pg.cont > initial
<1> DEFINE pg == db_exec_id_rtrvl_stmt(ids, initial, room)
           rows == {i \in ids : i >= initial}
           page == {i \in rows : Rank(i, rows) < room \div IdSize}
<1>1. /\ pg.cont \in Nat
      /\ pg.cont # 0 => \A i \in pg.ids : i < pg.cont
  BY PageInOrder
<1>2. pg.ids = page /\ (rows = page => pg.cont = 0)
  BY DEF db_exec_id_rtrvl_stmt
<1>3. rows \in SUBSET Nat
  OBVIOUS
<1> HIDE DEF pg
<1> SUFFICES pg.cont = 0 \/ pg.cont > initial
  BY DEF pg
<1>4. CASE rows = {}
  BY <1>2, <1>4
<1>5. CASE rows # {}
  <2>1. PICK m \in rows : \A k \in rows : m <= k
    BY <1>3, <1>5, LeastMember
  <2>2. {j \in rows : j < m} = {}
    BY <1>3, <2>1
  <2>3. Rank(m, rows) = 0
    BY <2>2, FS_EmptySet DEF Rank
  <2>4. m \in page
    BY <2>3 DEF IdSize
  <2>5. m \in Nat /\ m >= initial
    OBVIOUS
  <2> HIDE DEF page, rows
  <2> QED
    BY <1>1, <1>2, <2>4, <2>5
<1> QED
  BY <1>4, <1>5

-----------------------------------------------------------------------------
(* Pages with attributes                                                      *)

\* A user object that has the attribute asked for.
Has(p, o, a) == <<p, o, a>> \in attr /\ obj[p][o] = "USEROBJECT"

ValueEntry(o, a, full) == [part |-> "attr", oid |-> o, name |-> a, full |-> full]

\* What a page is made of, and a page while it is packed.
Items  == {Ode(o) : o \in Oid} \cup {ValueEntry(o, a, b) : o \in Oid, a \in Attrs, b \in BOOLEAN}
Packed == [out : Seq(Items), room : Int, cont : Nat]

On(s) == {s.out[k] : k \in DOMAIN s.out}

\* The first object that is left out is the continuation.
FirstLeft(s, o) == IF s.cont = 0 THEN o ELSE s.cont

LEMMA ObjectPut ==
    ASSUME NEW s \in Packed, NEW p, NEW o \in Oid
    PROVE  LET t == put_object(s, p, o) IN
           /\ t \in Packed
           /\ \/ ~Started(p, o) /\ t = s
              \/ /\ Started(p, o) /\ s.room >= 16
                 /\ t.out = Append(s.out, Ode(o)) /\ t.room = s.room - 16 /\ t.cont = s.cont
              \/ /\ Started(p, o) /\ s.room < 16
                 /\ t.out = s.out /\ t.room = s.room /\ t.cont = FirstLeft(s, o)
<1> DEFINE t == put_object(s, p, o)
<1>1. s.out \in Seq(Items) /\ s.room \in Int /\ s.cont \in Nat /\ o \in Nat
  BY Inputs DEF Packed
<1>2. CASE ~Started(p, o)
  BY <1>2 DEF put_object, Started
<1>3. CASE Started(p, o) /\ s.room >= 16
  <2>1. Append(s.out, Ode(o)) \in Seq(Items) /\ s.room - 16 \in Int
    BY <1>1, AppendProperties DEF Items
  <2>2. t = [s EXCEPT !.out = Append(@, Ode(o)), !.room = @ - 16]
    BY <1>3 DEF put_object, Started, OdeHeader
  <2> HIDE DEF t
  <2>3. t.out = Append(s.out, Ode(o)) /\ t.room = s.room - 16 /\ t.cont = s.cont /\ t \in Packed
    BY <2>1, <2>2 DEF Packed
  <2> QED
    BY <1>3, <2>3 DEF t
<1>4. CASE Started(p, o) /\ s.room < 16
  <2>1. FirstLeft(s, o) \in Nat /\ ~(s.room >= 16)
    BY <1>1, <1>4 DEF FirstLeft
  <2>2. t = [s EXCEPT !.cont = FirstLeft(s, o)]
    BY <1>4, <2>1 DEF put_object, Started, OdeHeader, FirstLeft
  <2> HIDE DEF t
  <2>3. t.out = s.out /\ t.room = s.room /\ t.cont = FirstLeft(s, o) /\ t \in Packed
    BY <2>1, <2>2 DEF Packed
  <2> QED
    BY <1>4, <2>3 DEF t
<1> QED
  BY <1>1, <1>2, <1>3, <1>4

LEMMA AttrPut ==
    ASSUME NEW s \in Packed, NEW p, NEW o \in Oid, NEW a \in Attrs
    PROVE  LET t == put_attr(s, p, o, a) IN
           /\ t \in Packed
           /\ s.room >= MaxEntry + 16 => t.cont = s.cont /\ t.room >= s.room - MaxEntry
           /\ \/ ~Has(p, o, a) /\ t = s
              \/ /\ Has(p, o, a) /\ s.room >= 16
                 /\ \E b \in BOOLEAN :
                      /\ t.out = Append(s.out, ValueEntry(o, a, b))
                      /\ (b /\ t.cont = s.cont) \/ t.cont = FirstLeft(s, o)
              \/ /\ Has(p, o, a) /\ s.room < 16
                 /\ t.out = s.out /\ t.room = s.room
                 /\ t.cont = IF s.out = <<>> THEN s.cont ELSE FirstLeft(s, o)
<1> DEFINE t == put_attr(s, p, o, a)
           v == attr_get_val(<<p, o, a>>)
           full == s.room >= entry_len(v)
           left == IF full THEN s.room - entry_len(v) ELSE 0
           cont == IF left < 16 THEN FirstLeft(s, o) ELSE s.cont
<1>1. /\ s.out \in Seq(Items) /\ s.room \in Int /\ s.cont \in Nat /\ o \in Nat
      /\ entry_len(v) \in Nat /\ entry_len(v) <= MaxEntry
  BY Inputs DEF Packed, entry_len, MaxEntry
<1>2. FirstLeft(s, o) \in Nat
  BY <1>1 DEF FirstLeft
<1>3. CASE ~Has(p, o, a)
  <2>1. t = s
    BY <1>3 DEF put_attr, Has
  <2>2. MaxEntry \in Nat
    BY DEF MaxEntry
  <2> QED
    BY <1>1, <1>3, <2>1, <2>2
<1>4. CASE Has(p, o, a) /\ s.room >= 16
  <2>1. t = [out |-> Append(s.out, ValueEntry(o, a, full)), room |-> left, cont |-> cont]
    BY <1>4 DEF put_attr, Has, LE_MIN_ITEM_LEN, FirstLeft, ValueEntry
  <2>2. full \in BOOLEAN
    OBVIOUS
  <2>3. left \in Int /\ cont \in Nat /\ MaxEntry \in Nat
    BY <1>1, <1>2 DEF MaxEntry
  <2>4. /\ (full /\ cont = s.cont) \/ cont = FirstLeft(s, o)
        /\ s.room >= MaxEntry + 16 => cont = s.cont /\ left >= s.room - MaxEntry
    BY <1>1, <2>3
  <2> HIDE DEF t, full, left, cont
  <2>5. PICK b \in BOOLEAN : b = full
    BY <2>2
  <2>6. Append(s.out, ValueEntry(o, a, b)) \in Seq(Items)
    BY <1>1, AppendProperties DEF Items
  <2>7. t.out = Append(s.out, ValueEntry(o, a, b)) /\ t.cont = cont /\ t.room = left /\ t \in Packed
    BY <2>1, <2>3, <2>5, <2>6 DEF Packed
  <2> QED
    BY <1>4, <2>4, <2>5, <2>7 DEF t
<1>5. CASE Has(p, o, a) /\ s.room < 16
  <2> DEFINE c == IF s.out = <<>> THEN s.cont ELSE FirstLeft(s, o)
  <2>1. ~(s.room >= 16) /\ c \in Nat
    BY <1>1, <1>2, <1>5
  <2>2. t = [s EXCEPT !.cont = c]
    BY <1>5, <2>1 DEF put_attr, Has, LE_MIN_ITEM_LEN, FirstLeft
  <2> HIDE DEF t
  <2>3. t.out = s.out /\ t.room = s.room /\ t.cont = c /\ t \in Packed
    BY <2>1, <2>2 DEF Packed
  <2>4. ~(s.room >= MaxEntry + 16)
    BY <1>1, <1>5 DEF MaxEntry
  <2> QED
    BY <1>5, <2>3, <2>4 DEF t
<1> QED
  BY <1>1, <1>3, <1>4, <1>5

LEMMA Appended ==
    ASSUME NEW s \in Packed, NEW x \in Items, NEW out, out = Append(s.out, x)
    PROVE  /\ DOMAIN out = 1 .. Len(s.out) + 1 /\ Len(s.out) \in Nat /\ DOMAIN s.out = 1 .. Len(s.out)
           /\ out[Len(s.out) + 1] = x
           /\ \A i \in 1 .. Len(s.out) : out[i] = s.out[i]
<1>1. s.out \in Seq(Items)
  BY DEF Packed
<1> QED
  BY <1>1, AppendProperties, LenProperties

\* What has been put on the page stays there.
LEMMA StaysOn ==
    ASSUME NEW s \in Packed, NEW t, NEW x \in Items, t.out = Append(s.out, x)
    PROVE  On(s) \subseteq On(t) /\ x \in On(t) /\ t.out # <<>>
<1> DEFINE out == t.out
<1>1. out = Append(s.out, x)
  OBVIOUS
<1> HIDE DEF out
<1>2. /\ DOMAIN out = 1 .. Len(s.out) + 1 /\ Len(s.out) \in Nat /\ DOMAIN s.out = 1 .. Len(s.out)
      /\ out[Len(s.out) + 1] = x
      /\ \A i \in 1 .. Len(s.out) : out[i] = s.out[i]
  BY <1>1, Appended
<1>3. Len(s.out) + 1 \in DOMAIN out
  BY <1>2
<1>4. out # <<>>
  BY <1>3
<1>5. \A i \in DOMAIN s.out : i \in DOMAIN out /\ out[i] = s.out[i]
  BY <1>2
<1> QED
  BY <1>2, <1>3, <1>4, <1>5 DEF On, out

\* What a row owes the page: an object its place, an attribute its whole value.
Owed(o, a) == IF a = Tmstmp THEN Ode(o) ELSE ValueEntry(o, a, TRUE)

\* One row.  Whatever does not find room there, or fills the page, is behind the
\* continuation from now on; with room for the longest entry and the smallest
\* one, it does.
LEMMA RowPut ==
    ASSUME NEW s \in Packed, NEW p, obj[p][0] # "USEROBJECT", NEW o \in Oid,
           NEW a \in Attrs \cup {Tmstmp}
    PROVE  LET t == put_row(s, p, o, a) IN
           /\ t \in Packed
           /\ On(s) \subseteq On(t) /\ (t.out = <<>> => s.out = <<>>)
           /\ t.cont = s.cont \/ (s.cont = 0 /\ t.cont = o)
           /\ s.room >= MaxEntry + 16 => t.cont = s.cont /\ t.room >= s.room - MaxEntry
           /\ t.cont = 0 /\ Has(p, o, a) /\ (a = Tmstmp \/ s.out # <<>>) => Owed(o, a) \in On(t)
<1> DEFINE t == put_row(s, p, o, a)
<1>1. s.room \in Int /\ s.cont \in Nat /\ o \in Nat /\ MaxEntry = 32
  BY Inputs DEF Packed, MaxEntry
<1>2. FirstLeft(s, o) = s.cont \/ (s.cont = 0 /\ FirstLeft(s, o) = o)
  BY DEF FirstLeft
<1>3. Has(p, o, a) => FirstLeft(s, o) # 0
  BY DEF FirstLeft, Has
<1>4. CASE a = Tmstmp
  <2>1. t = put_object(s, p, o) /\ (Started(p, o) <=> Has(p, o, a)) /\ Owed(o, a) = Ode(o)
    BY <1>4 DEF put_row, Started, Has, Owed
  <2>2. Ode(o) \in Items
    BY DEF Items
  <2> HIDE DEF t
  <2>3. /\ t \in Packed
        /\ \/ ~Started(p, o) /\ t = s
           \/ /\ Started(p, o) /\ s.room >= 16
              /\ t.out = Append(s.out, Ode(o)) /\ t.room = s.room - 16 /\ t.cont = s.cont
           \/ /\ Started(p, o) /\ s.room < 16
              /\ t.out = s.out /\ t.room = s.room /\ t.cont = FirstLeft(s, o)
    BY <2>1, ObjectPut
  <2>4. CASE ~Started(p, o) /\ t = s
    BY <1>1, <2>1, <2>3, <2>4 DEF t
  <2>5. CASE Started(p, o) /\ s.room >= 16 /\ t.out = Append(s.out, Ode(o)) /\ t.room = s.room - 16 /\ t.cont = s.cont
    <3>1. On(s) \subseteq On(t) /\ Ode(o) \in On(t) /\ t.out # <<>>
      BY <2>2, <2>5, StaysOn
    <3> QED
      BY <1>1, <2>1, <2>3, <2>5, <3>1 DEF t
  <2>6. CASE Started(p, o) /\ s.room < 16 /\ t.out = s.out /\ t.room = s.room /\ t.cont = FirstLeft(s, o)
    <3>1. On(t) = On(s)
      BY <2>6 DEF On
    <3> QED
      BY <1>1, <1>2, <1>3, <2>1, <2>3, <2>6, <3>1 DEF t
  <2> QED
    BY <2>3, <2>4, <2>5, <2>6
<1>5. CASE a # Tmstmp
  <2>1. t = put_attr(s, p, o, a) /\ Owed(o, a) = ValueEntry(o, a, TRUE) /\ a \in Attrs
    BY <1>5 DEF put_row, Owed
  <2> HIDE DEF t
  <2>2. /\ t \in Packed
        /\ s.room >= MaxEntry + 16 => t.cont = s.cont /\ t.room >= s.room - MaxEntry
        /\ \/ ~Has(p, o, a) /\ t = s
           \/ /\ Has(p, o, a) /\ s.room >= 16
              /\ \E b \in BOOLEAN :
                   /\ t.out = Append(s.out, ValueEntry(o, a, b))
                   /\ (b /\ t.cont = s.cont) \/ t.cont = FirstLeft(s, o)
           \/ /\ Has(p, o, a) /\ s.room < 16
              /\ t.out = s.out /\ t.room = s.room
              /\ t.cont = IF s.out = <<>> THEN s.cont ELSE FirstLeft(s, o)
    <3> DEFINE u == put_attr(s, p, o, a)
    <3>1. /\ u \in Packed
          /\ s.room >= MaxEntry + 16 => u.cont = s.cont /\ u.room >= s.room - MaxEntry
          /\ \/ ~Has(p, o, a) /\ u = s
             \/ /\ Has(p, o, a) /\ s.room >= 16
                /\ \E b \in BOOLEAN :
                     /\ u.out = Append(s.out, ValueEntry(o, a, b))
                     /\ (b /\ u.cont = s.cont) \/ u.cont = FirstLeft(s, o)
             \/ /\ Has(p, o, a) /\ s.room < 16
                /\ u.out = s.out /\ u.room = s.room
                /\ u.cont = IF s.out = <<>> THEN s.cont ELSE FirstLeft(s, o)
      BY <2>1, AttrPut
    <3> HIDE DEF u
    <3>2. t = u
      BY <2>1 DEF u
    <3> QED
      BY <3>1, <3>2, Zenon
  <2>3. CASE ~Has(p, o, a) /\ t = s
    BY <1>1, <2>1, <2>2, <2>3 DEF t
  <2>5. CASE Has(p, o, a) /\ s.room < 16
    <3>1. t.out = s.out /\ t.cont = IF s.out = <<>> THEN s.cont ELSE FirstLeft(s, o)
      BY <1>1, <2>2, <2>5
    <3>2. On(t) = On(s)
      BY <3>1 DEF On
    <3> QED
      BY <1>1, <1>2, <1>3, <1>5, <2>2, <2>5, <3>1, <3>2 DEF t
  <2>6. CASE Has(p, o, a) /\ s.room >= 16
    <3>1. PICK b \in BOOLEAN :
            /\ t.out = Append(s.out, ValueEntry(o, a, b))
            /\ (b /\ t.cont = s.cont) \/ t.cont = FirstLeft(s, o)
      BY <1>1, <2>2, <2>6
    <3>2. ValueEntry(o, a, b) \in Items
      BY <2>1 DEF Items
    <3>3. On(s) \subseteq On(t) /\ ValueEntry(o, a, b) \in On(t) /\ t.out # <<>>
      BY <3>1, <3>2, StaysOn
    <3>4. t.cont = s.cont \/ (s.cont = 0 /\ t.cont = o)
      BY <1>2, <3>1
    <3>5. ASSUME t.cont = 0 PROVE Owed(o, a) \in On(t)
      <4>1. b = TRUE
        BY <1>3, <2>6, <3>1, <3>5
      <4>2. ValueEntry(o, a, b) = ValueEntry(o, a, TRUE)
        BY <4>1, Zenon
      <4> QED
        BY <2>1, <3>3, <4>2
    <3> QED
      BY <2>2, <3>3, <3>4, <3>5 DEF t
  <2> QED
    BY <1>1, <2>2, <2>3, <2>5, <2>6
<1> QED
  BY <1>4, <1>5


\* The page while the rows of one object are packed: f[k] is the page after those
\* of the first k attributes.
Rowwise(f, s, p, o, names) ==
    /\ f \in [0 .. Len(names) -> Packed]
    /\ f[0] = put_object(s, p, o)
    /\ \A k \in 1 .. Len(names) : f[k] = put_row(f[k - 1], p, o, names[k])

LEMMA RowStays ==
    ASSUME NEW s \in Packed, NEW p, NEW o \in Oid, NEW a \in Attrs
    PROVE  put_row(s, p, o, a) \in Packed
<1>1. put_object(s, p, o) \in Packed
  BY ObjectPut
<1>2. put_attr(s, p, o, a) \in Packed
  BY AttrPut
<1> QED
  BY <1>1, <1>2 DEF put_row

LEMMA RowsArePacked ==
    ASSUME NEW s \in Packed, NEW p, NEW o \in Oid, NEW names \in Seq(Attrs)
    PROVE  \E f : Rowwise(f, s, p, o, names) /\ put_rows(s, p, o, names) = f[Len(names)]
<1> DEFINE n == Len(names)
           base == put_object(s, p, o)
           step == [x \in Packed \X (1 .. n) |-> put_row(x[1], p, o, names[x[2]])]
<1>1. n \in Nat /\ \A k \in 1 .. n : names[k] \in Attrs
  BY LenProperties, ElementOfSeq
<1>2. base \in Packed
  BY ObjectPut
<1> HIDE DEF base, n
<1>3. step \in [Packed \X (1 .. n) -> Packed]
  <2>1. ASSUME NEW x \in Packed \X (1 .. n) PROVE put_row(x[1], p, o, names[x[2]]) \in Packed
    <3>1. x[1] \in Packed /\ names[x[2]] \in Attrs
      BY <1>1
    <3> QED
      BY <3>1, RowStays
  <2> QED
    BY <2>1
<1>4. \A t \in Packed, k \in 1 .. n : step[<<t, k>>] = put_row(t, p, o, names[k])
  OBVIOUS
<1> HIDE DEF step
<1>5. PICK f \in [0 .. n -> Packed] : Iterates(f, n, base, step)
  BY <1>1, <1>2, <1>3, IterationExists
<1>6. \A k \in 1 .. n : f[k] = put_row(f[k - 1], p, o, names[k])
  <2> SUFFICES ASSUME NEW k \in 1 .. n PROVE f[k] = put_row(f[k - 1], p, o, names[k])
    OBVIOUS
  <2>1. k - 1 \in 0 .. n
    BY <1>1
  <2>2. f[k - 1] \in Packed /\ f[k] = step[<<f[k - 1], k>>]
    BY <1>5, <2>1 DEF Iterates
  <2> QED
    BY <1>4, <2>2
<1>7. f[0] = base
  BY <1>5 DEF Iterates
<1>8. Rowwise(f, s, p, o, names)
  BY <1>6, <1>7 DEF Rowwise, n, base
<1>9. \A k \in 0 .. n : f[k] = IF k = 0 THEN put_object(s, p, o) ELSE put_row(f[k - 1], p, o, names[k])
  BY <1>1, <1>6, <1>7 DEF base
<1>10. f = [k \in 0 .. n |-> f[k]]
  OBVIOUS
<1>11. f = [k \in 0 .. n |-> IF k = 0 THEN put_object(s, p, o) ELSE put_row(f[k - 1], p, o, names[k])]
  BY <1>9, <1>10, Zenon
<1> DEFINE body(g) == [k \in 0 .. Len(names) |->
                         IF k = 0 THEN put_object(s, p, o) ELSE put_row(g[k - 1], p, o, names[k])]
           h == CHOOSE g : g = body(g)
<1>12. put_rows(s, p, o, names) = h[Len(names)]
  BY Zenon DEF put_rows
<1>13. h = body(h)
  <2>1. f = body(f)
    BY <1>11, Zenon DEF n
  <2> QED
    BY <2>1, Zenon
<1> HIDE DEF h
<1>14. \A k \in 0 .. n : h[k] = IF k = 0 THEN put_object(s, p, o) ELSE put_row(h[k - 1], p, o, names[k])
  BY <1>13, Zenon DEF n
<1>15. SameSteps(f, h, n)
  BY <1>1, <1>9, <1>14 DEF SameSteps
<1>16. h[n] = f[n]
  BY <1>1, <1>15, IterationUnique
<1> QED
  BY <1>8, <1>12, <1>16 DEF n

LEMMA RowsPut ==
    ASSUME NEW s \in Packed, NEW p, NEW o \in Oid, NEW names \in Seq(Attrs)
    PROVE  put_rows(s, p, o, names) \in Packed
<1>1. PICK f : Rowwise(f, s, p, o, names) /\ put_rows(s, p, o, names) = f[Len(names)]
  BY RowsArePacked
<1>2. Len(names) \in 0 .. Len(names)
  BY LenProperties
<1> QED
  BY <1>1, <1>2 DEF Rowwise

\* The page while it is packed: w[o] is the page after the rows of object o.
Packs(w, p, names, initial, room) ==
    w = [o \in -1 .. MaxOid |->
            IF o < initial THEN [out |-> <<>>, room |-> room, cont |-> 0]
            ELSE put_rows(w[o - 1], p, o, names)]

LEMMA PageIsPacked ==
    ASSUME NEW p, NEW names \in Seq(Attrs), NEW initial \in Nat, NEW room \in Int
    PROVE  \E w : /\ Packs(w, p, names, initial, room)
                  /\ mtq_list_oids_attr(p, names, initial, room) = w[MaxOid]
<1> DEFINE n == MaxOid + 1
           base == [out |-> <<>>, room |-> room, cont |-> 0]
           step == [x \in Packed \X (1 .. n) |->
                      IF x[2] - 1 < initial THEN base ELSE put_rows(x[1], p, x[2] - 1, names)]
<1>1. n \in Nat /\ MaxOid \in Nat /\ Oid = 0 .. MaxOid
  BY IdAssumption, Inputs DEF Oid
<1>2. base \in Packed
  BY DEF Packed
<1> HIDE DEF base
<1>3. step \in [Packed \X (1 .. n) -> Packed]
  <2>1. ASSUME NEW x \in Packed \X (1 .. n)
        PROVE  (IF x[2] - 1 < initial THEN base ELSE put_rows(x[1], p, x[2] - 1, names)) \in Packed
    <3>1. PICK s \in Packed, k \in 1 .. n : x[1] = s /\ x[2] = k
      OBVIOUS
    <3>2. k - 1 \in Oid
      BY <1>1
    <3>3. put_rows(s, p, k - 1, names) \in Packed
      BY <3>2, RowsPut
    <3> QED
      BY <1>2, <3>1, <3>3
  <2> QED
    BY <2>1
<1>4. \A s \in Packed, k \in 1 .. n :
        step[<<s, k>>] = IF k - 1 < initial THEN base ELSE put_rows(s, p, k - 1, names)
  OBVIOUS
<1> HIDE DEF step, n
<1>5. PICK h \in [0 .. n -> Packed] : Iterates(h, n, base, step)
  BY <1>1, <1>2, <1>3, IterationExists
<1> DEFINE f == [o \in -1 .. MaxOid |-> h[o + 1]]
<1>6. ASSUME NEW o \in -1 .. MaxOid
      PROVE  f[o] = IF o < initial THEN base ELSE put_rows(f[o - 1], p, o, names)
  <2>1. CASE o = -1
    <3>1. h[o + 1] = base
      BY <1>5, <2>1 DEF Iterates
    <3> QED
      BY <2>1, <3>1
  <2>2. CASE o # -1
    <3>1. o + 1 \in 1 .. n /\ o - 1 \in -1 .. MaxOid /\ (o + 1) - 1 = o /\ (o - 1) + 1 = o /\ o \in 0 .. n
      BY <1>1, <2>2 DEF n
    <3>2. h[o + 1] = step[<<h[o], o + 1>>] /\ h[o] \in Packed
      BY <1>5, <3>1 DEF Iterates
    <3>3. h[o + 1] = IF o < initial THEN base ELSE put_rows(h[o], p, o, names)
      BY <1>4, <3>1, <3>2
    <3>4. f[o] = h[o + 1] /\ f[o - 1] = h[o]
      BY <3>1
    <3> QED
      BY <3>3, <3>4
  <2> QED
    BY <2>1, <2>2
<1>7. Packs(f, p, names, initial, room)
  <2>1. f = [o \in -1 .. MaxOid |-> f[o]]
    OBVIOUS
  <2> HIDE DEF f
  <2>2. f = [o \in -1 .. MaxOid |-> IF o < initial THEN base ELSE put_rows(f[o - 1], p, o, names)]
    BY <1>6, <2>1, Zenon
  <2> QED
    BY <2>2 DEF Packs, base
<1> HIDE DEF f
<1> QED
  BY <1>7, Zenon DEF mtq_list_oids_attr, Packs

\* Object i has its place on the page, and the values it has of those asked for.
Full(s, p, i, names) ==
    /\ Ode(i) \in On(s)
    /\ \A n \in DOMAIN names :
         names[n] # Tmstmp /\ <<p, i, names[n]>> \in attr => ValueEntry(i, names[n], TRUE) \in On(s)

\* After the rows up to object o, everything from initial on is on the page, up
\* to the continuation if there is one.
Covered(s, p, names, initial, o) ==
    /\ s \in Packed
    /\ s.cont # 0 => s.cont <= o
    /\ \A i \in Oid : Started(p, i) /\ initial <= i /\ i <= o /\ (s.cont = 0 \/ i < s.cont)
         => Full(s, p, i, names)

\* The page after k attributes of object o, which began as s.
Partly(s, t, p, o, names, k) ==
    /\ t \in Packed
    /\ On(s) \subseteq On(t)
    /\ t.cont = s.cont \/ (s.cont = 0 /\ t.cont = o)
    /\ Started(p, o) /\ t.cont = 0 =>
         /\ Ode(o) \in On(t) /\ t.out # <<>>
         /\ \A n \in 1 .. k : names[n] # Tmstmp /\ <<p, o, names[n]>> \in attr
                                => ValueEntry(o, names[n], TRUE) \in On(t)

LEMMA PartlyAll ==
    ASSUME NEW s \in Packed, NEW p, NEW names \in Seq(Attrs), NEW o \in Oid, obj[p][0] # "USEROBJECT"
    PROVE  Partly(s, put_rows(s, p, o, names), p, o, names, Len(names))
<1>1. PICK f : Rowwise(f, s, p, o, names) /\ put_rows(s, p, o, names) = f[Len(names)]
  BY RowsArePacked
<1> DEFINE n == Len(names)
           S == {k \in 0 .. n : Partly(s, f[k], p, o, names, k)}
<1>2. n \in Nat /\ \A k \in 1 .. n : names[k] \in Attrs
  BY LenProperties, ElementOfSeq
<1>3. /\ f[0] = put_object(s, p, o) /\ f \in [0 .. n -> Packed]
      /\ \A k \in 1 .. n : f[k] = put_row(f[k - 1], p, o, names[k])
  BY <1>1 DEF Rowwise
<1> HIDE DEF n
<1>4. 0 \in S
  <2> DEFINE t == put_row(s, p, o, Tmstmp)
  <2>1. t = f[0]
    BY <1>3 DEF put_row
  <2>2. /\ t \in Packed
        /\ On(s) \subseteq On(t)
        /\ t.cont = s.cont \/ (s.cont = 0 /\ t.cont = o)
        /\ t.cont = 0 /\ Has(p, o, Tmstmp) => Owed(o, Tmstmp) \in On(t)
    BY RowPut
  <2>3. (Has(p, o, Tmstmp) <=> Started(p, o)) /\ Owed(o, Tmstmp) = Ode(o)
    BY DEF Has, Started, Owed
  <2>4. Ode(o) \in On(t) => t.out # <<>>
    BY DEF On
  <2> HIDE DEF t
  <2>5. Partly(s, t, p, o, names, 0)
    BY <2>2, <2>3, <2>4 DEF Partly
  <2> QED
    BY <1>2, <2>1, <2>5
<1>5. ASSUME NEW k \in 1 .. n, k - 1 \in S PROVE k \in S
  <2> DEFINE t == f[k - 1]
             u == put_row(t, p, o, names[k])
  <2>1. u = f[k] /\ names[k] \in Attrs /\ k - 1 \in 0 .. n /\ k \in 0 .. n
    BY <1>2, <1>3
  <2>2. Partly(s, t, p, o, names, k - 1)
    BY <1>5
  <2>3. t \in Packed
    BY <2>2 DEF Partly
  <2> HIDE DEF t
  <2>4. /\ u \in Packed
        /\ On(t) \subseteq On(u) /\ (u.out = <<>> => t.out = <<>>)
        /\ u.cont = t.cont \/ (t.cont = 0 /\ u.cont = o)
        /\ u.cont = 0 /\ Has(p, o, names[k]) /\ (names[k] = Tmstmp \/ t.out # <<>>)
             => Owed(o, names[k]) \in On(u)
    BY <2>1, <2>3, RowPut
  <2> HIDE DEF u
  <2>5. On(s) \subseteq On(u) /\ (u.cont = s.cont \/ (s.cont = 0 /\ u.cont = o))
    BY <2>2, <2>4 DEF Partly
  <2>6. ASSUME Started(p, o), u.cont = 0
        PROVE  /\ Ode(o) \in On(u) /\ u.out # <<>>
               /\ \A m \in 1 .. k : names[m] # Tmstmp /\ <<p, o, names[m]>> \in attr
                                      => ValueEntry(o, names[m], TRUE) \in On(u)
    <3>1. o # 0 /\ t.cont = 0
      BY <2>4, <2>6 DEF Started
    <3>2. /\ Ode(o) \in On(t) /\ t.out # <<>>
          /\ \A m \in 1 .. k - 1 : names[m] # Tmstmp /\ <<p, o, names[m]>> \in attr
                                     => ValueEntry(o, names[m], TRUE) \in On(t)
      BY <2>2, <2>6, <3>1 DEF Partly
    <3>3. ASSUME names[k] # Tmstmp, <<p, o, names[k]>> \in attr
          PROVE  ValueEntry(o, names[k], TRUE) \in On(u)
      BY <2>4, <2>6, <3>2, <3>3 DEF Has, Started, Owed
    <3>4. \A m \in 1 .. k : m = k \/ m \in 1 .. k - 1
      BY <1>2
    <3> QED
      BY <2>4, <3>2, <3>3, <3>4
  <2>7. Partly(s, u, p, o, names, k)
    BY <2>4, <2>5, <2>6 DEF Partly
  <2> QED
    BY <2>1, <2>7
<1> HIDE DEF S
<1>6. n \in S
  <2>1. n \in 0 .. n
    BY <1>2
  <2> QED
    BY <1>2, <1>4, <1>5, <2>1, BoundedInduction
<1> QED
  BY <1>1, <1>6 DEF S, n

\* The rows of one object more.
LEMMA CoverMore ==
    ASSUME NEW s, NEW p, NEW names \in Seq(Attrs), NEW initial \in Nat, NEW o \in Oid,
           obj[p][0] # "USEROBJECT", Covered(s, p, names, initial, o - 1)
    PROVE  Covered(put_rows(s, p, o, names), p, names, initial, o)
<1> DEFINE u == put_rows(s, p, o, names)
<1>1. s \in Packed /\ o \in Nat /\ Oid \subseteq Nat
  BY Inputs DEF Covered
<1>2. Partly(s, u, p, o, names, Len(names))
  BY <1>1, PartlyAll
<1> HIDE DEF u
<1>3. u \in Packed /\ On(s) \subseteq On(u) /\ (u.cont = s.cont \/ (s.cont = 0 /\ u.cont = o))
  BY <1>2 DEF Partly
<1>4. s.cont \in Nat /\ u.cont \in Nat /\ (s.cont # 0 => s.cont <= o - 1)
  BY <1>1, <1>3 DEF Packed, Covered
<1>5. u.cont # 0 => u.cont <= o
  BY <1>1, <1>3, <1>4
<1>6. DOMAIN names = 1 .. Len(names)
  BY LenProperties
<1>7. ASSUME NEW i \in Oid, Started(p, i), initial <= i, i <= o, u.cont = 0 \/ i < u.cont
      PROVE  Full(u, p, i, names)
  <2>1. i \in Nat
    BY <1>1
  <2>2. CASE i = o
    <3>1. u.cont = 0
      BY <1>1, <1>4, <1>5, <1>7, <2>2
    <3> QED
      BY <1>2, <1>6, <1>7, <2>2, <3>1 DEF Partly, Full
  <2>3. CASE i # o
    <3>1. i <= o - 1
      BY <1>1, <1>7, <2>1, <2>3
    <3>2. s.cont = 0 \/ i < s.cont
      BY <1>3, <1>7
    <3>3. Full(s, p, i, names)
      BY <1>7, <3>1, <3>2 DEF Covered
    <3> QED
      BY <1>3, <3>3 DEF Full
  <2> QED
    BY <2>2, <2>3
<1> QED
  BY <1>3, <1>5, <1>7 DEF Covered, u

\* A page covers what it is asked for: what it leaves out lies at or behind its
\* continuation.
LEMMA PageCovers ==
    ASSUME NEW p, NEW names \in Seq(Attrs), NEW initial \in Nat, NEW room \in Int, obj[p][0] # "USEROBJECT"
    PROVE  Covered(mtq_list_oids_attr(p, names, initial, room), p, names, initial, MaxOid)
<1>1. PICK w : Packs(w, p, names, initial, room) /\ mtq_list_oids_attr(p, names, initial, room) = w[MaxOid]
  BY PageIsPacked
<1>2. MaxOid \in Nat /\ Oid = 0 .. MaxOid
  BY IdAssumption, Inputs DEF Oid
<1> DEFINE n == MaxOid + 1
           S == {k \in 0 .. n : Covered(w[k - 1], p, names, initial, k - 1)}
<1>3. ASSUME NEW o \in -1 .. MaxOid
      PROVE  w[o] = IF o < initial THEN [out |-> <<>>, room |-> room, cont |-> 0]
                    ELSE put_rows(w[o - 1], p, o, names)
  BY <1>1, Zenon DEF Packs
<1>4. ASSUME NEW o \in -1 .. MaxOid, o < initial PROVE Covered(w[o], p, names, initial, o)
  <2>1. w[o] = [out |-> <<>>, room |-> room, cont |-> 0]
    BY <1>3, <1>4
  <2>2. w[o] \in Packed /\ w[o].cont = 0
    BY <2>1 DEF Packed
  <2>3. ASSUME NEW i \in Oid, initial <= i, i <= o PROVE FALSE
    BY <1>2, <1>4, <2>3
  <2> QED
    BY <2>2, <2>3 DEF Covered
<1>5. 0 \in S
  <2>1. 0 \in 0 .. n /\ 0 - 1 = -1 /\ -1 \in -1 .. MaxOid /\ -1 < initial
    BY <1>2
  <2>2. Covered(w[-1], p, names, initial, -1)
    BY <1>4, <2>1
  <2> QED
    BY <2>1, <2>2
<1>6. ASSUME NEW k \in 1 .. n, k - 1 \in S PROVE k \in S
  <2> DEFINE o == k - 1
  <2>1. o \in Oid /\ o \in -1 .. MaxOid /\ k \in 0 .. n
    BY <1>2
  <2>2. Covered(w[o - 1], p, names, initial, o - 1)
    BY <1>6
  <2> HIDE DEF o
  <2>3. Covered(w[o], p, names, initial, o)
    <3>1. CASE o < initial
      BY <1>4, <2>1, <3>1
    <3>2. CASE ~(o < initial)
      <4>1. w[o] = put_rows(w[o - 1], p, o, names)
        BY <1>3, <2>1, <3>2
      <4> QED
        BY <2>1, <2>2, <4>1, CoverMore
    <3> QED
      BY <3>1, <3>2
  <2> QED
    BY <2>1, <2>3 DEF o
<1>7. n \in Nat /\ n \in 0 .. n /\ n - 1 = MaxOid
  BY <1>2
<1> HIDE DEF S
<1>8. n \in S
  BY <1>5, <1>6, <1>7, BoundedInduction
<1>9. Covered(w[n - 1], p, names, initial, n - 1)
  BY <1>8 DEF S
<1> QED
  BY <1>1, <1>7, <1>9

\* A page that begins with room for one object, the longest entries for all the
\* attributes and the smallest one more, has room for the object initial.
LEMMA FirstFits ==
    ASSUME NEW p, NEW names \in Seq(Attrs), NEW o \in Oid, obj[p][0] # "USEROBJECT",
           NEW s \in Packed, s.cont = 0, s.room >= 16 + MaxEntry * Len(names) + 16
    PROVE  put_rows(s, p, o, names).cont = 0
<1>1. PICK f : Rowwise(f, s, p, o, names) /\ put_rows(s, p, o, names) = f[Len(names)]
  BY RowsArePacked
<1> DEFINE n == Len(names)
           S == {k \in 0 .. n : f[k].cont = 0 /\ f[k].room >= MaxEntry * (n - k) + 16}
<1>2. n \in Nat /\ s.room \in Int /\ MaxEntry = 32 /\ \A k \in 1 .. n : names[k] \in Attrs
  BY LenProperties, ElementOfSeq DEF Packed, MaxEntry
<1>3. /\ f[0] = put_object(s, p, o) /\ f \in [0 .. n -> Packed]
      /\ \A k \in 1 .. n : f[k] = put_row(f[k - 1], p, o, names[k])
  BY <1>1 DEF Rowwise
<1>4. s.room >= 16 + MaxEntry * n + 16
  OBVIOUS
<1> HIDE DEF n
<1>5. 0 \in S
  <2>1. s.room >= 16
    BY <1>2, <1>4
  <2>2. f[0].cont = 0 /\ f[0].room >= s.room - 16 /\ f[0].room \in Int
    <3>1. \/ f[0] = s
          \/ f[0].room = s.room - 16 /\ f[0].cont = s.cont
      BY <1>2, <1>3, <2>1, ObjectPut
    <3> QED
      BY <1>2, <3>1
  <2> QED
    BY <1>2, <1>4, <2>2
<1>6. ASSUME NEW k \in 1 .. n, k - 1 \in S PROVE k \in S
  <2> DEFINE t == f[k - 1]
             u == put_row(t, p, o, names[k])
  <2>1. /\ u = f[k] /\ names[k] \in Attrs /\ k \in 0 .. n /\ k - 1 \in 0 .. n
        /\ t \in Packed /\ t.cont = 0 /\ t.room >= MaxEntry * (n - (k - 1)) + 16
    BY <1>2, <1>3, <1>6
  <2> HIDE DEF t
  <2>2. t.room \in Int /\ t.room >= MaxEntry * (n - k) + MaxEntry + 16
    BY <1>2, <2>1 DEF Packed
  <2>3. t.room >= MaxEntry + 16
    BY <1>2, <2>2
  <2>4. u \in Packed /\ u.cont = t.cont /\ u.room >= t.room - MaxEntry
    BY <2>1, <2>3, RowPut
  <2> HIDE DEF u
  <2>5. u.room \in Int
    BY <2>4 DEF Packed
  <2>6. u.cont = 0 /\ u.room >= MaxEntry * (n - k) + 16
    BY <1>2, <2>1, <2>2, <2>4, <2>5
  <2> QED
    BY <2>1, <2>6
<1> HIDE DEF S
<1>7. n \in S
  <2>1. n \in 0 .. n
    BY <1>2
  <2> QED
    BY <1>2, <1>5, <1>6, <2>1, BoundedInduction
<1> QED
  BY <1>1, <1>7 DEF S, n

\* Such a page is the last, or its continuation lies behind initial.
LEMMA PageAdvances ==
    ASSUME NEW p, NEW names \in Seq(Attrs), NEW initial \in Nat, NEW room \in Int,
           obj[p][0] # "USEROBJECT", room >= 16 + MaxEntry * Len(names) + 16
    PROVE  LET s == mtq_list_oids_attr(p, names, initial, room)
           IN  s.cont \in Nat /\ (s.cont = 0 \/ s.cont > initial)
<1>1. PICK w : Packs(w, p, names, initial, room) /\ mtq_list_oids_attr(p, names, initial, room) = w[MaxOid]
  BY PageIsPacked
<1>2. MaxOid \in Nat /\ Oid = 0 .. MaxOid
  BY IdAssumption, Inputs DEF Oid
<1> DEFINE n == MaxOid + 1
           base == [out |-> <<>>, room |-> room, cont |-> 0]
           S == {k \in 0 .. n : /\ w[k - 1] \in Packed
                                /\ k <= initial => w[k - 1] = base
                                /\ w[k - 1].cont = 0 \/ w[k - 1].cont > initial}
<1>3. ASSUME NEW o \in -1 .. MaxOid
      PROVE  w[o] = IF o < initial THEN base ELSE put_rows(w[o - 1], p, o, names)
  BY <1>1, Zenon DEF Packs
<1>4. base \in Packed /\ base.cont = 0 /\ base.room = room
  BY DEF Packed
<1> HIDE DEF base
<1>5. 0 \in S
  <2>1. 0 \in 0 .. n /\ 0 - 1 = -1 /\ -1 \in -1 .. MaxOid /\ -1 < initial
    BY <1>2
  <2>2. w[-1] = base
    BY <1>3, <2>1
  <2> QED
    BY <1>4, <2>1, <2>2
<1>6. ASSUME NEW k \in 1 .. n, k - 1 \in S PROVE k \in S
  <2> DEFINE o == k - 1
             s == w[o - 1]
             t == w[o]
  <2>1. o \in Oid /\ o \in -1 .. MaxOid /\ k \in 0 .. n /\ o \in Nat
    BY <1>2
  <2>2. s \in Packed /\ (o <= initial => s = base) /\ (s.cont = 0 \/ s.cont > initial)
    BY <1>6
  <2>3. t = IF o < initial THEN base ELSE put_rows(s, p, o, names)
    BY <1>3, <2>1
  <2> HIDE DEF o, s, t
  <2>4. CASE o < initial
    <3>1. t = base /\ (k <= initial => t = base)
      BY <2>3, <2>4
    <3> QED
      BY <1>4, <2>1, <3>1 DEF t, o
  <2>5. CASE o = initial
    <3>1. s = base /\ t = put_rows(s, p, o, names)
      BY <2>1, <2>2, <2>3, <2>5
    <3>2. s \in Packed /\ s.cont = 0 /\ s.room >= 16 + MaxEntry * Len(names) + 16
      BY <1>4, <3>1
    <3>3. t.cont = 0 /\ t \in Packed
      BY <2>1, <3>1, <3>2, FirstFits, RowsPut
    <3>4. ~(k <= initial)
      BY <2>1, <2>5 DEF o
    <3> QED
      BY <2>1, <3>3, <3>4 DEF t, o
  <2>6. CASE o > initial
    <3>1. t = put_rows(s, p, o, names)
      BY <2>1, <2>3, <2>6
    <3>2. Partly(s, t, p, o, names, Len(names))
      BY <2>1, <2>2, <3>1, PartlyAll
    <3>3. t \in Packed /\ (t.cont = s.cont \/ t.cont = o)
      BY <3>2 DEF Partly
    <3>4. t.cont = 0 \/ t.cont > initial
      BY <2>2, <2>6, <3>3
    <3>5. ~(k <= initial)
      BY <2>1, <2>6 DEF o
    <3> QED
      BY <2>1, <3>3, <3>4, <3>5 DEF t, o
  <2> QED
    BY <2>1, <2>4, <2>5, <2>6
<1>7. n \in Nat /\ n \in 0 .. n /\ n - 1 = MaxOid
  BY <1>2
<1> HIDE DEF S
<1>8. n \in S
  BY <1>5, <1>6, <1>7, BoundedInduction
<1>9. w[n - 1] \in Packed /\ (w[n - 1].cont = 0 \/ w[n - 1].cont > initial)
  BY <1>8 DEF S
<1> QED
  BY <1>1, <1>7, <1>9 DEF Packed

\* Every value follows its object, or another value of it.
InPlace(s) ==
    \A i \in DOMAIN s.out : s.out[i].part = "attr" => i > 1 /\ s.out[i - 1].oid = s.out[i].oid

LEMMA StaysInPlace ==
    ASSUME NEW s \in Packed, InPlace(s), NEW x \in Items, NEW t, t.out = Append(s.out, x),
           x.part = "object" \/ (Len(s.out) > 0 /\ s.out[Len(s.out)].oid = x.oid)
    PROVE  InPlace(t) /\ Len(t.out) > 0 /\ t.out[Len(t.out)] = x
<1> DEFINE out == t.out
           n == Len(s.out)
<1>1. out = Append(s.out, x)
  OBVIOUS
<1> HIDE DEF out
<1>2. /\ DOMAIN out = 1 .. n + 1 /\ n \in Nat /\ DOMAIN s.out = 1 .. n
      /\ out[n + 1] = x
      /\ \A i \in 1 .. n : out[i] = s.out[i]
  BY <1>1, Appended
<1>3. x.part = "object" \/ (n > 0 /\ s.out[n].oid = x.oid)
  OBVIOUS
<1>4. \A i \in 1 .. n : s.out[i].part = "attr" => i > 1 /\ s.out[i - 1].oid = s.out[i].oid
  BY <1>2 DEF InPlace
<1>7. Len(out) = n + 1
  BY <1>1, AppendProperties DEF Packed
<1> HIDE DEF n
<1>5. ASSUME NEW i \in 1 .. n + 1, out[i].part = "attr" PROVE i > 1 /\ out[i - 1].oid = out[i].oid
  <2>1. CASE i = n + 1
    <3>1. n > 0 /\ s.out[n].oid = x.oid /\ out[i] = x
      BY <1>2, <1>3, <1>5, <2>1
    <3>2. i > 1 /\ i - 1 = n /\ n \in 1 .. n
      BY <1>2, <2>1, <3>1
    <3> QED
      BY <1>2, <3>1, <3>2
  <2>2. CASE i # n + 1
    <3>1. i \in 1 .. n
      BY <1>2, <2>2
    <3>2. i > 1 /\ s.out[i - 1].oid = s.out[i].oid
      BY <1>2, <1>4, <1>5, <3>1
    <3>3. i - 1 \in 1 .. n
      BY <1>2, <3>1, <3>2
    <3> QED
      BY <1>2, <3>1, <3>2, <3>3
  <2> QED
    BY <2>1, <2>2
<1>6. \A i \in DOMAIN out : out[i].part = "attr" => i > 1 /\ out[i - 1].oid = out[i].oid
  BY <1>2, <1>5
<1> QED
  BY <1>2, <1>6, <1>7 DEF InPlace, out

\* While there is room, the page ends with what belongs to the object being put.
EndsWith(s, o) == s.room >= 16 => Len(s.out) > 0 /\ s.out[Len(s.out)].oid = o

LEMMA PutInPlace ==
    ASSUME NEW s \in Packed, InPlace(s), NEW p, NEW o \in Oid, NEW a \in Attrs \cup {Tmstmp},
           Has(p, o, a) => Started(p, o), a = Tmstmp \/ (Started(p, o) => EndsWith(s, o))
    PROVE  LET t == put_row(s, p, o, a) IN InPlace(t) /\ (Started(p, o) => EndsWith(t, o))
<1> DEFINE t == put_row(s, p, o, a)
<1>1. s.room \in Int
  BY DEF Packed
<1>2. CASE a = Tmstmp
  <2>1. t = put_object(s, p, o)
    BY <1>2 DEF put_row
  <2>2. Ode(o) \in Items /\ Ode(o).part = "object" /\ Ode(o).oid = o
    BY DEF Items, Ode
  <2> HIDE DEF t
  <2>3. \/ ~Started(p, o) /\ t = s
        \/ Started(p, o) /\ t.out = Append(s.out, Ode(o))
        \/ Started(p, o) /\ s.room < 16 /\ t.out = s.out /\ t.room = s.room
    BY <2>1, ObjectPut
  <2>4. CASE ~Started(p, o) /\ t = s
    BY <2>4 DEF t
  <2>5. CASE Started(p, o) /\ t.out = Append(s.out, Ode(o))
    <3>1. InPlace(t) /\ Len(t.out) > 0 /\ t.out[Len(t.out)] = Ode(o)
      BY <2>2, <2>5, StaysInPlace
    <3> QED
      BY <2>2, <3>1 DEF EndsWith, t
  <2>6. CASE Started(p, o) /\ s.room < 16 /\ t.out = s.out /\ t.room = s.room
    BY <1>1, <2>6 DEF InPlace, EndsWith, t
  <2> QED
    BY <2>3, <2>4, <2>5, <2>6
<1>3. CASE a # Tmstmp
  <2>1. t = put_attr(s, p, o, a) /\ a \in Attrs
    BY <1>3 DEF put_row
  <2> HIDE DEF t
  <2>2. \/ ~Has(p, o, a) /\ t = s
        \/ Has(p, o, a) /\ s.room >= 16 /\ \E b \in BOOLEAN : t.out = Append(s.out, ValueEntry(o, a, b))
        \/ Has(p, o, a) /\ s.room < 16 /\ t.out = s.out /\ t.room = s.room
    <3> DEFINE u == put_attr(s, p, o, a)
    <3>1. /\ u \in Packed
          /\ s.room >= MaxEntry + 16 => u.cont = s.cont /\ u.room >= s.room - MaxEntry
          /\ \/ ~Has(p, o, a) /\ u = s
             \/ /\ Has(p, o, a) /\ s.room >= 16
                /\ \E b \in BOOLEAN :
                     /\ u.out = Append(s.out, ValueEntry(o, a, b))
                     /\ (b /\ u.cont = s.cont) \/ u.cont = FirstLeft(s, o)
             \/ /\ Has(p, o, a) /\ s.room < 16
                /\ u.out = s.out /\ u.room = s.room
                /\ u.cont = IF s.out = <<>> THEN s.cont ELSE FirstLeft(s, o)
      BY <2>1, AttrPut
    <3> HIDE DEF u
    <3>2. t = u
      BY <2>1 DEF u
    <3> QED
      BY <3>1, <3>2, Zenon
  <2>3. CASE t = s
    BY <1>3, <2>3 DEF t
  <2>4. ASSUME NEW b \in BOOLEAN, Has(p, o, a), s.room >= 16, t.out = Append(s.out, ValueEntry(o, a, b))
        PROVE  InPlace(t) /\ EndsWith(t, o)
    <3>1. ValueEntry(o, a, b) \in Items /\ ValueEntry(o, a, b).oid = o
      BY <2>1 DEF Items, ValueEntry
    <3>2. Len(s.out) > 0 /\ s.out[Len(s.out)].oid = o
      BY <1>3, <2>4 DEF EndsWith
    <3>3. InPlace(t) /\ Len(t.out) > 0 /\ t.out[Len(t.out)] = ValueEntry(o, a, b)
      BY <2>4, <3>1, <3>2, StaysInPlace
    <3> QED
      BY <3>1, <3>3 DEF EndsWith
  <2>5. CASE s.room < 16 /\ t.out = s.out /\ t.room = s.room
    BY <1>1, <2>5 DEF InPlace, EndsWith, t
  <2> QED
    BY <2>2, <2>3, <2>4, <2>5 DEF t
<1> QED
  BY <1>2, <1>3

LEMMA PlaceMore ==
    ASSUME NEW s \in Packed, InPlace(s), NEW p, NEW o \in Oid, NEW names \in Seq(Attrs),
           \A n \in DOMAIN names : Has(p, o, names[n]) => Started(p, o)
    PROVE  InPlace(put_rows(s, p, o, names))
<1>1. PICK f : Rowwise(f, s, p, o, names) /\ put_rows(s, p, o, names) = f[Len(names)]
  BY RowsArePacked
<1> DEFINE n == Len(names)
           S == {k \in 0 .. n : InPlace(f[k]) /\ (Started(p, o) => EndsWith(f[k], o))}
<1>2. n \in Nat /\ DOMAIN names = 1 .. n /\ \A k \in 1 .. n : names[k] \in Attrs
  BY LenProperties, ElementOfSeq
<1>3. /\ f[0] = put_object(s, p, o) /\ f \in [0 .. n -> Packed]
      /\ \A k \in 1 .. n : f[k] = put_row(f[k - 1], p, o, names[k])
  BY <1>1 DEF Rowwise
<1> HIDE DEF n
<1>4. 0 \in S
  <2>1. f[0] = put_row(s, p, o, Tmstmp) /\ (Has(p, o, Tmstmp) => Started(p, o))
    BY <1>3 DEF put_row, Has, Started
  <2>2. InPlace(f[0]) /\ (Started(p, o) => EndsWith(f[0], o))
    BY <2>1, PutInPlace
  <2> QED
    BY <1>2, <2>2
<1>5. ASSUME NEW k \in 1 .. n, k - 1 \in S PROVE k \in S
  <2> DEFINE t == f[k - 1]
  <2>1. /\ f[k] = put_row(t, p, o, names[k]) /\ names[k] \in Attrs /\ k \in 0 .. n
        /\ t \in Packed /\ InPlace(t) /\ (Started(p, o) => EndsWith(t, o))
        /\ Has(p, o, names[k]) => Started(p, o)
    BY <1>2, <1>3, <1>5
  <2> HIDE DEF t
  <2>2. InPlace(f[k]) /\ (Started(p, o) => EndsWith(f[k], o))
    BY <2>1, PutInPlace
  <2> QED
    BY <2>1, <2>2
<1> HIDE DEF S
<1>6. n \in S
  <2>1. n \in 0 .. n
    BY <1>2
  <2> QED
    BY <1>2, <1>4, <1>5, <2>1, BoundedInduction
<1> QED
  BY <1>1, <1>6 DEF S, n

\* On a page every value follows its object or another value of it, if every
\* object that has one of the attributes has been initialised.
LEMMA PageInPlace ==
    ASSUME NEW p, NEW names \in Seq(Attrs), NEW initial \in Nat, NEW room \in Int,
           \A o \in Oid, n \in DOMAIN names : <<p, o, names[n]>> \in attr => <<p, o, Tmstmp>> \in attr
    PROVE  InPlace(mtq_list_oids_attr(p, names, initial, room))
<1>1. PICK w : Packs(w, p, names, initial, room) /\ mtq_list_oids_attr(p, names, initial, room) = w[MaxOid]
  BY PageIsPacked
<1>2. MaxOid \in Nat /\ Oid = 0 .. MaxOid
  BY IdAssumption, Inputs DEF Oid
<1> DEFINE n == MaxOid + 1
           S == {k \in 0 .. n : w[k - 1] \in Packed /\ InPlace(w[k - 1])}
<1>3. ASSUME NEW o \in -1 .. MaxOid
      PROVE  w[o] = IF o < initial THEN [out |-> <<>>, room |-> room, cont |-> 0]
                    ELSE put_rows(w[o - 1], p, o, names)
  BY <1>1, Zenon DEF Packs
<1>4. ASSUME NEW o \in -1 .. MaxOid, o < initial PROVE w[o] \in Packed /\ InPlace(w[o])
  <2>1. w[o] = [out |-> <<>>, room |-> room, cont |-> 0]
    BY <1>3, <1>4
  <2> QED
    BY <2>1 DEF Packed, InPlace
<1>5. 0 \in S
  <2>1. 0 \in 0 .. n /\ 0 - 1 = -1 /\ -1 \in -1 .. MaxOid /\ -1 < initial
    BY <1>2
  <2>2. w[-1] \in Packed /\ InPlace(w[-1])
    BY <1>4, <2>1
  <2> QED
    BY <2>1, <2>2
<1>6. ASSUME NEW k \in 1 .. n, k - 1 \in S PROVE k \in S
  <2> DEFINE o == k - 1
  <2>1. o \in Oid /\ o \in -1 .. MaxOid /\ k \in 0 .. n
    BY <1>2
  <2>2. w[o - 1] \in Packed /\ InPlace(w[o - 1])
    BY <1>6
  <2> HIDE DEF o
  <2>3. w[o] \in Packed /\ InPlace(w[o])
    <3>1. CASE o < initial
      BY <1>4, <2>1, <3>1
    <3>2. CASE ~(o < initial)
      <4>1. w[o] = put_rows(w[o - 1], p, o, names)
        BY <1>3, <2>1, <3>2
      <4>2. \A m \in DOMAIN names : Has(p, o, names[m]) => Started(p, o)
        BY <2>1 DEF Has, Started
      <4> QED
        BY <2>1, <2>2, <4>1, <4>2, RowsPut, PlaceMore
    <3> QED
      BY <3>1, <3>2
  <2> QED
    BY <2>1, <2>3 DEF o
<1>7. n \in Nat /\ n \in 0 .. n /\ n - 1 = MaxOid
  BY <1>2
<1> HIDE DEF S
<1>8. n \in S
  BY <1>5, <1>6, <1>7, BoundedInduction
<1>9. InPlace(w[n - 1])
  BY <1>8 DEF S
<1> QED
  BY <1>1, <1>7, <1>9

-----------------------------------------------------------------------------
(* Walks                                                                      *)

RecordOf(w) ==
    [phase |-> w.phase, kind |-> w.kind, pid |-> w.pid, cid |-> w.cid, names |-> w.names,
     alloc |-> w.alloc, next |-> w.next, must |-> w.must, seen |-> w.seen, twice |-> w.twice]

\* The walk after a step, by its value.
LEMMA WalkIs ==
    ASSUME NEW v, walk' = v, v = RecordOf(v), v.phase \in {"going", "over"}, v.pid \in Pid,
           v.kind # "LIST_ATTR" => PlainWalk(v)', v.kind = "LIST_ATTR" => AttrWalk(v)'
    PROVE  WalkOK'
<1>1. listed(walk.kind, walk.pid, walk.cid)' = listed(v.kind, v.pid, v.cid)'
  BY DEF listed
<1>2. PlainWalk(v)' => PlainWalk(walk)'
  BY <1>1 DEF PlainWalk
<1>3. walk' = [phase |-> walk'.phase, kind |-> walk'.kind, pid |-> walk'.pid, cid |-> walk'.cid,
               names |-> walk'.names, alloc |-> walk'.alloc, next |-> walk'.next,
               must |-> walk'.must, seen |-> walk'.seen, twice |-> walk'.twice]
  BY DEF RecordOf
<1>4. AttrWalk(v)' => AttrWalk(walk)'
  BY DEF AttrWalk, Started
<1> QED
  BY <1>2, <1>3, <1>4 DEF WalkOK, WalkShape

\* What a list is about depends on the fields that a walk keeps.
LEMMA SameSubject ==
    ASSUME NEW v, NEW w, v.kind = w.kind, v.pid = w.pid, v.cid = w.cid
    PROVE  listed(v.kind, v.pid, v.cid)' = listed(w.kind, w.pid, w.cid)'
BY DEF listed

\* Between its pages a walk owes less and less.
LEMMA WalkGoesOn == ASSUME WalkOK, walk_goes_on PROVE WalkOK'
<1>1. PICK w \in {walk} : walk' = IF w.phase = "none" THEN w ELSE [w EXCEPT !.must = @ \cap to_report(w)']
  BY DEF walk_goes_on
<1>2. CASE walk = NoWalk
  BY <1>1, <1>2 DEF NoWalk, WalkOK
<1>3. CASE WalkShape(walk)
  <2>1. WalkShape(w) /\ w.phase \in {"going", "over"} /\ w.pid \in Pid
    BY <1>3 DEF WalkShape
  <2>2. w = [phase |-> w.phase, kind |-> w.kind, pid |-> w.pid, cid |-> w.cid, names |-> w.names,
             alloc |-> w.alloc, next |-> w.next, must |-> w.must, seen |-> w.seen, twice |-> w.twice]
    BY <2>1 DEF WalkShape
  <2> DEFINE must == w.must \cap to_report(w)'
  <2>3. walk' = [w EXCEPT !.must = must]
    BY <1>1, <2>1
  <2>4. must \subseteq w.must /\ (w.kind # "LIST_ATTR" => must \subseteq listed(w.kind, w.pid, w.cid)')
    BY DEF to_report
  <2>9. w.kind = "LIST_ATTR" => \A i \in must : i \in Oid /\ Started(w.pid, i)'
    BY DEF to_report, obj_get_oids_in_pid, Started
  <2> HIDE DEF must
  <2> SUFFICES ASSUME NEW v, walk' = v PROVE WalkOK'
    OBVIOUS
  <2>5. v = [w EXCEPT !.must = must]
    BY <2>3
  <2>6. /\ v.phase = w.phase /\ v.kind = w.kind /\ v.pid = w.pid /\ v.cid = w.cid
        /\ v.alloc = w.alloc /\ v.next = w.next /\ v.must = must /\ v.names = w.names
        /\ v.seen = w.seen /\ v.twice = w.twice
    BY <2>2, <2>5
  <2>7. v = RecordOf(v)
    BY <2>2, <2>5 DEF RecordOf
  <2>8. v.kind # "LIST_ATTR" => PlainWalk(v)'
    <3> SUFFICES ASSUME v.kind # "LIST_ATTR" PROVE PlainWalk(v)'
      OBVIOUS
    <3>1. PlainWalk(w)
      BY <2>1, <2>6 DEF WalkShape
    <3>2. v.must \subseteq listed(v.kind, v.pid, v.cid)'
      BY <2>4, <2>6, SameSubject
    <3> QED
      BY <2>4, <2>6, <3>1, <3>2 DEF PlainWalk
  <2>10. v.kind = "LIST_ATTR" => AttrWalk(v)'
    <3> SUFFICES ASSUME v.kind = "LIST_ATTR" PROVE AttrWalk(v)'
      OBVIOUS
    <3>1. AttrWalk(w)
      BY <2>1, <2>6 DEF WalkShape
    <3> QED
      BY <2>4, <2>6, <2>9, <3>1 DEF AttrWalk, Started
  <2> QED
    BY <2>1, <2>6, <2>7, <2>8, <2>10, WalkIs
<1> QED
  BY <1>2, <1>3 DEF WalkOK

\* One page without attributes.
LEMMA PlainPage ==
    ASSUME Core, NEW w, WalkShape(w), w.kind # "LIST_ATTR", w.phase = "going", walk_page(w)
    PROVE  WalkOK'
<1>1. /\ PlainWalk(w) /\ w.pid \in Pid
      /\ w = [phase |-> w.phase, kind |-> w.kind, pid |-> w.pid, cid |-> w.cid, names |-> w.names,
              alloc |-> w.alloc, next |-> w.next, must |-> w.must, seen |-> w.seen, twice |-> w.twice]
  BY DEF WalkShape
<1>2. osd_list(w.kind, w.pid, w.cid, w.next, 0, w.alloc)
  BY DEF walk_page
<1>3. /\ w.alloc \in Nat /\ w.alloc >= 24 /\ w.cid \in Oid /\ w.kind \in {"LIST", "LIST_COLLECTION"}
      /\ w.next \in Nat /\ w.seen \subseteq Nat /\ w.twice = FALSE
      /\ w.must \subseteq listed(w.kind, w.pid, w.cid)
      /\ \A i \in w.must : i \in w.seen \/ i >= w.next
      /\ \A i \in w.seen : i < w.next
  BY <1>1 DEF PlainWalk, ListHeader
<1>4. UNCHANGED <<obj, coll>> /\ reply'.ret # "DIED"
  BY <1>2, <1>3 DEF osd_list, unbuffered, declined, looked, tables, ListHeader
<1>5. listed(w.kind, w.pid, w.cid)' = listed(w.kind, w.pid, w.cid)
  BY <1>4 DEF listed, obj_get_all_pids, obj_get_oids_in_pid, obj_get_cids_in_pid, coll_members
<1> DEFINE ids == listed(w.kind, w.pid, w.cid)
           pg == db_exec_id_rtrvl_stmt(ids, w.next, w.alloc - ListHeader)
<1>6. reported(w) = pg.ids /\ continuation(w) = pg.cont
  BY DEF reported, continuation, page_of, start_at
<1>7. /\ pg.ids \subseteq {i \in ids : i >= w.next}
      /\ pg.cont \in Nat
      /\ pg.cont = 0 => \A i \in ids : i >= w.next => i \in pg.ids
      /\ pg.cont # 0 =>
           /\ pg.cont >= w.next
           /\ \A i \in ids : i >= w.next => i \in pg.ids \/ i >= pg.cont
           /\ \A i \in pg.ids : i < pg.cont
  <2>1. ids \subseteq Nat \ {0} /\ IsFiniteSet(ids)
    BY <1>1, <1>3, ListedIds DEF Core
  <2>2. w.alloc - ListHeader \in Int
    BY <1>3 DEF ListHeader
  <2> HIDE DEF ids
  <2> DEFINE room == w.alloc - ListHeader
             start == w.next
  <2>3. room \in Int /\ start \in Nat
    BY <1>3, <2>2
  <2> HIDE DEF room, start
  <2>4. LET q == db_exec_id_rtrvl_stmt(ids, start, room)
        IN  /\ q.ids \subseteq {i \in ids : i >= start}
            /\ q.cont \in Nat
            /\ q.cont = 0 => \A i \in ids : i >= start => i \in q.ids
            /\ q.cont # 0 =>
                 /\ q.cont >= start
                 /\ \A i \in ids : i >= start => i \in q.ids \/ i >= q.cont
                 /\ \A i \in q.ids : i < q.cont
    BY <2>1, <2>3, PageInOrder
  <2> QED
    BY <2>4, Zenon DEF room, start
<1>8. ids \subseteq Nat
  BY <1>1, <1>3, ListedIds DEF Core
<1> HIDE DEF pg, ids
<1>9. CASE reply'.ret # "OSD_OK"
  <2>1. walk' = w
    BY <1>4, <1>9 DEF walk_page
  <2>2. PlainWalk(w)'
    BY <1>1, <1>5 DEF PlainWalk
  <2>3. w = RecordOf(w)
    BY <1>1 DEF RecordOf
  <2> QED
    BY <1>1, <2>1, <2>2, <2>3, WalkIs
<1>10. CASE reply'.ret = "OSD_OK"
  <2> DEFINE seen == w.seen \cup pg.ids
             ph == IF pg.cont = 0 THEN "over" ELSE "going"
             twice == w.twice \/ pg.ids \cap w.seen # {}
  <2>1. walk' = [w EXCEPT !.seen = seen, !.twice = twice, !.next = pg.cont, !.phase = ph]
    BY <1>6, <1>10 DEF walk_page
  <2>2. twice = FALSE
    <3> SUFFICES ASSUME NEW i, i \in pg.ids, i \in w.seen PROVE FALSE
      BY <1>3
    <3>1. i \in Nat /\ i >= w.next /\ i < w.next
      BY <1>3, <1>7, <1>8
    <3> QED
      BY <1>3, <3>1
  <2>3. seen \subseteq Nat
    BY <1>3, <1>7, <1>8
  <2>4. ASSUME NEW i \in w.must PROVE i \in seen \/ (ph = "going" /\ i >= pg.cont)
    <3>1. i \in ids
      BY <1>3 DEF ids
    <3> QED
      BY <1>3, <1>7, <3>1
  <2>5. ASSUME ph = "going", NEW i \in seen PROVE i < pg.cont
    <3>1. pg.cont # 0
      BY <2>5
    <3>2. CASE i \in pg.ids
      BY <1>7, <3>1, <3>2
    <3>3. CASE i \in w.seen
      <4>1. i \in Nat /\ i < w.next /\ pg.cont >= w.next
        BY <1>3, <1>7, <3>1, <3>3
      <4> QED
        BY <1>3, <1>7, <4>1
    <3> QED
      BY <3>2, <3>3
  <2>6. ph \in {"going", "over"}
    OBVIOUS
  <2> HIDE DEF seen, ph, twice
  <2> SUFFICES ASSUME NEW v, walk' = v PROVE WalkOK'
    OBVIOUS
  <2>7. v = [w EXCEPT !.seen = seen, !.twice = twice, !.next = pg.cont, !.phase = ph]
    BY <2>1
  <2>8. /\ v.phase = ph /\ v.kind = w.kind /\ v.pid = w.pid /\ v.cid = w.cid
        /\ v.alloc = w.alloc /\ v.next = pg.cont /\ v.must = w.must
        /\ v.seen = seen /\ v.twice = twice
    BY <1>1, <2>7
  <2>9. v = RecordOf(v)
    BY <1>1, <2>7 DEF RecordOf
  <2>10. v.must \subseteq listed(v.kind, v.pid, v.cid)'
    BY <1>3, <1>5, <2>8, SameSubject
  <2>11. PlainWalk(v)'
    BY <1>3, <1>7, <2>2, <2>3, <2>4, <2>5, <2>8, <2>10 DEF PlainWalk, ListHeader
  <2> QED
    BY <1>1, <2>6, <2>8, <2>9, <2>11, WalkIs
<1> QED
  BY <1>9, <1>10

\* One page with attributes.
LEMMA AttrPage ==
    ASSUME Core, NEW w, WalkShape(w), w.kind = "LIST_ATTR", w.phase = "going", walk_page(w)
    PROVE  WalkOK'
<1>1. /\ w.pid \in Pid /\ AttrWalk(w)
      /\ w = [phase |-> w.phase, kind |-> w.kind, pid |-> w.pid, cid |-> w.cid, names |-> w.names,
              alloc |-> w.alloc, next |-> w.next, must |-> w.must, seen |-> w.seen, twice |-> w.twice]
  BY DEF WalkShape
<1>2. /\ w.alloc \in Int /\ w.next \in Nat /\ w.names \in Seq(Attrs)
      /\ \A i \in w.must : i \in Oid /\ Started(w.pid, i) /\ (i \in w.seen \/ i >= w.next)
  BY <1>1 DEF AttrWalk
<1>3. osd_list_attr(w.pid, w.names, w.next, 0, w.alloc)
  BY DEF walk_page
<1>4. reply'.ret = "DIED" \/ UNCHANGED <<obj, attr>>
  <2>1. ASSUME NEW rep, looked(rep) PROVE UNCHANGED <<obj, attr>>
    BY <2>1 DEF looked, tables
  <2>2. ASSUME NEW req, NEW ret, declined(req, ret) PROVE UNCHANGED <<obj, attr>>
    BY <2>1, <2>2 DEF declined
  <2>3. ASSUME NEW req, answer(req, "DIED", NoVal) PROVE reply'.ret = "DIED"
    BY <2>3 DEF answer
  <2> QED
    BY <1>3, <2>1, <2>2, <2>3 DEF osd_list_attr, unbuffered
<1> DEFINE s == mtq_list_oids_attr(w.pid, w.names, w.next, w.alloc - ListHeader)
           new == {o \in Oid : /\ Ode(o) \in On(s)
                               /\ \A n \in {m \in DOMAIN w.names :
                                            w.names[m] # Tmstmp /\ <<w.pid, o, w.names[m]>> \in attr} :
                                    [part |-> "attr", oid |-> o, name |-> w.names[n], full |-> TRUE] \in On(s)}
<1>5. reported(w) = new /\ continuation(w) = s.cont
  BY DEF reported, continuation, On
<1>6. Covered(s, w.pid, w.names, w.next, MaxOid)
  <2>1. obj[w.pid][0] # "USEROBJECT"
    BY <1>1 DEF Core, ZeroFree
  <2>2. w.alloc - ListHeader \in Int
    BY <1>2 DEF ListHeader
  <2> QED
    BY <1>2, <2>1, <2>2, PageCovers
<1> HIDE DEF s
<1>7. \A i \in Oid : Full(s, w.pid, i, w.names) => i \in new
  BY DEF Full, ValueEntry
<1>8. s.cont \in Nat
  BY <1>6 DEF Covered, Packed
<1> HIDE DEF new
<1>9. ASSUME NEW i \in w.must PROVE i \in w.seen \cup new \/ (s.cont # 0 /\ i >= s.cont)
  <2>1. i \in Oid /\ i \in Nat /\ i <= MaxOid /\ Started(w.pid, i) /\ (i \in w.seen \/ i >= w.next)
    BY <1>2, IdAssumption, Inputs DEF Oid
  <2>2. CASE i \in w.seen
    BY <2>2
  <2>3. CASE i >= w.next /\ (s.cont = 0 \/ i < s.cont)
    <3>1. w.next <= i
      BY <1>2, <2>1, <2>3
    <3>2. Full(s, w.pid, i, w.names)
      BY <1>6, <2>1, <2>3, <3>1 DEF Covered
    <3> QED
      BY <1>7, <2>1, <3>2
  <2> QED
    BY <1>8, <2>1, <2>2, <2>3
<1>10. CASE reply'.ret = "DIED"
  BY <1>10 DEF walk_page, WalkOK
<1>11. CASE reply'.ret # "DIED" /\ reply'.ret # "OSD_OK"
  <2>1. walk' = w /\ UNCHANGED <<obj, attr>>
    BY <1>4, <1>11 DEF walk_page
  <2>2. AttrWalk(w)'
    BY <1>1, <2>1 DEF AttrWalk, Started
  <2>3. w = RecordOf(w)
    BY <1>1 DEF RecordOf
  <2> QED
    BY <1>1, <2>1, <2>2, <2>3, WalkIs
<1>12. CASE reply'.ret = "OSD_OK"
  <2> DEFINE seen == w.seen \cup new
             twice == w.twice \/ new \cap w.seen # {}
             ph == IF s.cont = 0 THEN "over" ELSE "going"
  <2>1. walk' = [w EXCEPT !.seen = seen, !.twice = twice, !.next = s.cont, !.phase = ph]
    BY <1>5, <1>12 DEF walk_page
  <2>2. UNCHANGED <<obj, attr>>
    BY <1>4, <1>12
  <2>3. ASSUME NEW i \in w.must PROVE i \in seen \/ (ph = "going" /\ i >= s.cont)
    BY <1>9
  <2>4. ph \in {"going", "over"}
    OBVIOUS
  <2> HIDE DEF seen, twice, ph
  <2> SUFFICES ASSUME NEW v, walk' = v PROVE WalkOK'
    OBVIOUS
  <2>5. v = [w EXCEPT !.seen = seen, !.twice = twice, !.next = s.cont, !.phase = ph]
    BY <2>1
  <2>6. /\ v.phase = ph /\ v.kind = "LIST_ATTR" /\ v.pid = w.pid /\ v.alloc = w.alloc /\ v.names = w.names
        /\ v.next = s.cont /\ v.must = w.must /\ v.seen = seen
    BY <1>1, <2>5
  <2>7. v = RecordOf(v)
    BY <1>1, <2>5 DEF RecordOf
  <2>8. AttrWalk(v)'
    <3>1. \A i \in v.must : i \in Oid /\ Started(v.pid, i)'
      BY <1>2, <2>2, <2>6 DEF Started
    <3> QED
      BY <1>2, <1>8, <2>3, <2>6, <3>1 DEF AttrWalk, Started
  <2> QED
    BY <1>1, <2>4, <2>6, <2>7, <2>8, WalkIs
<1> QED
  BY <1>10, <1>11, <1>12

LEMMA PageKeeps ==
    ASSUME Core, NEW w, WalkShape(w), w.phase = "going", walk_page(w)
    PROVE  Core' /\ WalkOK'
<1>1. Core'
  <2>1. w.pid \in Pid
    BY DEF WalkShape
  <2> QED
    BY <2>1, ListKeeps, ListAttrKeeps DEF walk_page
<1> QED
  BY <1>1, PlainPage, AttrPage

LEMMA NextPageKeeps ==
    ASSUME Core, WalkOK, next_page PROVE Core' /\ WalkOK'
<1>1. WalkShape(walk)
  BY DEF next_page, WalkOK, NoWalk
<1> QED
  BY <1>1, PageKeeps DEF next_page

\* The attribute lists a walk can be about.
NameSeqs == Seq(Attrs)

LEMMA FirstPageKeeps ==
    ASSUME Core, NEW kind \in {"LIST", "LIST_COLLECTION", "LIST_ATTR"}, NEW p \in Pid, NEW c \in Oid,
           NEW a, NEW alloc \in Nat, kind # "LIST_ATTR" => alloc >= ListHeader,
           kind = "LIST_ATTR" => a \in NameSeqs, first_page(kind, p, c, a, alloc)
    PROVE  Core' /\ WalkOK'
<1> DEFINE no == FALSE
           w == [phase |-> "going", kind |-> kind, pid |-> p, cid |-> c, names |-> a, alloc |-> alloc,
                 next |-> 0, must |-> {}, seen |-> {}, twice |-> no]
           must == to_report(w)
           f == [w EXCEPT !.must = must]
<1>1. walk_page(f)
  BY DEF first_page
<1>2. kind # "LIST_ATTR" => must = listed(kind, p, c)
  BY DEF to_report
<1>3. no = FALSE
  OBVIOUS
<1> HIDE DEF must, no
<1>4. /\ f.phase = "going" /\ f.kind = kind /\ f.pid = p /\ f.cid = c /\ f.names = a /\ f.alloc = alloc
      /\ f.next = 0 /\ f.must = must /\ f.seen = {} /\ f.twice = no
  OBVIOUS
<1>5. f = [phase |-> f.phase, kind |-> f.kind, pid |-> f.pid, cid |-> f.cid, names |-> f.names,
           alloc |-> f.alloc, next |-> f.next, must |-> f.must, seen |-> f.seen, twice |-> f.twice]
  OBVIOUS
<1> HIDE DEF f
<1>6. kind # "LIST_ATTR" => PlainWalk(f)
  <2> SUFFICES ASSUME kind # "LIST_ATTR" PROVE PlainWalk(f)
    OBVIOUS
  <2>1. must \subseteq Nat
    BY <1>2, ListedIds DEF Core
  <2>2. f.twice = FALSE
    BY <1>3, <1>4
  <2>3. f.must \subseteq listed(f.kind, f.pid, f.cid)
    BY <1>2, <1>4
  <2>4. ASSUME NEW i \in f.must PROVE i \in f.seen \/ (f.phase = "going" /\ i >= f.next)
    <3>1. i \in Nat
      BY <1>4, <2>1
    <3>2. i >= 0
      BY <3>1
    <3> QED
      BY <1>4, <3>2
  <2>5. /\ f.kind \in {"LIST", "LIST_COLLECTION"}
        /\ f.cid \in Oid /\ f.alloc \in Nat /\ f.alloc >= ListHeader
        /\ f.next \in Nat /\ f.seen \subseteq Nat
    BY <1>4
  <2>6. f.phase = "going" => \A i \in f.seen : i < f.next
    BY <1>4
  <2> QED
    BY <2>2, <2>3, <2>4, <2>5, <2>6, Zenon DEF PlainWalk
<1>7. kind = "LIST_ATTR" => AttrWalk(f)
  <2> SUFFICES ASSUME kind = "LIST_ATTR" PROVE AttrWalk(f)
    OBVIOUS
  <2>1. ASSUME NEW i \in must PROVE i \in Oid /\ Started(p, i) /\ i >= 0
    <3>1. i \in Oid /\ Started(p, i)
      BY DEF must, to_report, obj_get_oids_in_pid, Started
    <3> QED
      BY <3>1, Inputs
  <2> QED
    BY <1>4, <2>1 DEF AttrWalk, NameSeqs
<1>8. WalkShape(f)
  BY <1>4, <1>5, <1>6, <1>7 DEF WalkShape
<1> QED
  BY <1>1, <1>4, <1>8, PageKeeps

-----------------------------------------------------------------------------
(* Every step                                                                 *)

LEMMA Initially == MInit => MultiInv
<1> SUFFICES ASSUME MInit PROVE MultiInv
  OBVIOUS
<1>1. TypeOK
  BY InitType DEF MInit, AInit
<1>2. ValOK
  BY DEF MInit, AInit, Init, ValOK
<1>3. OpOK /\ WalkOK
  BY DEF MInit, AInit, OpOK, WalkOK
<1>4. ZeroFree
  BY FreshRows, Inputs DEF MInit, AInit, Init, ZeroFree, NoCache
<1> QED
  BY <1>1, <1>2, <1>3, <1>4 DEF MultiInv

LEMMA NamespaceKeeps ==
    ASSUME MultiInv, Namespace, vals_kept, op' = op, walk_goes_on PROVE MultiInv'
<1>1. TypeOK' /\ ZeroFree' /\ ValOK' /\ WalkOK'
  BY NamespaceType, NamespaceZero, ValsKept, WalkGoesOn DEF MultiInv
<1>2. OpOK'
  BY DEF MultiInv, OpOK
<1> QED
  BY <1>1, <1>2 DEF MultiInv

LEMMA CoreAndWalk == ASSUME Core', WalkOK' PROVE MultiInv'
BY DEF Core, MultiInv

\* The partitions that initiators use are partitions.
LEMMA PidsUsed == DataPids \subseteq Pid /\ IdLB .. MaxPid \subseteq Pid
BY ListAssumption, IdAssumption DEF Pid

LEMMA CreateOrRemoveKeeps ==
    ASSUME MultiInv, NEW users, NEW colls, users \subseteq Oid, colls \subseteq Oid,
           CreateOrRemove(users, colls)
    PROVE  MultiInv'
<1>1. Namespace /\ vals_kept /\ op' = op /\ walk_goes_on
  BY PidsUsed DEF CreateOrRemove, Other, StoreStep, Namespace
<1> QED
  BY <1>1, NamespaceKeeps

LEMMA StoreStepsKeep ==
    ASSUME MultiInv, NEW users, NEW colls, users \subseteq Oid, colls \subseteq Oid,
           \/ Partitions \/ Restart \/ InitialiseAttrs(users) \/ ChangePointer(users, colls)
    PROVE  MultiInv'
<1>1. CASE Partitions
  <2>1. Namespace /\ vals_kept /\ op' = op /\ walk_goes_on
    BY <1>1, PidsUsed DEF Partitions, Other, StoreStep, Namespace
  <2> QED
    BY <2>1, NamespaceKeeps
<1>2. CASE Restart
  <2>1. Namespace /\ vals_kept /\ op' = op /\ walk_goes_on
    BY <1>2 DEF Restart, Other, StoreStep, Namespace
  <2> QED
    BY <2>1, NamespaceKeeps
<1>3. CASE InitialiseAttrs(users)
  <2>1. Namespace /\ vals_kept /\ op' = op /\ walk_goes_on
    BY <1>3, PidsUsed DEF InitialiseAttrs, Other, StoreStep, Namespace
  <2> QED
    BY <2>1, NamespaceKeeps
<1>4. CASE ChangePointer(users, colls)
  <2>1. Namespace /\ vals_kept /\ op' = op /\ walk_goes_on
    BY <1>4, PidsUsed DEF ChangePointer, Other, StoreStep, Namespace
  <2> QED
    BY <2>1, NamespaceKeeps
<1> QED
  BY <1>1, <1>2, <1>3, <1>4

LEMMA SetAttributesKeep ==
    ASSUME MultiInv, NEW ids, ids \subseteq Oid, NEW names, SetAttributes(ids, names, Value)
    PROVE  MultiInv'
<1>1. PICK p \in DataPids, o \in ids, a \in names, v \in Value : SetValue(p, o, a, v) /\ walk_goes_on
  BY DEF SetAttributes, Other
<1>2. TypeOK' /\ ValOK' /\ ZeroFree'
  BY <1>1, PidsUsed, SetValueStore DEF SetValue, MultiInv
<1>3. OpOK'
  BY <1>1 DEF SetValue, MultiInv, OpOK
<1>4. WalkOK'
  BY <1>1, WalkGoesOn DEF MultiInv
<1> QED
  BY <1>2, <1>3, <1>4 DEF MultiInv

LEMMA AtomicsKeep == ASSUME MultiInv, Atomic \/ Served PROVE MultiInv'
<1>1. Core /\ WalkOK
  BY DEF MultiInv, Core
<1>2. walk_goes_on
  BY DEF Atomic, Served, Other
<1>3. Core'
  BY <1>1, CounterBegins, GenCasBegins, ServiceKeeps DEF Atomic, Served, Other
<1> QED
  BY <1>1, <1>2, <1>3, WalkGoesOn, CoreAndWalk

\* What a list is about is a kind of list, a partition and a collection.
LEMMA SubjectTypes ==
    ASSUME NEW colls, colls \subseteq Oid, NEW s \in Subjects(colls)
    PROVE  s[1] \in {"LIST", "LIST_COLLECTION"} /\ s[2] \in Pid /\ s[3] \in Oid
<1>1. 0 \in Pid /\ 0 \in Oid
  BY Inputs
<1> QED
  BY <1>1, PidsUsed DEF Subjects

LEMMA ListsKeep ==
    ASSUME MultiInv, NEW colls, colls \subseteq Oid, List(colls) \/ ListAttr
    PROVE  MultiInv'
<1>1. Core /\ WalkOK
  BY DEF MultiInv, Core
<1>2. 0 \in Pid /\ 0 \in Oid
  BY Inputs
<1>3. CASE next_page
  BY <1>1, <1>3, NextPageKeeps, CoreAndWalk
<1>4. ASSUME NEW s \in Subjects(colls)
      PROVE  s[1] \in {"LIST", "LIST_COLLECTION"} /\ s[2] \in Pid /\ s[3] \in Oid
  BY SubjectTypes
<1>5. ASSUME NEW s \in Subjects(colls), NEW alloc \in ListLens, alloc >= ListHeader,
             first_page(s[1], s[2], s[3], <<>>, alloc)
      PROVE  MultiInv'
  BY <1>1, <1>4, <1>5, ListAssumption, FirstPageKeeps, CoreAndWalk
<1>6. ASSUME NEW s \in Subjects(colls), NEW alloc,
             osd_list(s[1], s[2], s[3], IdLB, 1, alloc), walk_goes_on
      PROVE  MultiInv'
  BY <1>1, <1>4, <1>6, ListKeeps, WalkGoesOn, CoreAndWalk
<1>7. ASSUME NEW kind, list_refused(kind), walk_goes_on PROVE MultiInv'
  BY <1>1, <1>7, Declined, WalkGoesOn, CoreAndWalk DEF list_refused, Sense
<1>8. CASE List(colls)
  BY <1>3, <1>5, <1>6, <1>7, <1>8 DEF List, Other
<1>9. ASSUME NEW p \in DataPids \cup {0}, NEW a \in NameLists, NEW alloc \in AttrLens,
             first_page("LIST_ATTR", p, 0, a, alloc)
      PROVE  MultiInv'
  BY <1>1, <1>2, <1>9, PidsUsed, ListAssumption, FirstPageKeeps, CoreAndWalk DEF NameSeqs
<1>10. ASSUME NEW p \in DataPids \cup {0}, NEW a, NEW alloc,
              osd_list_attr(p, a, IdLB, 1, alloc), walk_goes_on
      PROVE  MultiInv'
  BY <1>1, <1>2, <1>10, PidsUsed, ListAttrKeeps, WalkGoesOn, CoreAndWalk
<1>11. CASE ListAttr
  BY <1>3, <1>9, <1>10, <1>11 DEF ListAttr, Other
<1> QED
  BY <1>8, <1>11

LEMMA MembersKeep ==
    ASSUME MultiInv, NEW colls, colls \subseteq Oid, Query(colls) \/ SetMembers(colls)
    PROVE  MultiInv'
<1>1. Core /\ WalkOK
  BY DEF MultiInv, Core
<1>2. walk_goes_on
  BY DEF Query, SetMembers, Other
<1>3. Core'
  <2>1. CASE Query(colls)
    BY <1>1, <2>1, PidsUsed, QueryKeeps DEF Query, Other
  <2>2. CASE SetMembers(colls)
    BY <1>1, <2>2, PidsUsed, ListAssumption, SetMembersKeeps DEF SetMembers, Other
  <2> QED
    BY <2>1, <2>2
<1> QED
  BY <1>1, <1>2, <1>3, WalkGoesOn, CoreAndWalk

LEMMA MNextKeeps == ASSUME MultiInv, [MNext]_mvars PROVE MultiInv'
<1>1. OidInput \subseteq Oid /\ {} \subseteq Oid
  BY Inputs
<1>2. CASE UNCHANGED mvars
  <2>1. UNCHANGED <<obj, attr, coll, dfile, dbfile, root, ic, ccap, sense, val, op, walk>>
    BY <1>2 DEF mvars, avars, vars
  <2>2. TypeOK' /\ ValOK' /\ ZeroFree'
    BY <2>1 DEF MultiInv, TypeOK, ValOK, ZeroFree
  <2>3. OpOK'
    BY <2>1 DEF MultiInv, OpOK
  <2>4. listed(walk.kind, walk.pid, walk.cid)' = listed(walk.kind, walk.pid, walk.cid)
    BY <2>1 DEF listed, obj_get_all_pids, obj_get_oids_in_pid, obj_get_cids_in_pid, coll_members
  <2>5. WalkOK'
    BY <2>1, <2>4 DEF MultiInv, WalkOK, WalkShape, PlainWalk, AttrWalk, Started
  <2> QED
    BY <2>2, <2>3, <2>5 DEF MultiInv
<1>3. CASE RegisterNext(OidInput, Value)
  BY <1>1, <1>3, CreateOrRemoveKeeps, StoreStepsKeep, SetAttributesKeep, AtomicsKeep DEF RegisterNext
<1>4. CASE ListNext(OidInput, OidInput)
  BY <1>1, <1>4, CreateOrRemoveKeeps, StoreStepsKeep, ListsKeep DEF ListNext
<1>5. CASE ListAttrNext(OidInput, Plain, Value)
  BY <1>1, <1>5, CreateOrRemoveKeeps, StoreStepsKeep, SetAttributesKeep, ListsKeep DEF ListAttrNext
<1>6. CASE MemberNext(OidInput, OidInput, Plain, Value)
  BY <1>1, <1>6, CreateOrRemoveKeeps, StoreStepsKeep, SetAttributesKeep, MembersKeep DEF MemberNext
<1> QED
  BY <1>2, <1>3, <1>4, <1>5, <1>6 DEF MNext

(* The tables with their values, the atomic command in service and the walk in *)
(* progress always fit together, whatever commands run between the statements  *)
(* and pages, fail or die: the inductive invariant of this module.             *)
THEOREM MultiSafe == MSpec => []MultiInv
<1>1. MultiInv /\ [MNext]_mvars => MultiInv'
  BY MNextKeeps
<1> QED
  BY <1>1, Initially, PTL DEF MSpec

(* Every row has a value, and a counter in service has been read as a number,  *)
(* so that the sum of osd_fa and the comparison of osd_cas are of words; what   *)
(* the transaction around the other attributes of a command would go back to   *)
(* exists only while some of them are still to be set (osd.c:3127, 3196).       *)
THEOREM ValuesSafe == MSpec => []AttrTypeOK
<1>1. MultiInv => AttrTypeOK
  BY InServiceOp DEF MultiInv, ValOK, AttrTypeOK, OpOK, NoOp
<1> QED
  BY <1>1, MultiSafe, PTL

(* A walk of LIST or LIST COLLECTION misses nothing and repeats nothing, for    *)
(* any buffer length and whatever is created, removed, attached or detached     *)
(* between its pages; one of LIST with attributes reports every initialised     *)
(* object that stays, with its whole value (db.c:367-427, mtq.c:303-399).       *)
THEOREM WalksComplete == MSpec => []WalkComplete
<1>1. MultiInv => WalkComplete
  BY DEF MultiInv, WalkOK, WalkShape, PlainWalk, AttrWalk, WalkComplete, NoWalk
<1> QED
  BY <1>1, MultiSafe, PTL

-----------------------------------------------------------------------------
(* What LIST with attributes answers                                          *)

\* What LIST answers with a page.
LEMMA ListStep ==
    ASSUME TypeOK, ZeroFree, NEW kind \in {"LIST", "LIST_COLLECTION"}, NEW p \in Pid, NEW c \in Oid,
           NEW initial \in Nat, NEW list_id, NEW alloc \in Nat,
           osd_list(kind, p, c, initial, list_id, alloc), "page" \in DOMAIN reply',
           alloc >= ListHeader + IdSize
    PROVE  reply'.page.cont = 0 \/ reply'.page.cont > reply'.req.initial
<1> DEFINE from == start_at(initial, list_id)
           req == [cmd |-> kind, initial |-> from, alloc |-> alloc]
           page == page_of(kind, p, c, initial, list_id, alloc)
           ids == listed(kind, p, c)
           room == alloc - ListHeader
<1>1. ASSUME NEW ret, declined(req, ret) PROVE FALSE
  BY <1>1 DEF declined, looked
<1>2. ASSUME answer(req, "DIED", NoVal) PROVE FALSE
  BY <1>2 DEF answer
<1>3. looked([req |-> req, ret |-> "OSD_OK", page |-> page])
  BY <1>1, <1>2 DEF osd_list, unbuffered
<1>4. reply'.page = page /\ reply'.req.initial = from
  BY <1>3 DEF looked
<1>5. ids \subseteq Nat \ {0} /\ IsFiniteSet(ids)
  BY ListedIds
<1>6. from \in Nat /\ room \in Int /\ room >= 8
  BY DEF start_at, ListHeader, IdSize
<1>7. page = db_exec_id_rtrvl_stmt(ids, from, room)
  BY DEF page_of
<1> HIDE DEF ids, from, room, page, req
<1>8. page.cont = 0 \/ page.cont > from
  BY <1>5, <1>6, <1>7, PageMovesOn
<1> QED
  BY <1>4, <1>8

\* What LIST with attributes answers.
LEMMA ListAttrStep ==
    ASSUME NEW p \in Pid, ZeroFree, NEW names \in Seq(Attrs), NEW initial \in Nat, NEW list_id \in Nat,
           NEW alloc \in Int, osd_list_attr(p, names, initial, list_id, alloc),
           "entries" \in DOMAIN reply'
    PROVE  /\ (\A o \in Oid, n \in DOMAIN names : <<p, o, names[n]>> \in attr => <<p, o, Tmstmp>> \in attr)
                => \A i \in DOMAIN reply'.entries :
                     reply'.entries[i].part = "attr" =>
                       i > 1 /\ reply'.entries[i - 1].oid = reply'.entries[i].oid
           /\ alloc >= ListHeader + OdeHeader + MaxEntry * Len(names) + LE_MIN_ITEM_LEN
                => reply'.cont = 0 \/ reply'.cont > reply'.req.initial
<1> DEFINE from == start_at(initial, list_id)
           req == [cmd |-> "LIST_ATTR", pid |-> p, names |-> names, initial |-> from, alloc |-> alloc]
           s == mtq_list_oids_attr(p, names, from, alloc - ListHeader)
<1>1. ASSUME NEW ret, declined(req, ret) PROVE FALSE
  BY <1>1 DEF declined, looked
<1>2. ASSUME answer(req, "DIED", NoVal) PROVE FALSE
  BY <1>2 DEF answer
<1>3. \/ looked([req |-> req, ret |-> "OSD_OK", entries |-> <<>>, cont |-> 0])
      \/ looked([req |-> req, ret |-> "OSD_OK", entries |-> s.out, cont |-> s.cont])
  BY <1>1, <1>2 DEF osd_list_attr, unbuffered
<1>4. from \in Nat /\ alloc - ListHeader \in Int
  BY DEF start_at, ListHeader
<1>5. (\A o \in Oid, n \in DOMAIN names : <<p, o, names[n]>> \in attr => <<p, o, Tmstmp>> \in attr)
        => InPlace(s)
  BY <1>4, PageInPlace
<1>6. alloc >= ListHeader + OdeHeader + MaxEntry * Len(names) + LE_MIN_ITEM_LEN
        => s.cont = 0 \/ s.cont > from
  <2> SUFFICES ASSUME alloc >= ListHeader + OdeHeader + MaxEntry * Len(names) + LE_MIN_ITEM_LEN
               PROVE  s.cont = 0 \/ s.cont > from
    OBVIOUS
  <2>1. Len(names) \in Nat
    BY LenProperties
  <2>2. alloc - ListHeader >= 16 + MaxEntry * Len(names) + 16
    BY <2>1 DEF ListHeader, OdeHeader, LE_MIN_ITEM_LEN, MaxEntry
  <2>3. obj[p][0] # "USEROBJECT"
    BY DEF ZeroFree
  <2> QED
    BY <1>4, <2>2, <2>3, PageAdvances
<1> HIDE DEF s, from, req
<1>7. \/ reply' = [req |-> req, ret |-> "OSD_OK", entries |-> <<>>, cont |-> 0]
      \/ reply' = [req |-> req, ret |-> "OSD_OK", entries |-> s.out, cont |-> s.cont]
  BY <1>3 DEF looked
<1>8. req.initial = from
  BY DEF req
<1>9. CASE reply' = [req |-> req, ret |-> "OSD_OK", entries |-> <<>>, cont |-> 0]
  BY <1>9
<1>10. CASE reply' = [req |-> req, ret |-> "OSD_OK", entries |-> s.out, cont |-> s.cont]
  BY <1>5, <1>6, <1>8, <1>10 DEF InPlace
<1> QED
  BY <1>7, <1>9, <1>10

\* Initiators that list what there is, with attributes and without.
ListSteps == ListNext(OidInput, OidInput) \/ ListAttrNext(OidInput, Plain, Value)

ListSpec == MInit /\ [][ListSteps]_mvars

LEMMA ListStepsKeep == MultiInv /\ [ListSteps]_mvars => MultiInv'
BY MNextKeeps DEF MNext, ListSteps

\* The reply of a step of theirs is that of no list, or of one of these.
AskedPlain ==
    \E kind \in {"LIST", "LIST_COLLECTION"}, p \in Pid, c \in Oid, initial \in Nat, list_id \in Nat,
       alloc \in Nat : osd_list(kind, p, c, initial, list_id, alloc)

AskedAttrs ==
    \E p \in Pid, names \in Seq(Attrs), initial \in Nat, list_id \in Nat, alloc \in Int :
        osd_list_attr(p, names, initial, list_id, alloc)

Asked ==
    \/ reply'.req.cmd \notin {"LIST", "LIST_COLLECTION", "LIST_ATTR"}
    \/ "page" \notin DOMAIN reply' /\ "entries" \notin DOMAIN reply'
    \/ AskedPlain \/ AskedAttrs

LEMMA PageAsked ==
    ASSUME NEW w, WalkShape(w), walk_page(w) PROVE Asked
<1>1. CASE w.kind = "LIST_ATTR"
  <2>1. AttrWalk(w) /\ w.pid \in Pid
    BY <1>1 DEF WalkShape
  <2>2. w.names \in Seq(Attrs) /\ w.next \in Nat /\ w.alloc \in Int /\ 0 \in Nat
    BY <2>1 DEF AttrWalk
  <2>3. osd_list_attr(w.pid, w.names, w.next, 0, w.alloc)
    BY <1>1 DEF walk_page
  <2> QED
    BY <2>1, <2>2, <2>3 DEF Asked, AskedAttrs
<1>2. CASE w.kind # "LIST_ATTR"
  <2>1. PlainWalk(w) /\ w.pid \in Pid
    BY <1>2 DEF WalkShape
  <2>2. /\ w.kind \in {"LIST", "LIST_COLLECTION"} /\ w.cid \in Oid /\ w.next \in Nat
        /\ w.alloc \in Nat /\ 0 \in Nat
    BY <2>1 DEF PlainWalk
  <2>3. osd_list(w.kind, w.pid, w.cid, w.next, 0, w.alloc)
    BY <1>2 DEF walk_page
  <2> QED
    BY <2>1, <2>2, <2>3 DEF Asked, AskedPlain
<1> QED
  BY <1>1, <1>2

LEMMA ListsAsked ==
    ASSUME MultiInv, ListSteps PROVE Asked
<1> USE Inputs, PidsUsed
<1>0. Nothing.cmd \notin {"LIST", "LIST_COLLECTION", "LIST_ATTR"}
  BY DEF Nothing
<1>1. ASSUME NEW users, NEW colls, CreateOrRemove(users, colls) PROVE Asked
  BY <1>0, <1>1 DEF CreateOrRemove, Other, StoreStep, Asked
<1>2. CASE Partitions
  BY <1>0, <1>2 DEF Partitions, Other, StoreStep, Asked
<1>3. CASE ChangePointer(OidInput, OidInput)
  BY <1>0, <1>3 DEF ChangePointer, Other, StoreStep, Asked
<1>4. CASE InitialiseAttrs(OidInput)
  BY <1>0, <1>4 DEF InitialiseAttrs, Other, StoreStep, Asked
<1>5. CASE SetAttributes(OidInput, Plain, Value)
  BY <1>5 DEF SetAttributes, Other, SetValue, Asked
<1>6. CASE next_page
  <2>1. WalkShape(walk) /\ walk_page(walk)
    BY <1>6 DEF next_page, MultiInv, WalkOK, NoWalk
  <2> QED
    BY <2>1, PageAsked
<1>7. IdLB \in Nat /\ 0 \in Nat /\ 1 \in Nat /\ 0 \in Pid /\ 0 \in Oid
  BY IdAssumption
<1>8. CASE List(OidInput)
  <2>0. OidInput \subseteq Oid /\ DataPids \subseteq Pid
    OBVIOUS
  <2>1. ASSUME NEW s \in Subjects(OidInput)
        PROVE  s[1] \in {"LIST", "LIST_COLLECTION"} /\ s[2] \in Pid /\ s[3] \in Oid
    BY <2>0, SubjectTypes
  <2>2. ASSUME NEW s \in Subjects(OidInput), NEW alloc \in ListLens,
               first_page(s[1], s[2], s[3], <<>>, alloc)
        PROVE  AskedPlain
    <3>1. alloc \in Nat
      BY ListAssumption
    <3>2. osd_list(s[1], s[2], s[3], 0, 0, alloc)
      BY <2>0, <2>1, <2>2 DEF first_page, walk_page
    <3> QED
      BY <1>7, <2>0, <2>1, <3>1, <3>2 DEF AskedPlain
  <2>3. ASSUME NEW s \in Subjects(OidInput), NEW alloc \in ListLens,
               osd_list(s[1], s[2], s[3], IdLB, 1, alloc)
        PROVE  AskedPlain
    <3>1. alloc \in Nat
      BY ListAssumption
    <3> QED
      BY <1>7, <2>0, <2>1, <2>3, <3>1 DEF AskedPlain
  <2>4. ASSUME NEW kind, list_refused(kind) PROVE Asked
    BY <2>4 DEF list_refused, declined, looked, Asked
  <2> QED
    BY <1>6, <1>8, <2>2, <2>3, <2>4 DEF List, Other, Asked
<1>9. CASE ListAttr
  <2>1. ASSUME NEW p \in DataPids \cup {0}, NEW names \in NameLists, NEW alloc \in AttrLens
        PROVE  p \in Pid /\ names \in Seq(Attrs) /\ alloc \in Int
    BY <1>7, ListAssumption
  <2>2. ASSUME NEW p \in DataPids \cup {0}, NEW names \in NameLists, NEW alloc \in AttrLens,
               first_page("LIST_ATTR", p, 0, names, alloc)
        PROVE  AskedAttrs
    <3>1. osd_list_attr(p, names, 0, 0, alloc)
      BY <2>2 DEF first_page, walk_page
    <3> QED
      BY <1>7, <2>1, <3>1 DEF AskedAttrs
  <2>3. ASSUME NEW p \in DataPids \cup {0}, NEW names \in NameLists, NEW alloc \in AttrLens,
               osd_list_attr(p, names, IdLB, 1, alloc)
        PROVE  AskedAttrs
    BY <1>7, <2>1, <2>3 DEF AskedAttrs
  <2> QED
    BY <1>6, <1>9, <2>2, <2>3 DEF ListAttr, Other, Asked
<1> QED
  BY <1>1, <1>2, <1>3, <1>4, <1>5, <1>8, <1>9 DEF ListSteps, ListNext, ListAttrNext

(* In a list with attributes every entry follows the object it belongs to, or   *)
(* another entry of that object, for any attributes, any room, wherever the page *)
(* starts and whatever was created or set before, unless some object has one of  *)
(* the attributes and was never initialised (mtq.c:313-382).                     *)
THEOREM AttrListsSound == ListSpec => AttrListSound
<1> DEFINE r == reply'.req
           out == reply'.entries
           Ordered == /\ r.cmd = "LIST_ATTR" /\ "entries" \in DOMAIN reply'
                      /\ \A o \in Oid, n \in DOMAIN r.names :
                           <<r.pid, o, r.names[n]>> \in attr => <<r.pid, o, Tmstmp>> \in attr
                      => \A i \in DOMAIN out :
                           out[i].part = "attr" => i > 1 /\ out[i - 1].oid = out[i].oid
<1>1. MultiInv /\ ListSteps => Ordered
  <2> SUFFICES ASSUME MultiInv, ListSteps, r.cmd = "LIST_ATTR", "entries" \in DOMAIN reply'
               PROVE  Ordered
    OBVIOUS
  <2>1. AskedPlain \/ AskedAttrs
    BY ListsAsked DEF Asked
  <2>2. ~AskedPlain
    BY DEF AskedPlain, osd_list, unbuffered, declined, looked, answer
  <2>3. PICK p \in Pid, names \in Seq(Attrs), initial \in Nat, list_id \in Nat, alloc \in Int :
               osd_list_attr(p, names, initial, list_id, alloc)
    BY <2>1, <2>2 DEF AskedAttrs
  <2>4. r.pid = p /\ r.names = names
    BY <2>3 DEF osd_list_attr, unbuffered, declined, looked, answer
  <2> QED
    BY <2>3, <2>4, ListAttrStep DEF MultiInv
<1>2. MultiInv /\ [ListSteps]_mvars => [Ordered]_mvars
  BY <1>1
<1> QED
  BY <1>2, Initially, ListStepsKeep, PTL DEF ListSpec, AttrListSound

(* A walk gets on: a page of LIST or LIST COLLECTION with room for one id, or one *)
(* with attributes and room for one object with the longest entries and the      *)
(* smallest one more, is the last or continues at a later id than it began       *)
(* with, so that a walk over objects that stay comes to an end (db.c:393-413,    *)
(* mtq.c:340-382).                                                               *)
THEOREM WalksAdvance == ListSpec => PagesAdvance
<1> DEFINE r == reply'.req
           later(cont) == cont = 0 \/ cont > r.initial
           Advances == /\ /\ r.cmd \in {"LIST", "LIST_COLLECTION"} /\ "page" \in DOMAIN reply'
                          /\ r.alloc >= ListHeader + IdSize
                          => later(reply'.page.cont)
                       /\ /\ r.cmd = "LIST_ATTR" /\ "entries" \in DOMAIN reply'
                          /\ r.alloc >= ListHeader + OdeHeader + MaxEntry * Len(r.names) + LE_MIN_ITEM_LEN
                          => later(reply'.cont)
<1>1. MultiInv /\ ListSteps => Advances
  <2> SUFFICES ASSUME MultiInv, ListSteps, r.cmd \in {"LIST", "LIST_COLLECTION", "LIST_ATTR"},
                      "page" \in DOMAIN reply' \/ "entries" \in DOMAIN reply'
               PROVE  Advances
    OBVIOUS
  <2>1. AskedPlain \/ AskedAttrs
    BY ListsAsked DEF Asked
  <2>2. CASE AskedPlain
    <3>1. PICK kind \in {"LIST", "LIST_COLLECTION"}, p \in Pid, c \in Oid, initial \in Nat,
               list_id \in Nat, alloc \in Nat : osd_list(kind, p, c, initial, list_id, alloc)
      BY <2>2 DEF AskedPlain
    <3>2. r.cmd = kind /\ r.alloc = alloc
      BY <3>1 DEF osd_list, unbuffered, declined, looked, answer
    <3>3. "page" \in DOMAIN reply' /\ alloc >= ListHeader + IdSize
            => reply'.page.cont = 0 \/ reply'.page.cont > r.initial
      BY <3>1, ListStep DEF MultiInv
    <3> QED
      BY <3>2, <3>3
  <2>3. CASE AskedAttrs
    <3>1. PICK p \in Pid, names \in Seq(Attrs), initial \in Nat, list_id \in Nat, alloc \in Int :
                 osd_list_attr(p, names, initial, list_id, alloc)
      BY <2>3 DEF AskedAttrs
    <3>2. r.cmd = "LIST_ATTR" /\ r.names = names /\ r.alloc = alloc
      BY <3>1 DEF osd_list_attr, unbuffered, declined, looked, answer
    <3>3. /\ "entries" \in DOMAIN reply'
          /\ alloc >= ListHeader + OdeHeader + MaxEntry * Len(names) + LE_MIN_ITEM_LEN
          => reply'.cont = 0 \/ reply'.cont > r.initial
      BY <3>1, ListAttrStep DEF MultiInv
    <3> QED
      BY <3>2, <3>3
  <2> QED
    BY <2>1, <2>2, <2>3
<1>2. MultiInv /\ [ListSteps]_mvars => [Advances]_mvars
  BY <1>1
<1> QED
  BY <1>2, Initially, ListStepsKeep, PTL DEF ListSpec, PagesAdvance

-----------------------------------------------------------------------------
(* What QUERY answers                                                         *)

\* What criteria say of the members of a collection: some of them, or all.
Chosen(p, c, q) ==
    {o \in coll_members(p, c) :
        IF q.type = 0 THEN \E i \in DOMAIN q.list : Satisfies(p, o, q.list[i])
                      ELSE \A i \in DOMAIN q.list : Satisfies(p, o, q.list[i])}

\* A SELECT that joins on the object id finds the rows of the member itself, as
\* long as no other partition has rows for it.
LEMMA SelectsMembers ==
    ASSUME TypeOK, NEW p \in Pid, NEW c, NEW e,
           \A k \in attr : k[1] = p \/ k[2] \notin coll_members(p, c)
    PROVE  query_select(p, c, {k \in attr : k[3] = e.name /\ within(val[k], e)})
               = {o \in coll_members(p, c) : Satisfies(p, o, e)}
<1> DEFINE rows == {k \in attr : k[3] = e.name /\ within(val[k], e)}
<1>1. \A k \in attr : k = <<k[1], k[2], k[3]>>
  BY DEF TypeOK
<1>2. ASSUME NEW o \in coll_members(p, c), NEW k \in rows, k[2] = o PROVE Satisfies(p, o, e)
  <2>1. k = <<p, o, e.name>> /\ k \in attr /\ within(val[k], e)
    BY <1>1, <1>2
  <2>2. within(val[<<p, o, e.name>>], e)
    BY <2>1
  <2> QED
    BY <2>1, <2>2 DEF Satisfies, within
<1>3. ASSUME NEW o \in coll_members(p, c), Satisfies(p, o, e) PROVE \E k \in rows : k[2] = o
  <2> DEFINE k == <<p, o, e.name>>
  <2>1. k \in attr /\ k[3] = e.name /\ k[2] = o
    BY <1>3 DEF Satisfies
  <2>2. within(val[k], e)
    BY <1>3 DEF Satisfies, within
  <2> QED
    BY <2>1, <2>2
<1> HIDE DEF rows
<1>4. query_select(p, c, rows) = {o \in coll_members(p, c) : Satisfies(p, o, e)}
  BY <1>2, <1>3 DEF query_select
<1> QED
  BY <1>4 DEF rows

LEMMA RunsQuery ==
    ASSUME TypeOK, NEW p \in Pid, NEW c, NEW q \in Criteria, q.list # <<>>,
           \A k \in attr : k[1] = p \/ k[2] \notin coll_members(p, c)
    PROVE  mtq_run_query(p, c, q) = Chosen(p, c, q)
<1> DEFINE select(i) == query_select(p, c, {k \in attr : k[3] = q.list[i].name /\ within(val[k], q.list[i])})
<1>1. \A i \in DOMAIN q.list : select(i) = {o \in coll_members(p, c) : Satisfies(p, o, q.list[i])}
  BY SelectsMembers
<1>2. \E i : i \in DOMAIN q.list
  <2>1. q.list \in Seq(QueryEntries)
    BY ListAssumption
  <2>2. Head(q.list) = q.list[1] /\ Len(q.list) >= 1 /\ DOMAIN q.list = 1 .. Len(q.list)
    BY <2>1
  <2> QED
    BY <2>1, <2>2
<1>3. coll_members(p, c) \subseteq Oid
  BY DEF coll_members
<1>4. mtq_run_query(p, c, q) =
          {o \in Oid : IF q.type = 0 THEN \E i \in DOMAIN q.list : o \in select(i)
                                     ELSE \A i \in DOMAIN q.list : o \in select(i)}
  BY DEF mtq_run_query
<1> HIDE DEF select
<1>5. \A o, i : i \in DOMAIN q.list => (o \in select(i) <=> o \in coll_members(p, c) /\ Satisfies(p, o, q.list[i]))
  BY <1>1
<1>6. ASSUME NEW o PROVE o \in mtq_run_query(p, c, q) <=> o \in Chosen(p, c, q)
  BY <1>2, <1>3, <1>4, <1>5 DEF Chosen
<1> QED
  BY <1>6

\* An id of a finite set has fewer ids below it than the set has.
LEMMA RankBelow ==
    ASSUME NEW S, S \subseteq Nat, IsFiniteSet(S), NEW i \in S
    PROVE  Rank(i, S) \in Nat /\ Rank(i, S) < Cardinality(S) /\ Cardinality(S) \in Nat
<1> DEFINE below == {j \in S : j < i}
<1>1. below \subseteq S /\ i \notin below
  OBVIOUS
<1>2. /\ IsFiniteSet(below) /\ Cardinality(below) <= Cardinality(S)
      /\ Cardinality(S) = Cardinality(below) => S = below
  BY <1>1, FS_Subset
<1>3. Cardinality(below) \in Nat /\ Cardinality(S) \in Nat
  BY <1>2, FS_CardinalityType
<1>4. Cardinality(S) # Cardinality(below)
  BY <1>1, <1>2
<1> QED
  BY <1>2, <1>3, <1>4 DEF Rank

\* With as many rows as the count can stand, those are stored that begin inside
\* the room.
LEMMA StoredRows ==
    ASSUME NEW S, S \subseteq Nat, IsFiniteSet(S), NEW alloc \in Nat, alloc >= 13,
           8 * Cardinality(S) <= alloc + 3
    PROVE  {o \in S : stored(Rank(o, S), alloc)} = {o \in S : Rank(o, S) < (alloc - 13 + 7) \div 8}
<1> DEFINE room == (alloc - 13 + 7) \div 8
<1>1. room \in Int /\ 8 * room <= alloc - 6 /\ alloc - 6 < 8 * room + 8
  OBVIOUS
<1>2. ASSUME NEW o \in S PROVE stored(Rank(o, S), alloc) <=> Rank(o, S) < room
  <2>1. Rank(o, S) \in Nat /\ Rank(o, S) < Cardinality(S) /\ Cardinality(S) \in Nat
    BY RankBelow
  <2>2. 8 * Rank(o, S) + 8 <= alloc + 3
    BY <2>1
  <2> HIDE DEF room
  <2>3. stored(Rank(o, S), alloc) <=> 8 * Rank(o, S) < alloc - 13
    BY <2>1, <2>2 DEF stored
  <2> QED
    BY <1>1, <2>1, <2>3
<1> QED
  BY <1>2

\* One QUERY.
LEMMA QueryStep ==
    ASSUME MultiInv, NEW p \in Pid, NEW c \in Oid, NEW q \in Criteria, NEW alloc \in QueryLens,
           osd_query(p, c, q, alloc), "ids" \in DOMAIN reply',
           q.list # <<>>,
           \A k \in attr : k[1] = p \/ k[2] \notin coll_members(p, c),
           8 * Cardinality(Chosen(p, c, q)) <= alloc + 3
    PROVE  reply'.ids = {o \in Chosen(p, c, q) : Rank(o, Chosen(p, c, q)) < (alloc - 13 + 7) \div 8}
<1> DEFINE rows == mtq_run_query(p, c, q)
           req == [cmd |-> "QUERY", pid |-> p, cid |-> c, query |-> q, alloc |-> alloc]
           ids == {o \in rows : stored(Rank(o, rows), alloc)}
<1>1. ASSUME NEW ret, declined(req, ret) PROVE FALSE
  BY <1>1 DEF declined, looked
<1>2. alloc >= 13 /\ looked([req |-> req, ret |-> "OSD_OK", ids |-> ids])
  BY <1>1 DEF osd_query
<1>3. reply'.ids = ids
  BY <1>2 DEF looked
<1>4. rows = Chosen(p, c, q)
  BY RunsQuery DEF MultiInv
<1>5. rows \subseteq Nat /\ IsFiniteSet(rows)
  <2>1. rows \subseteq Oid
    BY <1>4 DEF Chosen, coll_members
  <2>2. IsFiniteSet(Oid) /\ Oid \subseteq Nat
    BY FS_Interval, IdAssumption, Inputs DEF Oid
  <2> QED
    BY <2>1, <2>2, FS_Subset
<1>6. alloc \in Nat
  BY ListAssumption
<1> HIDE DEF rows
<1>7. ids = {o \in rows : Rank(o, rows) < (alloc - 13 + 7) \div 8}
  <2>1. 8 * Cardinality(rows) <= alloc + 3
    BY <1>4
  <2> QED
    BY <1>2, <1>5, <1>6, <2>1, StoredRows
<1> QED
  BY <1>3, <1>4, <1>7

\* Initiators that work on the members of collections.
MemberSpec == MInit /\ [][MemberNext(OidInput, OidInput, Plain, Value)]_mvars

(* A QUERY answers with the members whose own attributes satisfy some, or all, *)
(* of its criteria: with the first ones, one for every 8 bytes that the room     *)
(* begins with, so that the last may reach beyond the room by up to 7 bytes.     *)
(* For any criteria, any collection and any allocation length, but not where     *)
(* another partition holds attributes for the same ids, nor where the count of   *)
(* the bytes left wraps because more members match (mtq.c:94-97, 155-178).       *)
THEOREM QueriesAnswer == MemberSpec => QueryAnswers
<1>1. MInit => MultiInv
  BY Initially
<1>2. MultiInv /\ [MemberNext(OidInput, OidInput, Plain, Value)]_mvars => MultiInv'
  BY MNextKeeps DEF MNext
<1> DEFINE r == reply'.req
           chosen == {o \in coll_members(r.pid, r.cid) :
                        IF r.query.type = 0
                        THEN \E i \in DOMAIN r.query.list : Satisfies(r.pid, o, r.query.list[i])
                        ELSE \A i \in DOMAIN r.query.list : Satisfies(r.pid, o, r.query.list[i])}
           room == (r.alloc - 13 + 7) \div 8
           Answered == /\ r.cmd = "QUERY" /\ "ids" \in DOMAIN reply'
                       /\ r.query.list # <<>>
                       /\ \A k \in attr : k[1] = r.pid \/ k[2] \notin coll_members(r.pid, r.cid)
                       /\ 8 * Cardinality(chosen) <= r.alloc + 3
                       => reply'.ids = {o \in chosen : Rank(o, chosen) < room}
<1>3. MultiInv /\ MemberNext(OidInput, OidInput, Plain, Value) => Answered
  <2> SUFFICES ASSUME MultiInv, MemberNext(OidInput, OidInput, Plain, Value), r.cmd = "QUERY"
               PROVE  Answered
    OBVIOUS
  <2>1. Query(OidInput)
    <3>1. CASE r = Nothing
      BY <3>1 DEF Nothing
    <3>2. CASE SetAttributes(OidInput, Plain, Value)
      BY <3>2 DEF SetAttributes, Other, SetValue
    <3>3. CASE SetMembers(OidInput)
      BY <3>3 DEF SetMembers, Other, osd_set_member_attributes, declined, looked
    <3>4. CASE CreateOrRemove(OidInput, OidInput)
      BY <3>1, <3>4 DEF CreateOrRemove, Other, StoreStep
    <3>5. CASE Partitions
      BY <3>1, <3>5 DEF Partitions, Other, StoreStep
    <3>6. CASE ChangePointer(OidInput, OidInput)
      BY <3>1, <3>6 DEF ChangePointer, Other, StoreStep
    <3> QED
      BY <3>2, <3>3, <3>4, <3>5, <3>6 DEF MemberNext
  <2>2. PICK p \in DataPids, c \in OidInput, q \in Criteria, alloc \in QueryLens : osd_query(p, c, q, alloc)
    BY <2>1 DEF Query, Other
  <2>3. p \in Pid /\ c \in Oid
    BY <2>2, PidsUsed, Inputs
  <2>4. r = [cmd |-> "QUERY", pid |-> p, cid |-> c, query |-> q, alloc |-> alloc]
    BY <2>2 DEF osd_query, declined, looked
  <2> HIDE DEF r
  <2>5. r.pid = p /\ r.cid = c /\ r.query = q /\ r.alloc = alloc
    BY <2>4
  <2>6. chosen = Chosen(p, c, q)
    BY <2>5 DEF Chosen
  <2>7. room = (alloc - 13 + 7) \div 8
    BY <2>5
  <2> HIDE DEF chosen, room
  <2> SUFFICES ASSUME "ids" \in DOMAIN reply', q.list # <<>>,
                      \A k \in attr : k[1] = p \/ k[2] \notin coll_members(p, c),
                      8 * Cardinality(chosen) <= alloc + 3
               PROVE  reply'.ids = {o \in chosen : Rank(o, chosen) < room}
    BY <2>5
  <2> QED
    BY <2>2, <2>3, <2>6, <2>7, QueryStep
<1>4. MultiInv /\ [MemberNext(OidInput, OidInput, Plain, Value)]_mvars => [Answered]_mvars
  BY <1>3
<1> QED
  BY <1>1, <1>2, <1>4, PTL DEF MemberSpec, QueryAnswers

=============================================================================
