------------------------------ MODULE OsdStore ------------------------------
(***************************************************************************)
(* The object store of the OSD target: the three SQLite tables, the data    *)
(* files, and the in-memory state of struct osd_device that the namespace   *)
(* commands of osd.c read and write.                                        *)
(*                                                                          *)
(* One action is one call of an osd_* handler.  The target serves one       *)
(* command at a time, so a handler is one step; what a handler leaves       *)
(* behind when a statement or a system call inside it fails is part of the  *)
(* action.                                                                  *)
(***************************************************************************)
EXTENDS Naturals

CONSTANTS
    IdLB,       \* PARTITION_PID_LB = USEROBJECT_OID_LB = COLLECTION_OID_LB
    MaxPid,     \* bound: largest partition id the model allocates
    MaxOid,     \* bound: largest object id the model allocates
    MaxNumOid,  \* bound: largest "number of user objects" of a CREATE
    Attrs,      \* the attributes with a row in table attr that the model tracks
    Tmstmp,     \* the two rows that lazy_init_attr inserts: (USER_TMSTMP_PG, 0)
    Atomics,    \* and (USER_ATOMICS_PG, 0)
    CollPtrs,   \* numbers of the collection pointers (UCAP_COLL_PTR_LB..UB)
    Faults      \* whether statements and system calls may fail by themselves

\* 0 and 1 are below every valid id: 0 asks the target to choose, and 1 is
\* what obj_get_nextoid answers for a partition with no objects.
ASSUME IdAssumption ==
    /\ IdLB \in Nat /\ IdLB > 1
    /\ MaxPid \in Nat /\ MaxPid >= IdLB
    /\ MaxOid \in Nat /\ MaxOid >= IdLB
    /\ MaxNumOid \in Nat

ASSUME InputAssumption ==
    /\ "READ_ONLY" \notin Attrs
    /\ CollPtrs \subseteq Nat \ {0}
    /\ Faults \in BOOLEAN

VARIABLES
    obj,    \* table obj:  obj[pid][oid] is the row's type, ILLEGAL_OBJ if none
    attr,   \* table attr: the keys <<pid, oid, attribute>> that have a row
    coll,   \* table coll: rows <<pid, cid, oid, number>>
    dfile,  \* data files on disk: <<pid, oid>>
    dbfile, \* whether the database file is still linked under md/
    root,   \* osd->root: "set", or "freed" while it dangles
    ic,     \* osd->ic: the id cache
    ccap,   \* osd->ccap: the current command attributes page
    sense   \* what the last command reported

tables == <<obj, attr, coll>>
disk   == <<dfile, dbfile>>
vars   == <<obj, attr, coll, dfile, dbfile, root, ic, ccap, sense>>

Pid == 0 .. MaxPid
Oid == 0 .. MaxOid

PARTITION_OID == 0

ObjType == {"ROOT", "PARTITION", "COLLECTION", "USEROBJECT"}
RowType == ObjType \cup {"ILLEGAL_OBJ"}

Sense == {"OSD_OK", "ILLEGAL_REQUEST", "PARAM_LIST", "NOT_EMPTY", "HARDWARE_ERROR",
          "READ_PAST_END", "OSD_ERROR"}

NoCache == [cur_pid |-> 0, next_id |-> 0]
NoCcap  == [obj_type |-> "ILLEGAL_OBJ", pid |-> 0, oid |-> 0]

-----------------------------------------------------------------------------
(* Tables *)

obj_ispresent(p, o) == obj[p][o] # "ILLEGAL_OBJ"

obj_isempty_pid(p) == \A o \in Oid \ {PARTITION_OID} : ~obj_ispresent(p, o)

obj_delete(p, o) == [obj EXCEPT ![p][o] = "ILLEGAL_OBJ"]

\* The rows a CREATE of n objects inserts.
obj_insert(p, oid, n, type) ==
    [obj EXCEPT ![p] = [o \in Oid |-> IF o \in oid .. oid + n - 1
                                      THEN type ELSE obj[p][o]]]

MutNextoidOfCount(p, n) ==
    /\ n - 1 \in Oid
    /\ obj_ispresent(p, n - 1) \/ n = 1
    /\ n \in Oid => ~obj_ispresent(p, n)

\* SELECT MAX(oid), plus one; 1 when the partition has no object.
obj_get_nextoid(p, n) ==
    /\ n - 1 \in Oid
    /\ obj_ispresent(p, n - 1) \/ n = 1
    /\ \A o \in Oid : obj_ispresent(p, o) => o < n

obj_get_nextpid(n) ==
    /\ n - 1 \in Pid
    /\ \E o \in Oid : obj_ispresent(n - 1, o)
    /\ \A p \in Pid, o \in Oid : obj_ispresent(p, o) => p < n

\* Decided by the id alone for (pid, 0): the row is not looked up.
get_obj_type(p, o) ==
    CASE p = 0 /\ o = 0               -> "ROOT"
      [] p >= IdLB /\ o = 0           -> "PARTITION"
      [] p >= IdLB /\ o >= IdLB       -> obj[p][o]
      [] OTHER                        -> "ILLEGAL_OBJ"

MutNoAttrDelete(p, o) == attr

attr_delete_all(p, o) == {r \in attr : <<r[1], r[2]>> # <<p, o>>}

coll_isempty_cid(p, c) == \A r \in coll : <<r[1], r[2]>> # <<p, c>>

coll_delete_cid(p, c) == {r \in coll : <<r[1], r[2]>> # <<p, c>>}

MutKeepMemberships(p, o) == coll

coll_delete_oid(p, o) == {r \in coll : <<r[1], r[3]>> # <<p, o>>}

\* PRIMARY KEY (pid, cid, oid) aborts the insertion ...
coll_conflict(p, c, o) == \E r \in coll : <<r[1], r[2], r[3]>> = <<p, c, o>>

\* ... UNIQUE (pid, oid, number) ON CONFLICT REPLACE evicts the other row.
coll_insert(p, c, members, n) ==
    {r \in coll : ~(r[1] = p /\ r[3] \in members /\ r[4] = n)}
        \cup {<<p, c, o, n>> : o \in members}

\* The collection pointer `number` of o names; 0, the untouched result of the
\* query, when it names none.
coll_get_cid(p, o, number) ==
    LET rows == {r \in coll : <<r[1], r[3], r[4]>> = <<p, o, number>>}
    IN  IF rows = {} THEN {0} ELSE {r[2] : r \in rows}

coll_members(p, c) == {o \in Oid : \E n \in CollPtrs \cup {0} : <<p, c, o, n>> \in coll}

-----------------------------------------------------------------------------
(* Replies and failures *)

\* The database: a statement may fail on its own, or because the directory
\* that held its journal is gone.
DbMayFail == Faults \/ ~dbfile

\* The file system: creat and unlink may fail on their own, or because the
\* path is built from a root that has been freed.
IoMayFail == Faults \/ root = "freed"

Rejected(s) == sense' = s /\ UNCHANGED <<tables, disk, root, ic, ccap>>

fill_ccap(type, p, o) == ccap' = [obj_type |-> type, pid |-> p, oid |-> o]

\* A command of several statements that runs them in order, stops at the first
\* that fails, and keeps what the earlier ones did: how many of n have run.
Completed(n) == {k \in 0 .. n : k = n \/ DbMayFail}

-----------------------------------------------------------------------------
(* Identifier allocation: collections and user objects share one namespace   *)
(* per partition, and the id cache remembers the next free id of the         *)
(* partition that allocated last.                                            *)

\* The id the cache, or the table on a miss, proposes.
proposed_id(p, n) == IF ic.cur_pid = p THEN n = ic.next_id ELSE obj_get_nextoid(p, n)

\* 1 stands for "first id of the partition".
alloc_id(p, id) == \/ proposed_id(p, 1) /\ id = IdLB
                   \/ proposed_id(p, id) /\ id # 1

\* Requested id 0 leaves the choice to the target.
chosen_id(p, requested, id) == IF requested = 0 THEN alloc_id(p, id) ELSE id = requested

MutKeepCache(p, requested, id, n) ==
    IF requested = 0 THEN [cur_pid |-> p, next_id |-> id + n] ELSE ic

MutNextIdTooFar(p, requested, id, n) ==
    IF requested = 0 THEN [cur_pid |-> p, next_id |-> id + n + 1] ELSE NoCache

MutNextIdOffByOne(p, requested, id, n) ==
    IF requested = 0 THEN [cur_pid |-> p, next_id |-> id + 1] ELSE NoCache

\* The cache after an allocation of n ids: ahead of them all, or invalidated.
ic_after(p, requested, id, n) ==
    IF requested = 0 THEN [cur_pid |-> p, next_id |-> id + n] ELSE NoCache

\* What every command that creates in partition p checks first.
bad_target(p, requested) ==
    \/ p < IdLB
    \/ requested # 0 /\ requested < IdLB
    \/ ~obj_ispresent(p, PARTITION_OID)
    \/ requested # 0 /\ obj_ispresent(p, requested)

\* obj_get_nextoid fails on a cache miss.
nextoid_failed(p, requested) ==
    /\ requested = 0 /\ ic.cur_pid # p /\ DbMayFail
    /\ ~bad_target(p, requested)
    /\ ic' = NoCache
    /\ sense' = "HARDWARE_ERROR"
    /\ UNCHANGED <<tables, disk, root, ccap>>

-----------------------------------------------------------------------------
(* CREATE *)

\* obj_insert and osd_create_datafile accept (p, o): no row, no regular file.
creatable(p, o) == ~obj_ispresent(p, o) /\ <<p, o>> \notin dfile

MutLastFileMissing(p, oid, n) == dfile \cup ({p} \X (oid .. oid + n - 2))

osd_create_datafile(p, oid, n) == dfile \cup ({p} \X (oid .. oid + n - 1))

create_objects(p, requested, oid, n) ==
    /\ \A o \in oid .. oid + n - 1 : creatable(p, o)
    /\ obj' = obj_insert(p, oid, n, "USEROBJECT")
    /\ dfile' = osd_create_datafile(p, oid, n)
    /\ ic' = ic_after(p, requested, oid, n)
    /\ fill_ccap("USEROBJECT", p, oid + n - 1)
    /\ sense' = "OSD_OK"
    /\ UNCHANGED <<attr, coll, dbfile, root>>

MutUndoNothing(p, oid, n, bad) ==
    /\ \A o \in oid .. bad - 1 : creatable(p, o)
    /\ ~creatable(p, bad) \/ DbMayFail \/ IoMayFail
    /\ obj' = obj_insert(p, oid, bad - oid, "USEROBJECT")
    /\ dfile' = osd_create_datafile(p, oid, bad - oid)
    /\ ic' = NoCache
    /\ sense' = "HARDWARE_ERROR"
    /\ UNCHANGED <<attr, coll, dbfile, root, ccap>>

\* The objects of osd_remove_tmp_objects: how far the removal of each has come
\* (done), and which data files could not be unlinked (stuck).  Answers are
\* ignored; each removal that succeeds fills the page.
osd_remove_tmp_objects(p, made, done, stuck) ==
    LET removed == {o \in made : done[o] = 3}
    IN  /\ attr' = {r \in attr : ~(r[1] = p /\ r[2] \in made /\ done[r[2]] >= 1)}
        /\ coll' = {r \in coll : ~(r[1] = p /\ r[3] \in made /\ done[r[3]] >= 2)}
        /\ dfile' = dfile \cup ({p} \X stuck)
        /\ \/ removed = {} /\ UNCHANGED ccap
           \/ \E o \in removed : (\A q \in removed : q <= o) /\ fill_ccap("USEROBJECT", p, o)

\* The insertion or the data file of object `bad` fails: its row is deleted and
\* the objects already made are removed again.  Rows stay where a statement of
\* the clean-up fails in its turn.
create_undone(p, oid, n, bad) ==
    LET made == oid .. bad - 1
    IN  /\ \A o \in made : creatable(p, o)
        /\ ~creatable(p, bad) \/ DbMayFail \/ IoMayFail
        /\ \E done \in [made -> Completed(3)], stuck \in SUBSET made, kept_row \in BOOLEAN :
             /\ stuck # {} => IoMayFail
             /\ kept_row => DbMayFail /\ ~obj_ispresent(p, bad)
             /\ osd_remove_tmp_objects(p, made, done, stuck)
             /\ obj' = [obj EXCEPT ![p] = [o \in Oid |->
                           IF (o \in made /\ done[o] < 3) \/ (o = bad /\ kept_row)
                           THEN "USEROBJECT" ELSE obj[p][o]]]
        /\ ic' = NoCache
        /\ sense' = "HARDWARE_ERROR"
        /\ UNCHANGED <<dbfile, root>>

osd_create(p, requested, numoid) ==
    LET n == IF numoid = 0 THEN 1 ELSE numoid
        illegal == bad_target(p, requested) \/ (numoid > 1 /\ requested # 0)
    IN  \/ (illegal \/ DbMayFail) /\ Rejected("ILLEGAL_REQUEST")
        \/ ~illegal /\ nextoid_failed(p, requested)
        \/ /\ ~illegal
           /\ \E oid \in Oid :
                /\ chosen_id(p, requested, oid)
                /\ oid + n - 1 \in Oid      \* bound
                /\ \/ create_objects(p, requested, oid, n)
                   \/ \E bad \in oid .. oid + n - 1 : create_undone(p, oid, n, bad)

-----------------------------------------------------------------------------
(* CREATE COLLECTION, CREATE USER TRACKING COLLECTION, COPY USER OBJECTS *)

\* The last two steps of both collection commands.  A refused insertion keeps
\* the cache as the allocation left it.
insert_collection(p, requested, cid) ==
    /\ ic' = ic_after(p, requested, cid, 1)
    /\ \/ /\ ~obj_ispresent(p, cid)
          /\ obj' = obj_insert(p, cid, 1, "COLLECTION")
          /\ fill_ccap("COLLECTION", p, cid)
          /\ sense' = "OSD_OK"
       \/ /\ obj_ispresent(p, cid) \/ DbMayFail
          /\ sense' = "ILLEGAL_REQUEST"
          /\ UNCHANGED <<obj, ccap>>
    /\ UNCHANGED <<attr, disk, root>>

osd_create_collection(p, requested) ==
    \/ (bad_target(p, requested) \/ DbMayFail) /\ Rejected("ILLEGAL_REQUEST")
    \/ nextoid_failed(p, requested)
    \/ /\ ~bad_target(p, requested)
       /\ \E cid \in Oid : chosen_id(p, requested, cid) /\ insert_collection(p, requested, cid)
       /\ UNCHANGED coll

\* Members are copied, all as pointer number 0, before the collection exists.
osd_create_user_tracking_collection(p, requested, source, cdb_cont_len) ==
    LET illegal == \/ bad_target(p, requested)
                   \/ ~obj_ispresent(p, source)
                   \/ (source # 0) # (cdb_cont_len # 0)
        members == IF source = 0 THEN {} ELSE coll_members(p, source)
    IN  \/ (illegal \/ DbMayFail) /\ Rejected("ILLEGAL_REQUEST")
        \/ ~illegal /\ nextoid_failed(p, requested)
        \/ /\ ~illegal
           /\ \E cid \in Oid :
                /\ chosen_id(p, requested, cid)
                /\ \/ /\ \A o \in members : ~coll_conflict(p, cid, o)
                      /\ coll' = coll_insert(p, cid, members, 0)
                      /\ insert_collection(p, requested, cid)
                   \/ /\ source # 0
                      /\ DbMayFail \/ \E o \in members : coll_conflict(p, cid, o)
                      /\ ic' = NoCache
                      /\ sense' = "HARDWARE_ERROR"
                      /\ UNCHANGED <<tables, disk, root, ccap>>

\* Allocates an id and reports it, but copies nothing.
osd_copy_user_objects(p, requested, source_pid, source_oid) ==
    LET illegal == \/ bad_target(p, requested)
                   \/ ~obj_ispresent(source_pid, PARTITION_OID)
                   \/ ~obj_ispresent(source_pid, source_oid)
    IN  \/ (illegal \/ DbMayFail) /\ Rejected("ILLEGAL_REQUEST")
        \/ ~illegal /\ nextoid_failed(p, requested)
        \/ /\ ~illegal
           /\ \E oid \in Oid :
                /\ chosen_id(p, requested, oid)
                /\ ic' = ic_after(p, requested, oid, 1)
                /\ fill_ccap("USEROBJECT", p, oid)
           /\ sense' = "OSD_OK"
           /\ UNCHANGED <<tables, disk, root>>

-----------------------------------------------------------------------------
(* CREATE PARTITION *)

osd_create_partition(requested) ==
    \/ requested # 0 /\ requested < IdLB /\ Rejected("ILLEGAL_REQUEST")
    \/ requested = 0 /\ DbMayFail /\ Rejected("HARDWARE_ERROR")
    \/ /\ requested = 0 \/ requested >= IdLB
       /\ \E p \in Pid :
            /\ IF requested # 0 THEN p = requested
               ELSE \/ obj_get_nextpid(1) /\ p = IdLB
                    \/ obj_get_nextpid(p) /\ p # 1
            /\ \/ /\ ~obj_ispresent(p, PARTITION_OID)
                  /\ obj' = obj_insert(p, PARTITION_OID, 1, "PARTITION")
                  /\ fill_ccap("PARTITION", p, PARTITION_OID)
                  /\ sense' = "OSD_OK"
                  /\ UNCHANGED <<attr, coll, disk, root, ic>>
               \/ /\ obj_ispresent(p, PARTITION_OID) \/ DbMayFail
                  /\ Rejected("ILLEGAL_REQUEST")

-----------------------------------------------------------------------------
(* REMOVE, REMOVE COLLECTION, REMOVE PARTITION *)

\* What the handlers report when the last of n statements has run, or not.
removal_reply(done, n, type, p, o) ==
    IF done = n THEN fill_ccap(type, p, o) /\ sense' = "OSD_OK"
                ELSE sense' = "HARDWARE_ERROR" /\ UNCHANGED ccap

MutNoUnlink(p, o) == UNCHANGED dfile

\* A failed unlink is only logged.
unlink_dfile(p, o) == \/ dfile' = dfile \ {<<p, o>>}
                      \/ IoMayFail /\ UNCHANGED dfile

\* Neither the presence nor the type of the object is checked, and a failed
\* unlink is ignored.
osd_remove(p, o) ==
    \/ (p < IdLB \/ o < IdLB) /\ Rejected("ILLEGAL_REQUEST")
    \/ /\ p >= IdLB /\ o >= IdLB
       /\ ic' = NoCache
       /\ unlink_dfile(p, o)
       /\ \E done \in Completed(3) :
            /\ attr' = IF done >= 1 THEN attr_delete_all(p, o) ELSE attr
            /\ coll' = IF done >= 2 THEN coll_delete_oid(p, o) ELSE coll
            /\ obj'  = IF done >= 3 THEN obj_delete(p, o) ELSE obj
            /\ removal_reply(done, 3, "USEROBJECT", p, o)
       /\ UNCHANGED <<dbfile, root>>

\* Presence is checked, the type is not.
osd_remove_collection(p, c, fcr) ==
    LET illegal == p < IdLB \/ c < IdLB \/ ~obj_ispresent(p, c)
    IN  \/ (illegal \/ DbMayFail) /\ Rejected("ILLEGAL_REQUEST")
        \/ /\ ~illegal
           /\ ic' = NoCache
           /\ \/ /\ ~coll_isempty_cid(p, c) /\ fcr = 0
                 /\ sense' = "NOT_EMPTY"
                 /\ UNCHANGED <<tables, ccap>>
              \/ \E done \in Completed(3) :
                   /\ done > 0 => coll_isempty_cid(p, c) \/ fcr # 0
                   /\ coll' = IF done >= 1 THEN coll_delete_cid(p, c) ELSE coll
                   /\ attr' = IF done >= 2 THEN attr_delete_all(p, c) ELSE attr
                   /\ obj'  = IF done >= 3 THEN obj_delete(p, c) ELSE obj
                   /\ removal_reply(done, 3, "COLLECTION", p, c)
           /\ UNCHANGED <<disk, root>>

MutPartitionNotEmptyOk(p) == \A o \in Oid \ {PARTITION_OID} : obj[p][o] # "USEROBJECT"

\* An absent partition counts as empty.
removable_partition(p) == obj_isempty_pid(p)

osd_remove_partition(p) ==
    \/ p = 0 /\ Rejected("ILLEGAL_REQUEST")
    \/ p # 0 /\ (~removable_partition(p) \/ DbMayFail) /\ Rejected("NOT_EMPTY")
    \/ /\ p # 0 /\ removable_partition(p)
       /\ ic' = NoCache
       /\ \E done \in Completed(2) :
            /\ attr' = IF done >= 1 THEN attr_delete_all(p, PARTITION_OID) ELSE attr
            /\ obj'  = IF done >= 2 THEN obj_delete(p, PARTITION_OID) ELSE obj
            /\ removal_reply(done, 2, "PARTITION", p, PARTITION_OID)
       /\ UNCHANGED <<coll, disk, root>>

-----------------------------------------------------------------------------
(* SET ATTRIBUTES, GET ATTRIBUTES *)

\* Only the command itself, not attributes embedded in another command,
\* updates the current command attributes page.
attr_reply(embedded, p, o) ==
    /\ sense' = "OSD_OK"
    /\ IF embedded THEN UNCHANGED ccap ELSE fill_ccap(get_obj_type(p, o), p, o)

\* osd_set_attributes looks the object up before it looks at the page.
absent_object(p, o) == ~obj_ispresent(p, o) \/ get_obj_type(p, o) = "ILLEGAL_OBJ"

\* The pointer and the length of a value: both are there, neither is, or only
\* one of them.  A CDB with a value of length 0 comes with a pointer.
ValueForms == {"VALUE", "NULL", "MISFIT"}

\* A table-backed page, or one that is not settable.  A caller of the handler
\* deletes the attribute with NULL; no CDB does.
osd_set_attributes(p, o, a, form, embedded) ==
    \/ (absent_object(p, o) \/ DbMayFail) /\ Rejected("ILLEGAL_REQUEST")
    \/ ~absent_object(p, o) /\ a = "READ_ONLY" /\ Rejected("PARAM_LIST")
    \/ ~absent_object(p, o) /\ a \in Attrs /\ form = "MISFIT" /\ Rejected("ILLEGAL_REQUEST")
    \/ ~absent_object(p, o) /\ a \in Attrs /\ form = "VALUE" /\ DbMayFail /\ Rejected("HARDWARE_ERROR")
    \/ /\ ~absent_object(p, o) /\ a \in Attrs /\ form # "MISFIT"
       /\ attr' = IF form = "NULL" THEN attr \ {<<p, o, a>>} ELSE attr \cup {<<p, o, a>>}
       /\ attr_reply(embedded, p, o)
       /\ UNCHANGED <<obj, coll, disk, root, ic>>

\* The Collections page of a user object: pointer `number` names collection
\* c, or is cleared by NULL.
set_cap(p, o, number, c, form, embedded) ==
    LET bad_pointer == ~obj_ispresent(p, c) \/ coll_conflict(p, c, o)
        held == coll_get_cid(p, o, number)
    IN  \/ (absent_object(p, o) \/ DbMayFail) /\ Rejected("ILLEGAL_REQUEST")
        \/ /\ ~absent_object(p, o) /\ get_obj_type(p, o) # "USEROBJECT"
           /\ Rejected("PARAM_LIST")
        \/ /\ ~absent_object(p, o) /\ get_obj_type(p, o) = "USEROBJECT"
           /\ \/ form = "MISFIT" /\ Rejected("ILLEGAL_REQUEST")
              \/ form = "VALUE" /\ bad_pointer /\ Rejected("ILLEGAL_REQUEST")
              \/ /\ \/ /\ form = "NULL"
                       /\ coll' = {r \in coll : ~(r[1] = p /\ r[2] \in held /\ r[3] = o)}
                    \/ /\ form = "VALUE" /\ ~bad_pointer
                       /\ coll' = coll_insert(p, c, {o}, number)
                 /\ attr_reply(embedded, p, o)
                 /\ UNCHANGED <<obj, attr, disk, root, ic>>

\* The rows that are there after the first k insertions of lazy_init_attr,
\* which looks only for the first of them.
lazy_init_attr(p, o, k) ==
    IF <<p, o, Tmstmp>> \in attr THEN attr
    ELSE attr \cup ({p} \X {o} \X ((IF k = 2 THEN {Tmstmp, Atomics}
                                    ELSE IF k = 1 THEN {Tmstmp} ELSE {}) \cap Attrs))

\* UNGETTABLE stands for the pages the object's type does not have.
isgettable_page(type, page) ==
    page # "UNGETTABLE" /\ (page = "USER_TMSTMP_PG" => type = "USEROBJECT")

\* The part the two formats share: the type is looked up for ids of objects.
get_refused(p, o, page) ==
    LET type == get_obj_type(p, o)
    IN  \/ /\ type = "ILLEGAL_OBJ" \/ (o # PARTITION_OID /\ DbMayFail)
           /\ Rejected("ILLEGAL_REQUEST")
        \/ /\ type # "ILLEGAL_OBJ" /\ ~isgettable_page(type, page)
           /\ Rejected("PARAM_LIST")

gettable(p, o, page) ==
    get_obj_type(p, o) # "ILLEGAL_OBJ" /\ isgettable_page(get_obj_type(p, o), page)

\* Asking for all attributes initialises them first, for any id whose type
\* get_obj_type accepts.  The number may be one that the page does not have.
osd_getattr_list(p, o, page, embedded) ==
    LET lazy(k) == IF page = "GETALLATTR_PG" THEN lazy_init_attr(p, o, k) ELSE attr
    IN  \/ get_refused(p, o, page)
        \/ /\ gettable(p, o, page)
           /\ \/ /\ page = "GETALLATTR_PG" /\ DbMayFail
                 /\ \E k \in {0, 1} : attr' = lazy(k)
                 /\ sense' = "HARDWARE_ERROR" /\ UNCHANGED ccap
              \/ /\ attr' = lazy(2)
                 /\ \/ attr_reply(embedded, p, o)
                    \/ /\ DbMayFail \/ page # "GETALLATTR_PG"
                       /\ sense' = "PARAM_LIST" /\ UNCHANGED ccap
           /\ UNCHANGED <<obj, coll, disk, root, ic>>

\* Three pages have a page format; the timestamps are those of the data file
\* and of the database.
osd_getattr_page(p, o, page, embedded) ==
    LET stamped == <<p, o>> \in dfile /\ dbfile
    IN  \/ get_refused(p, o, page)
        \/ /\ gettable(p, o, page)
           /\ IF embedded THEN UNCHANGED ccap ELSE fill_ccap(get_obj_type(p, o), p, o)
           /\ \/ /\ page = "GETALLATTR_PG"
                 /\ \/ attr' = lazy_init_attr(p, o, 2) /\ sense' = "OSD_OK"
                    \/ /\ DbMayFail
                       /\ \E k \in 0 .. 2 :
                            /\ attr' = lazy_init_attr(p, o, k)
                            /\ sense' = IF k = 2 THEN "PARAM_LIST" ELSE "HARDWARE_ERROR"
              \/ /\ page = "CUR_CMD_ATTR_PG"
                 /\ sense' = "OSD_OK" /\ UNCHANGED attr
              \/ /\ page = "USER_TMSTMP_PG"
                 /\ \/ stamped /\ sense' = "OSD_OK"
                    \/ (~stamped \/ IoMayFail) /\ sense' = "PARAM_LIST"
                 /\ UNCHANGED attr
              \/ /\ page = "OTHER_PG"
                 /\ sense' = "ILLEGAL_REQUEST" /\ UNCHANGED attr
           /\ UNCHANGED <<obj, coll, disk, root, ic>>

-----------------------------------------------------------------------------
(* Start-up and FORMAT OSD *)

InitialObj == [p \in Pid |-> [o \in Oid |->
                  IF p = 0 /\ o = 0 THEN "ROOT" ELSE "ILLEGAL_OBJ"]]

\* osd_initialize_db: the root object's own attribute rows are left out.
fresh_tables == obj' = InitialObj /\ attr' = {} /\ coll' = {}

\* The state of a server that has just opened its root.
restarted ==
    /\ dbfile' = TRUE
    /\ root' = "set"
    /\ ic' = NoCache /\ ccap' = NoCcap
    /\ sense' = "OSD_OK"

\* The server is stopped, or dies between two commands, and opens root again.
\* A missing database is created afresh.
osd_open ==
    /\ IF dbfile THEN UNCHANGED tables ELSE fresh_tables
    /\ restarted
    /\ UNCHANGED dfile

\* md/ is emptied, then the data files, then everything is created again; a
\* FORMAT that finds no database goes straight to the creation.  The handler
\* frees osd->root whatever the outcome.
osd_format_osd ==
    /\ root' = "freed"
    /\ \/ /\ dfile' = IF dbfile THEN {} ELSE dfile
          /\ fresh_tables
          /\ dbfile' = TRUE
          /\ ic' = NoCache /\ ccap' = NoCcap
          /\ sense' = "OSD_OK"
       \/ /\ dbfile /\ Faults
          /\ dbfile' \in BOOLEAN
          /\ IF dbfile' THEN UNCHANGED dfile ELSE dfile' \in SUBSET dfile
          /\ sense' = "HARDWARE_ERROR"
          /\ UNCHANGED <<tables, ic, ccap>>

-----------------------------------------------------------------------------
Init ==
    /\ obj = InitialObj /\ attr = {} /\ coll = {}
    /\ dfile = {} /\ dbfile = TRUE
    /\ root = "set" /\ ic = NoCache /\ ccap = NoCcap
    /\ sense = "OSD_OK"

\* Identifiers a command may carry: 0, one the target could have given out, and
\* 1 for those too small to be valid.
PidInput == {0, 1} \cup IdLB .. MaxPid
OidInput == {0, 1} \cup IdLB .. MaxOid

Create == \E p \in PidInput, r \in OidInput, n \in 0 .. MaxNumOid : osd_create(p, r, n)

CreateCollection == \E p \in PidInput, r \in OidInput : osd_create_collection(p, r)

CreateTracking ==
    \E p \in PidInput, r, s \in OidInput, len \in {0, 1} : osd_create_user_tracking_collection(p, r, s, len)

Copy == \E p, sp \in PidInput, r, so \in OidInput : osd_copy_user_objects(p, r, sp, so)

CreatePartition == \E r \in PidInput : osd_create_partition(r)

Remove == \E p \in PidInput, o \in OidInput : osd_remove(p, o)

RemoveCollection == \E p \in PidInput, c \in OidInput, fcr \in {0, 1} : osd_remove_collection(p, c, fcr)

RemovePartition == \E p \in PidInput : osd_remove_partition(p)

SetAttr ==
    \E p \in PidInput, o \in OidInput, a \in Attrs \cup {"READ_ONLY"}, form \in ValueForms, e \in BOOLEAN :
        osd_set_attributes(p, o, a, form, e)

SetPointer ==
    \E p \in PidInput, o, c \in OidInput, n \in CollPtrs, form \in ValueForms, e \in BOOLEAN :
        set_cap(p, o, n, c, form, e)

GetPages == {"GETALLATTR_PG", "CUR_CMD_ATTR_PG", "USER_TMSTMP_PG", "OTHER_PG", "UNGETTABLE"}

GetAttr ==
    \E p \in PidInput, o \in OidInput, page \in GetPages, e \in BOOLEAN :
        osd_getattr_list(p, o, page, e) \/ osd_getattr_page(p, o, page, e)

Next ==
    \/ Create \/ CreateCollection \/ CreateTracking \/ Copy \/ CreatePartition
    \/ Remove \/ RemoveCollection \/ RemovePartition
    \/ SetAttr \/ SetPointer \/ GetAttr
    \/ osd_format_osd \/ osd_open

Spec == Init /\ [][Next]_vars

\* Initiators that address each command to an object of the type it is for,
\* on a device that is not formatted while it is in use.
IsOf(type, p, o) == obj[p][o] \in {type, "ILLEGAL_OBJ"}

TypedRemove ==
    \E p \in PidInput, o \in OidInput : IsOf("USEROBJECT", p, o) /\ osd_remove(p, o)

TypedRemoveCollection ==
    \E p \in PidInput, c \in OidInput, fcr \in {0, 1} :
        IsOf("COLLECTION", p, c) /\ osd_remove_collection(p, c, fcr)

TypedTracking ==
    \E p \in PidInput, r, s \in OidInput, len \in {0, 1} :
        /\ s # 0 => IsOf("COLLECTION", p, s)
        /\ osd_create_user_tracking_collection(p, r, s, len)

TypedSetPointer ==
    \E p \in PidInput, o, c \in OidInput, n \in CollPtrs, form \in ValueForms, e \in BOOLEAN :
        /\ IsOf("COLLECTION", p, c)
        /\ form = "NULL" => coll_get_cid(p, o, n) # {0}
        /\ set_cap(p, o, n, c, form, e)

TypedNext ==
    \/ Create \/ CreateCollection \/ TypedTracking \/ Copy \/ CreatePartition
    \/ TypedRemove \/ TypedRemoveCollection \/ RemovePartition
    \/ SetAttr \/ TypedSetPointer \/ GetAttr
    \/ osd_open

TypedSpec == Init /\ [][TypedNext]_vars

-----------------------------------------------------------------------------
(* Properties *)

\* The tables, the files and struct osd_device hold values of their types.
TypeOK ==
    /\ obj \in [Pid -> [Oid -> RowType]]
    /\ attr \subseteq Pid \X Oid \X Attrs
    /\ coll \subseteq Pid \X Oid \X Oid \X (CollPtrs \cup {0})
    /\ dfile \subseteq Pid \X Oid
    /\ dbfile \in BOOLEAN
    /\ root \in {"set", "freed"}
    /\ ic \in [cur_pid : Pid, next_id : 0 .. MaxOid + 1]
    /\ ccap \in [obj_type : RowType, pid : Pid, oid : Oid]
    /\ sense \in Sense

\* The id a creating command would choose by itself in partition p is free,
\* and so is every id above it: whatever mix of automatic and requested
\* creations, removals, failures and restarts came before, neither the id
\* cache nor MAX(oid)+1 can propose an id that obj_insert would refuse
\* (osd.c:1291-1318).
AllocationFresh ==
    \A p \in Pid, id, o \in Oid :
        ~bad_target(p, 0) /\ alloc_id(p, id) /\ o >= id => ~obj_ispresent(p, o)

\* Why that is so: whatever the cache remembers lies above every object of its
\* partition, also after a creation that failed half way (osd.c:1352, 1365).
IdCacheSound ==
    ic.cur_pid # 0 =>
        /\ ic.next_id > 0
        /\ \A o \in Oid : obj_ispresent(ic.cur_pid, o) => o < ic.next_id

\* Every collection and user object lies in a partition that exists: no order
\* of creations and removals, however it fails, leaves objects behind a
\* partition that is gone (osd.c:2805).
Contained ==
    \A p \in Pid, o \in Oid : obj_ispresent(p, o) => obj_ispresent(p, PARTITION_OID)

\* Attributes never outlive the user object or collection they describe, so a
\* later object with the same id cannot inherit them (osd.c:2683, 2751).
AttrsOwned ==
    \A r \in attr : r[2] # PARTITION_OID => obj_ispresent(r[1], r[2])

\* As long as no system call or statement fails on its own, the data file of a
\* user object exists, so READ and WRITE can open it (osd.c:1332, 2675).
UserObjectHasFile ==
    \A p \in Pid, o \in Oid : obj[p][o] = "USEROBJECT" => <<p, o>> \in dfile

\* A command that reports an error has not changed which objects exist, which
\* attributes are set or, while the root path is good, which data files exist: a
\* CREATE of several objects that fails in the middle is undone
\* (osd.c:1323-1338).
ErrorHasNoEffect ==
    [][sense' # "OSD_OK" => UNCHANGED <<obj, attr>> /\ (root = "set" => UNCHANGED dfile)]_vars

\* With typed initiators and no faults, every membership row joins a user
\* object and a collection that both still exist, through every order of
\* pointer changes, copies and removals (osd.c:2688, 2746).
MembershipSound ==
    \A r \in coll : obj[r[1]][r[2]] = "COLLECTION" /\ obj[r[1]][r[3]] = "USEROBJECT"

\* With typed initiators and no faults, the data files are exactly those of the
\* user objects, so that no automatic CREATE can meet a stranded file
\* (osd.c:1332, 2675).
FilesMatchObjects ==
    dfile = {f \in Pid \X Oid : obj[f[1]][f[2]] = "USEROBJECT"}

\* What osd.c:2730 says of REMOVE COLLECTION: it removes collections, so a user
\* object is never lost to it.
CollectionRemovalSparesObjects ==
    [][ccap'.obj_type = "COLLECTION" /\ ccap' # ccap =>
        \A p \in Pid, o \in Oid : obj[p][o] = "USEROBJECT" => obj'[p][o] = "USEROBJECT"]_vars

\* What osd.schema:38 and osd.c:1612 say of memberships: they are many-to-many,
\* and creating a tracking collection copies the members of its source, so no
\* collection loses a member when another one is created.
CreationKeepsMembers ==
    [][(\E p \in Pid, c \in Oid : obj[p][c] = "ILLEGAL_OBJ" /\ obj'[p][c] = "COLLECTION")
        => coll \subseteq coll']_vars

=============================================================================
