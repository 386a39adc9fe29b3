--------------------------- MODULE OsdStoreProofs ---------------------------
(***************************************************************************)
(* Machine-checked proofs about OsdStore, for every value of its constants: *)
(* any number of ids, any attributes, with and without faults.              *)
(***************************************************************************)
EXTENDS OsdStore, TLAPS

(* The ids a command carries are ids. *)
LEMMA Inputs ==
    /\ PidInput \subseteq Pid /\ OidInput \subseteq Oid
    /\ 0 \in Pid /\ 0 \in Oid /\ IdLB \in Pid /\ IdLB \in Oid
    /\ Pid \subseteq Nat /\ Oid \subseteq Nat
    /\ IdLB \in Nat /\ IdLB > 1 /\ MaxOid \in Nat /\ MaxPid \in Nat
BY IdAssumption DEF PidInput, OidInput, Pid, Oid

(* obj_insert and obj_delete change exactly the rows they name. *)
LEMMA InsertRows ==
    ASSUME obj \in [Pid -> [Oid -> RowType]], NEW p \in Pid, NEW oid, NEW n, NEW type \in RowType
    PROVE  /\ obj_insert(p, oid, n, type) \in [Pid -> [Oid -> RowType]]
           /\ \A q \in Pid, o \in Oid :
                obj_insert(p, oid, n, type)[q][o] =
                    IF q = p /\ o \in oid .. oid + n - 1 THEN type ELSE obj[q][o]
BY DEF obj_insert

LEMMA DeleteRow ==
    ASSUME obj \in [Pid -> [Oid -> RowType]], NEW p \in Pid, NEW o \in Oid
    PROVE  /\ obj_delete(p, o) \in [Pid -> [Oid -> RowType]]
           /\ \A q \in Pid, x \in Oid :
                obj_delete(p, o)[q][x] = IF q = p /\ x = o THEN "ILLEGAL_OBJ" ELSE obj[q][x]
BY DEF obj_delete, RowType

LEMMA FreshRows ==
    /\ InitialObj \in [Pid -> [Oid -> RowType]]
    /\ \A p \in Pid, o \in Oid :
        InitialObj[p][o] = IF p = 0 /\ o = 0 THEN "ROOT" ELSE "ILLEGAL_OBJ"
BY DEF InitialObj, RowType, ObjType

(* What get_obj_type answers is a row type. *)
LEMMA ObjTypeTyped ==
    ASSUME TypeOK, NEW p \in Pid, NEW o \in Oid
    PROVE  get_obj_type(p, o) \in RowType
BY Inputs DEF get_obj_type, TypeOK, RowType, ObjType

-----------------------------------------------------------------------------
(* Type correctness, handler by handler *)

LEMMA RejectedType ==
    ASSUME TypeOK, NEW s \in Sense, Rejected(s)
    PROVE  TypeOK'
BY DEF TypeOK, Rejected, tables, disk

LEMMA NextoidFailedType ==
    ASSUME TypeOK, NEW p \in Pid, NEW r \in Oid, nextoid_failed(p, r)
    PROVE  TypeOK'
BY Inputs DEF TypeOK, nextoid_failed, tables, disk, NoCache, Sense, Pid

LEMMA CacheType ==
    ASSUME NEW p \in Pid, NEW r \in Oid, NEW id \in Oid, NEW n \in Nat, n >= 1, id + n - 1 \in Oid
    PROVE  ic_after(p, r, id, n) \in [cur_pid : Pid, next_id : 0 .. MaxOid + 1]
BY Inputs DEF ic_after, NoCache, Oid

(* A CREATE that undoes itself: tables attr and coll lose rows at most, and    *)
(* the rows and files its clean-up could not remove are those it made.         *)
LEMMA UndoneEffect ==
    ASSUME TypeOK, NEW p \in Pid, NEW oid \in Oid, NEW n \in Nat, oid + n - 1 \in Oid,
           NEW bad \in oid .. oid + n - 1, create_undone(p, oid, n, bad)
    PROVE  /\ attr' \subseteq attr /\ coll' \subseteq coll
           /\ dfile \subseteq dfile' /\ dfile' \subseteq dfile \cup ({p} \X (oid .. bad - 1))
           /\ ic' = NoCache /\ sense' = "HARDWARE_ERROR" /\ UNCHANGED <<dbfile, root>>
           /\ obj' \in [Pid -> [Oid -> RowType]]
           /\ \A q \in Pid, o \in Oid :
                \/ obj'[q][o] = obj[q][o]
                \/ q = p /\ o \in oid .. bad /\ obj[q][o] = "ILLEGAL_OBJ" /\ obj'[q][o] = "USEROBJECT"
           /\ \/ UNCHANGED ccap
              \/ \E o \in oid .. bad - 1 : ccap' = [obj_type |-> "USEROBJECT", pid |-> p, oid |-> o]
<1> DEFINE made == oid .. bad - 1
<1>1. PICK done \in [made -> Completed(3)], stuck \in SUBSET made, kept_row \in BOOLEAN :
        /\ kept_row => ~obj_ispresent(p, bad)
        /\ osd_remove_tmp_objects(p, made, done, stuck)
        /\ obj' = [obj EXCEPT ![p] = [o \in Oid |->
                      IF (o \in made /\ done[o] < 3) \/ (o = bad /\ kept_row)
                      THEN "USEROBJECT" ELSE obj[p][o]]]
  BY DEF create_undone
<1>2. \A o \in made : ~obj_ispresent(p, o)
  BY DEF create_undone, creatable
<1>3. made \subseteq oid .. bad /\ bad \in oid .. bad
  BY Inputs DEF Oid
<1>4. /\ obj' \in [Pid -> [Oid -> RowType]]
      /\ \A q \in Pid, o \in Oid :
           \/ obj'[q][o] = obj[q][o]
           \/ q = p /\ o \in oid .. bad /\ obj[q][o] = "ILLEGAL_OBJ" /\ obj'[q][o] = "USEROBJECT"
  <2>1. obj' \in [Pid -> [Oid -> RowType]]
    BY <1>1 DEF TypeOK, RowType, ObjType
  <2>2. ASSUME NEW q \in Pid, NEW o \in Oid, obj'[q][o] # obj[q][o]
        PROVE  q = p /\ o \in oid .. bad /\ obj[q][o] = "ILLEGAL_OBJ" /\ obj'[q][o] = "USEROBJECT"
    <3>1. q = p /\ obj'[q][o] = "USEROBJECT" /\ (o \in made \/ (o = bad /\ kept_row))
      BY <1>1, <2>2 DEF TypeOK
    <3> QED
      BY <3>1, <1>1, <1>2, <1>3 DEF obj_ispresent
  <2> QED
    BY <2>1, <2>2
<1>5. /\ attr' \subseteq attr /\ coll' \subseteq coll
      /\ dfile \subseteq dfile' /\ dfile' \subseteq dfile \cup ({p} \X made)
  BY <1>1 DEF osd_remove_tmp_objects
<1>6. \/ UNCHANGED ccap
      \/ \E o \in made : ccap' = [obj_type |-> "USEROBJECT", pid |-> p, oid |-> o]
  BY <1>1 DEF osd_remove_tmp_objects, fill_ccap
<1> HIDE DEF made
<1>7. ic' = NoCache /\ sense' = "HARDWARE_ERROR" /\ UNCHANGED <<dbfile, root>>
  BY DEF create_undone
<1> QED
  BY <1>4, <1>5, <1>6, <1>7 DEF made

LEMMA CreateType ==
    ASSUME TypeOK, NEW p \in Pid, NEW r \in Oid, NEW numoid \in Nat, osd_create(p, r, numoid)
    PROVE  TypeOK'
<1> DEFINE n == IF numoid = 0 THEN 1 ELSE numoid
<1>n. n \in Nat /\ n >= 1
  OBVIOUS
<1>1. CASE Rejected("ILLEGAL_REQUEST")
  BY <1>1, RejectedType DEF Sense
<1>2. CASE nextoid_failed(p, r)
  BY <1>2, NextoidFailedType
<1>3. ASSUME NEW oid \in Oid, oid + n - 1 \in Oid, create_objects(p, r, oid, n)
      PROVE  TypeOK'
  <2>1. obj' \in [Pid -> [Oid -> RowType]]
    BY <1>3, InsertRows DEF create_objects, TypeOK, RowType, ObjType
  <2>2. ic' \in [cur_pid : Pid, next_id : 0 .. MaxOid + 1]
    BY <1>3, <1>n, CacheType DEF create_objects
  <2>3. dfile' \subseteq Pid \X Oid
    BY <1>3, <1>n, Inputs DEF create_objects, osd_create_datafile, TypeOK, Oid
  <2>4. ccap' \in [obj_type : RowType, pid : Pid, oid : Oid]
    BY <1>3 DEF create_objects, fill_ccap, RowType, ObjType
  <2> QED
    BY <1>3, <2>1, <2>2, <2>3, <2>4 DEF create_objects, TypeOK, Sense
<1>4. ASSUME NEW oid \in Oid, oid + n - 1 \in Oid,
             NEW bad \in oid .. oid + n - 1, create_undone(p, oid, n, bad)
      PROVE  TypeOK'
  <2>1. oid .. bad - 1 \subseteq Oid
    BY <1>4, <1>n, Inputs DEF Oid
  <2>2. ccap' \in [obj_type : RowType, pid : Pid, oid : Oid]
    <3>1. ASSUME NEW o \in oid .. bad - 1, ccap' = [obj_type |-> "USEROBJECT", pid |-> p, oid |-> o]
          PROVE  ccap' \in [obj_type : RowType, pid : Pid, oid : Oid]
      BY <2>1, <3>1 DEF RowType, ObjType
    <3>2. \/ UNCHANGED ccap
          \/ \E o \in oid .. bad - 1 : ccap' = [obj_type |-> "USEROBJECT", pid |-> p, oid |-> o]
      BY <1>4, <1>n, UndoneEffect
    <3> QED
      BY <3>1, <3>2 DEF TypeOK
  <2>3. dfile' \subseteq Pid \X Oid
    BY <1>4, <1>n, <2>1, UndoneEffect DEF TypeOK
  <2>4. NoCache \in [cur_pid : Pid, next_id : 0 .. MaxOid + 1] /\ "HARDWARE_ERROR" \in Sense
    BY Inputs DEF NoCache, Sense
  <2>5. /\ attr' \subseteq attr /\ coll' \subseteq coll /\ ic' = NoCache
        /\ sense' = "HARDWARE_ERROR" /\ UNCHANGED <<dbfile, root>>
        /\ obj' \in [Pid -> [Oid -> RowType]]
    BY <1>4, <1>n, UndoneEffect
  <2> QED
    BY <2>2, <2>3, <2>4, <2>5 DEF TypeOK
<1> QED
  BY <1>1, <1>2, <1>3, <1>4 DEF osd_create

LEMMA InsertCollectionType ==
    ASSUME TypeOK, NEW p \in Pid, NEW r \in Oid, NEW cid \in Oid,
           insert_collection(p, r, cid),
           coll' \subseteq Pid \X Oid \X Oid \X (CollPtrs \cup {0})
    PROVE  TypeOK'
<1>1. obj' \in [Pid -> [Oid -> RowType]]
  BY InsertRows DEF insert_collection, TypeOK, RowType, ObjType
<1>2. ic' \in [cur_pid : Pid, next_id : 0 .. MaxOid + 1]
  BY CacheType, Inputs DEF insert_collection
<1>3. ccap' \in [obj_type : RowType, pid : Pid, oid : Oid] /\ sense' \in Sense
  BY DEF insert_collection, TypeOK, fill_ccap, RowType, ObjType, Sense
<1> QED
  BY <1>1, <1>2, <1>3 DEF insert_collection, TypeOK, disk

LEMMA CreateCollectionType ==
    ASSUME TypeOK, NEW p \in Pid, NEW r \in Oid, osd_create_collection(p, r)
    PROVE  TypeOK'
<1>1. CASE Rejected("ILLEGAL_REQUEST")
  BY <1>1, RejectedType DEF Sense
<1>2. CASE nextoid_failed(p, r)
  BY <1>2, NextoidFailedType
<1>3. ASSUME NEW cid \in Oid, insert_collection(p, r, cid), UNCHANGED coll
      PROVE  TypeOK'
  BY <1>3, InsertCollectionType DEF TypeOK
<1> QED
  BY <1>1, <1>2, <1>3 DEF osd_create_collection

LEMMA CreateTrackingType ==
    ASSUME TypeOK, NEW p \in Pid, NEW r \in Oid, NEW s \in Oid, NEW len,
           osd_create_user_tracking_collection(p, r, s, len)
    PROVE  TypeOK'
<1> DEFINE members == IF s = 0 THEN {} ELSE coll_members(p, s)
<1>m. members \subseteq Oid
  BY DEF coll_members
<1> HIDE DEF members
<1>1. CASE Rejected("ILLEGAL_REQUEST")
  BY <1>1, RejectedType DEF Sense
<1>2. CASE nextoid_failed(p, r)
  BY <1>2, NextoidFailedType
<1>3. ASSUME NEW cid \in Oid, coll' = coll_insert(p, cid, members, 0),
             insert_collection(p, r, cid)
      PROVE  TypeOK'
  <2>1. coll' \subseteq Pid \X Oid \X Oid \X (CollPtrs \cup {0})
    BY <1>3, <1>m DEF coll_insert, TypeOK
  <2> QED
    BY <1>3, <2>1, InsertCollectionType
<1>4. CASE ic' = NoCache /\ sense' = "HARDWARE_ERROR" /\ UNCHANGED <<tables, disk, root, ccap>>
  BY <1>4, Inputs DEF TypeOK, tables, disk, NoCache, Sense
<1> QED
  BY <1>1, <1>2, <1>3, <1>4 DEF osd_create_user_tracking_collection, members

LEMMA CopyType ==
    ASSUME TypeOK, NEW p \in Pid, NEW r \in Oid, NEW sp, NEW so,
           osd_copy_user_objects(p, r, sp, so)
    PROVE  TypeOK'
<1>1. CASE Rejected("ILLEGAL_REQUEST")
  BY <1>1, RejectedType DEF Sense
<1>2. CASE nextoid_failed(p, r)
  BY <1>2, NextoidFailedType
<1>3. ASSUME NEW oid \in Oid, ic' = ic_after(p, r, oid, 1), fill_ccap("USEROBJECT", p, oid),
             sense' = "OSD_OK", UNCHANGED <<tables, disk, root>>
      PROVE  TypeOK'
  <2>1. ic' \in [cur_pid : Pid, next_id : 0 .. MaxOid + 1]
    BY <1>3, CacheType, Inputs
  <2> QED
    BY <1>3, <2>1 DEF TypeOK, fill_ccap, tables, disk, Sense, RowType, ObjType
<1> QED
  BY <1>1, <1>2, <1>3 DEF osd_copy_user_objects

LEMMA CreatePartitionType ==
    ASSUME TypeOK, NEW r \in Pid, osd_create_partition(r)
    PROVE  TypeOK'
<1>1. CASE Rejected("ILLEGAL_REQUEST") \/ Rejected("HARDWARE_ERROR")
  BY <1>1, RejectedType DEF Sense
<1>2. ASSUME NEW p \in Pid, obj' = obj_insert(p, PARTITION_OID, 1, "PARTITION"),
             fill_ccap("PARTITION", p, PARTITION_OID), sense' = "OSD_OK",
             UNCHANGED <<attr, coll, disk, root, ic>>
      PROVE  TypeOK'
  <2>1. obj' \in [Pid -> [Oid -> RowType]]
    BY <1>2, InsertRows DEF TypeOK, RowType, ObjType
  <2> QED
    BY <1>2, <2>1, Inputs DEF TypeOK, fill_ccap, disk, Sense, RowType, ObjType, PARTITION_OID
<1> QED
  BY <1>1, <1>2 DEF osd_create_partition

LEMMA RemovalReplyType ==
    ASSUME TypeOK, NEW done, NEW n, NEW type \in RowType, NEW p \in Pid, NEW o \in Oid,
           removal_reply(done, n, type, p, o)
    PROVE  ccap' \in [obj_type : RowType, pid : Pid, oid : Oid] /\ sense' \in Sense
BY DEF removal_reply, fill_ccap, TypeOK, Sense

LEMMA RemoveType ==
    ASSUME TypeOK, NEW p \in Pid, NEW o \in Oid, osd_remove(p, o)
    PROVE  TypeOK'
<1>1. CASE Rejected("ILLEGAL_REQUEST")
  BY <1>1, RejectedType DEF Sense
<1>2. ASSUME ic' = NoCache, unlink_dfile(p, o), UNCHANGED <<dbfile, root>>,
             NEW done \in Completed(3),
             attr' = IF done >= 1 THEN attr_delete_all(p, o) ELSE attr,
             coll' = IF done >= 2 THEN coll_delete_oid(p, o) ELSE coll,
             obj' = IF done >= 3 THEN obj_delete(p, o) ELSE obj,
             removal_reply(done, 3, "USEROBJECT", p, o)
      PROVE  TypeOK'
  <2>1. obj' \in [Pid -> [Oid -> RowType]]
    BY <1>2, DeleteRow DEF TypeOK
  <2>2. attr' \subseteq attr /\ coll' \subseteq coll /\ dfile' \subseteq dfile
    BY <1>2 DEF attr_delete_all, coll_delete_oid, unlink_dfile
  <2>3. ccap' \in [obj_type : RowType, pid : Pid, oid : Oid] /\ sense' \in Sense
    BY <1>2, RemovalReplyType DEF RowType, ObjType
  <2>4. ic' \in [cur_pid : Pid, next_id : 0 .. MaxOid + 1]
    BY <1>2, Inputs DEF NoCache
  <2> QED
    BY <1>2, <2>1, <2>2, <2>3, <2>4 DEF TypeOK
<1> QED
  BY <1>1, <1>2 DEF osd_remove

LEMMA RemoveCollectionType ==
    ASSUME TypeOK, NEW p \in Pid, NEW c \in Oid, NEW fcr, osd_remove_collection(p, c, fcr)
    PROVE  TypeOK'
<1>1. CASE Rejected("ILLEGAL_REQUEST")
  BY <1>1, RejectedType DEF Sense
<1>2. CASE ic' = NoCache /\ sense' = "NOT_EMPTY" /\ UNCHANGED <<tables, ccap>> /\ UNCHANGED <<disk, root>>
  BY <1>2, Inputs DEF TypeOK, NoCache, tables, disk, Sense
<1>3. ASSUME ic' = NoCache, UNCHANGED <<disk, root>>,
             NEW done \in Completed(3),
             coll' = IF done >= 1 THEN coll_delete_cid(p, c) ELSE coll,
             attr' = IF done >= 2 THEN attr_delete_all(p, c) ELSE attr,
             obj' = IF done >= 3 THEN obj_delete(p, c) ELSE obj,
             removal_reply(done, 3, "COLLECTION", p, c)
      PROVE  TypeOK'
  <2>1. obj' \in [Pid -> [Oid -> RowType]]
    BY <1>3, DeleteRow DEF TypeOK
  <2>2. attr' \subseteq attr /\ coll' \subseteq coll
    BY <1>3 DEF attr_delete_all, coll_delete_cid
  <2>3. ccap' \in [obj_type : RowType, pid : Pid, oid : Oid] /\ sense' \in Sense
    BY <1>3, RemovalReplyType DEF RowType, ObjType
  <2>4. ic' \in [cur_pid : Pid, next_id : 0 .. MaxOid + 1]
    BY <1>3, Inputs DEF NoCache
  <2> QED
    BY <1>3, <2>1, <2>2, <2>3, <2>4 DEF TypeOK, disk
<1> QED
  BY <1>1, <1>2, <1>3 DEF osd_remove_collection

LEMMA RemovePartitionType ==
    ASSUME TypeOK, NEW p \in Pid, osd_remove_partition(p)
    PROVE  TypeOK'
<1>1. CASE Rejected("ILLEGAL_REQUEST") \/ Rejected("NOT_EMPTY")
  BY <1>1, RejectedType DEF Sense
<1>2. ASSUME ic' = NoCache, UNCHANGED <<coll, disk, root>>,
             NEW done \in Completed(2),
             attr' = IF done >= 1 THEN attr_delete_all(p, PARTITION_OID) ELSE attr,
             obj' = IF done >= 2 THEN obj_delete(p, PARTITION_OID) ELSE obj,
             removal_reply(done, 2, "PARTITION", p, PARTITION_OID)
      PROVE  TypeOK'
  <2>0. PARTITION_OID \in Oid
    BY Inputs DEF PARTITION_OID
  <2>1. obj' \in [Pid -> [Oid -> RowType]]
    BY <1>2, <2>0, DeleteRow DEF TypeOK
  <2>2. attr' \subseteq attr
    BY <1>2 DEF attr_delete_all
  <2>3. ccap' \in [obj_type : RowType, pid : Pid, oid : Oid] /\ sense' \in Sense
    BY <1>2, <2>0, RemovalReplyType DEF RowType, ObjType
  <2>4. ic' \in [cur_pid : Pid, next_id : 0 .. MaxOid + 1]
    BY <1>2, Inputs DEF NoCache
  <2> QED
    BY <1>2, <2>1, <2>2, <2>3, <2>4 DEF TypeOK, disk
<1> QED
  BY <1>1, <1>2 DEF osd_remove_partition

LEMMA AttrReplyType ==
    ASSUME TypeOK, NEW p \in Pid, NEW o \in Oid, NEW e, attr_reply(e, p, o)
    PROVE  ccap' \in [obj_type : RowType, pid : Pid, oid : Oid] /\ sense' \in Sense
BY ObjTypeTyped DEF attr_reply, fill_ccap, TypeOK, Sense

LEMMA SetAttributesType ==
    ASSUME TypeOK, NEW p \in Pid, NEW o \in Oid, NEW a, NEW len, NEW e,
           osd_set_attributes(p, o, a, len, e)
    PROVE  TypeOK'
<1>1. CASE Rejected("ILLEGAL_REQUEST") \/ Rejected("HARDWARE_ERROR") \/ Rejected("PARAM_LIST")
  BY <1>1, RejectedType DEF Sense
<1>2. CASE /\ a \in Attrs
           /\ attr' = IF len = "NULL" THEN attr \ {<<p, o, a>>} ELSE attr \cup {<<p, o, a>>}
           /\ attr_reply(e, p, o)
           /\ UNCHANGED <<obj, coll, disk, root, ic>>
  <2>1. attr' \subseteq Pid \X Oid \X Attrs
    BY <1>2 DEF TypeOK
  <2> QED
    BY <1>2, <2>1, AttrReplyType DEF TypeOK, disk
<1> QED
  BY <1>1, <1>2 DEF osd_set_attributes

LEMMA SetCapType ==
    ASSUME TypeOK, NEW p \in Pid, NEW o \in Oid, NEW n \in CollPtrs, NEW c \in Oid,
           NEW len, NEW e, set_cap(p, o, n, c, len, e)
    PROVE  TypeOK'
<1>1. CASE Rejected("ILLEGAL_REQUEST") \/ Rejected("PARAM_LIST")
  BY <1>1, RejectedType DEF Sense
<1>2. ASSUME \/ coll' \subseteq coll
             \/ coll' = coll_insert(p, c, {o}, n),
             attr_reply(e, p, o),
             UNCHANGED <<obj, attr, disk, root, ic>>
      PROVE  TypeOK'
  <2>1. coll' \subseteq Pid \X Oid \X Oid \X (CollPtrs \cup {0})
    BY <1>2 DEF coll_insert, TypeOK
  <2> QED
    BY <1>2, <2>1, AttrReplyType DEF TypeOK, disk
<1> QED
  BY <1>1, <1>2 DEF set_cap

LEMMA LazyRows ==
    ASSUME TypeOK, NEW p \in Pid, NEW o \in Oid, NEW k
    PROVE  /\ lazy_init_attr(p, o, k) \subseteq Pid \X Oid \X Attrs
           /\ \A x \in lazy_init_attr(p, o, k) : x \in attr \/ (x[1] = p /\ x[2] = o)
BY DEF lazy_init_attr, TypeOK

LEMMA GetAttrType ==
    ASSUME TypeOK, NEW p \in Pid, NEW o \in Oid, NEW page, NEW e,
           osd_getattr_list(p, o, page, e) \/ osd_getattr_page(p, o, page, e)
    PROVE  TypeOK'
<1>1. CASE get_refused(p, o, page)
  BY <1>1, RejectedType DEF get_refused, Sense
<1>2. ASSUME attr' = attr \/ \E k : attr' = lazy_init_attr(p, o, k),
             sense' \in Sense,
             \/ UNCHANGED ccap
             \/ fill_ccap(get_obj_type(p, o), p, o),
             UNCHANGED <<obj, coll, disk, root, ic>>
      PROVE  TypeOK'
  <2>1. attr' \subseteq Pid \X Oid \X Attrs
    BY <1>2, LazyRows DEF TypeOK
  <2>2. ccap' \in [obj_type : RowType, pid : Pid, oid : Oid]
    BY <1>2, ObjTypeTyped DEF TypeOK, fill_ccap
  <2> QED
    BY <1>2, <2>1, <2>2 DEF TypeOK, disk
<1>3. CASE osd_getattr_list(p, o, page, e)
  BY <1>1, <1>2, <1>3 DEF osd_getattr_list, attr_reply, Sense
<1>4. CASE osd_getattr_page(p, o, page, e)
  BY <1>1, <1>2, <1>4 DEF osd_getattr_page, Sense
<1> QED
  BY <1>3, <1>4

LEMMA OpenType == ASSUME TypeOK, osd_open PROVE TypeOK'
<1>1. NoCcap \in [obj_type : RowType, pid : Pid, oid : Oid]
  BY Inputs DEF NoCcap, RowType
<1>2. NoCache \in [cur_pid : Pid, next_id : 0 .. MaxOid + 1]
  BY Inputs DEF NoCache
<1> QED
  BY <1>1, <1>2, FreshRows DEF osd_open, restarted, TypeOK, fresh_tables, tables, Sense

LEMMA FormatType == ASSUME TypeOK, osd_format_osd PROVE TypeOK'
<1>1. NoCcap \in [obj_type : RowType, pid : Pid, oid : Oid]
  BY Inputs DEF NoCcap, RowType
<1>2. NoCache \in [cur_pid : Pid, next_id : 0 .. MaxOid + 1]
  BY Inputs DEF NoCache
<1>3. dfile' \subseteq Pid \X Oid
  BY DEF osd_format_osd, TypeOK
<1> QED
  BY <1>1, <1>2, <1>3, FreshRows DEF osd_format_osd, TypeOK, fresh_tables, tables, Sense

LEMMA InitType == Init => TypeOK
<1>1. NoCcap \in [obj_type : RowType, pid : Pid, oid : Oid]
  BY Inputs DEF NoCcap, RowType
<1>2. NoCache \in [cur_pid : Pid, next_id : 0 .. MaxOid + 1]
  BY Inputs DEF NoCache
<1> QED
  BY <1>1, <1>2, FreshRows DEF Init, TypeOK, Sense

LEMMA NextType == ASSUME TypeOK, [Next]_vars PROVE TypeOK'
<1>0. CASE UNCHANGED vars
  BY <1>0 DEF vars, TypeOK
<1>1. CASE Create
  <2>1. 0 .. MaxNumOid \subseteq Nat
    BY IdAssumption
  <2> QED
    BY <1>1, <2>1, Inputs, CreateType DEF Create
<1>2. CASE CreateCollection
  BY <1>2, Inputs, CreateCollectionType DEF CreateCollection
<1>3. CASE CreateTracking
  BY <1>3, Inputs, CreateTrackingType DEF CreateTracking
<1>4. CASE Copy
  BY <1>4, Inputs, CopyType DEF Copy
<1>5. CASE CreatePartition
  BY <1>5, Inputs, CreatePartitionType DEF CreatePartition
<1>6. CASE Remove
  BY <1>6, Inputs, RemoveType DEF Remove
<1>7. CASE RemoveCollection
  BY <1>7, Inputs, RemoveCollectionType DEF RemoveCollection
<1>8. CASE RemovePartition
  BY <1>8, Inputs, RemovePartitionType DEF RemovePartition
<1>9. CASE SetAttr
  BY <1>9, Inputs, SetAttributesType DEF SetAttr
<1>10. CASE SetPointer
  BY <1>10, Inputs, SetCapType DEF SetPointer
<1>11. CASE GetAttr
  BY <1>11, Inputs, GetAttrType DEF GetAttr
<1>12. CASE osd_format_osd
  BY <1>12, FormatType
<1>13. CASE osd_open
  BY <1>13, OpenType
<1> QED
  BY <1>0, <1>1, <1>2, <1>3, <1>4, <1>5, <1>6, <1>7, <1>8, <1>9, <1>10, <1>11, <1>12, <1>13 DEF Next

(* The tables, the files and struct osd_device always hold values of their    *)
(* types; in particular the id cache never runs past the id space.            *)
THEOREM TypeCorrect == Spec => []TypeOK
<1>1. Init => TypeOK
  BY InitType
<1>2. TypeOK /\ [Next]_vars => TypeOK'
  BY NextType
<1> QED
  BY <1>1, <1>2, PTL DEF Spec

-----------------------------------------------------------------------------
(* Allocation, containment and attribute ownership                           *)
(*                                                                           *)
(* AllocationFresh is about the next command; what the commands preserve is   *)
(* IdCacheSound.  Contained and AttrsOwned are inductive next to the types.   *)

StoreInv == IdCacheSound /\ Contained /\ AttrsOwned

(* The id that the cache or the table proposes lies above all objects.        *)
LEMMA AllocAbove ==
    ASSUME TypeOK, IdCacheSound, NEW p \in Pid, NEW id \in Oid,
           ~bad_target(p, 0), alloc_id(p, id)
    PROVE  \A o \in Oid : obj_ispresent(p, o) => o < id
<1>1. p # 0 /\ IdLB \in Nat /\ IdLB > 1
  BY Inputs DEF bad_target
<1>2. CASE ic.cur_pid = p
  BY <1>1, <1>2, Inputs DEF IdCacheSound, alloc_id, proposed_id, TypeOK
<1>3. CASE ic.cur_pid # p
  BY <1>1, <1>3, Inputs DEF alloc_id, proposed_id, obj_get_nextoid
<1> QED
  BY <1>2, <1>3

(* bad_target(p, r) rejects whatever bad_target(p, 0) rejects.                *)
LEMMA TargetPresent ==
    ASSUME NEW p \in Pid, NEW r, ~bad_target(p, r)
    PROVE  p # 0 /\ obj_ispresent(p, PARTITION_OID) /\ ~bad_target(p, 0)
BY Inputs DEF bad_target

LEMMA CacheAfter ==
    ASSUME TypeOK, StoreInv, NEW p \in Pid, NEW r \in Oid, NEW id \in Oid,
           NEW n \in Nat, n >= 1, ~bad_target(p, r), chosen_id(p, r, id),
           ic' = ic_after(p, r, id, n),
           \A o \in Oid : obj_ispresent(p, o)' => obj_ispresent(p, o) \/ o \in id .. id + n - 1
    PROVE  IdCacheSound'
<1>1. CASE r # 0
  BY <1>1 DEF ic_after, NoCache, IdCacheSound
<1>2. CASE r = 0
  <2>1. \A o \in Oid : obj_ispresent(p, o) => o < id
    BY <1>2, TargetPresent, AllocAbove DEF StoreInv, chosen_id
  <2>2. ic'.cur_pid = p /\ ic'.next_id = id + n
    BY <1>2 DEF ic_after
  <2>3. ASSUME NEW o \in Oid, obj_ispresent(p, o)'
        PROVE  o < id + n
    BY <2>1, <2>3, Inputs
  <2>4. id + n > 0
    BY Inputs
  <2>5. \A o \in Oid : obj'[p][o] # "ILLEGAL_OBJ" => o < id + n
    BY <2>3 DEF obj_ispresent
  <2> QED
    BY <2>2, <2>4, <2>5 DEF IdCacheSound, obj_ispresent
<1> QED
  BY <1>1, <1>2

(* A step that leaves the objects alone, and the cache alone or empty.        *)
LEMMA ObjectsKept ==
    ASSUME StoreInv, UNCHANGED obj, attr' \subseteq attr, ic' = ic \/ ic' = NoCache
    PROVE  StoreInv'
BY DEF StoreInv, IdCacheSound, Contained, AttrsOwned, obj_ispresent, NoCache

(* Insertions into a partition that exists, or of the partition itself.       *)
LEMMA Grown ==
    ASSUME TypeOK, Contained, AttrsOwned, NEW p \in Pid, NEW oid \in Oid, NEW n \in Nat, n >= 1,
           NEW type \in ObjType, obj_ispresent(p, PARTITION_OID) \/ oid = PARTITION_OID,
           obj' = obj_insert(p, oid, n, type), attr' = attr
    PROVE  /\ Contained' /\ AttrsOwned'
           /\ \A q \in Pid, o \in Oid :
                obj_ispresent(q, o)' <=>
                    obj_ispresent(q, o) \/ (q = p /\ o \in oid .. oid + n - 1)
<1>1. type \in RowType /\ type # "ILLEGAL_OBJ"
  BY DEF RowType, ObjType
<1>2. \A q \in Pid, o \in Oid :
        obj'[q][o] = IF q = p /\ o \in oid .. oid + n - 1 THEN type ELSE obj[q][o]
  BY <1>1, InsertRows DEF TypeOK
<1>3. \A q \in Pid, o \in Oid :
        obj_ispresent(q, o)' <=>
            obj_ispresent(q, o) \/ (q = p /\ o \in oid .. oid + n - 1)
  BY <1>1, <1>2 DEF obj_ispresent
<1>4. Contained'
  <2>1. obj_ispresent(p, PARTITION_OID)'
    BY <1>3, Inputs DEF PARTITION_OID
  <2> QED
    BY <1>3, <2>1, Inputs DEF Contained, PARTITION_OID
<1>5. AttrsOwned'
  <2>1. \A x \in attr : x[1] \in Pid /\ x[2] \in Oid
    BY DEF TypeOK
  <2> QED
    BY <1>3, <2>1 DEF AttrsOwned
<1> QED
  BY <1>3, <1>4, <1>5

(* A removal of one row, after the attribute rows of the object are gone.     *)
LEMMA Shrunk ==
    ASSUME TypeOK, Contained, AttrsOwned, NEW p \in Pid, NEW o \in Oid,
           o # PARTITION_OID \/ obj_isempty_pid(p),
           attr' \subseteq attr,
           \/ obj' = obj
           \/ obj' = obj_delete(p, o) /\ attr' = attr_delete_all(p, o)
    PROVE  Contained' /\ AttrsOwned'
<1>0. \A x \in attr : x[1] \in Pid /\ x[2] \in Oid
  BY DEF TypeOK
<1>1. CASE obj' = obj
  BY <1>1 DEF Contained, AttrsOwned, obj_ispresent
<1>2. CASE obj' = obj_delete(p, o) /\ attr' = attr_delete_all(p, o)
  <2>1. \A q \in Pid, x \in Oid :
          obj_ispresent(q, x)' <=> obj_ispresent(q, x) /\ ~(q = p /\ x = o)
    BY <1>2, DeleteRow DEF TypeOK, obj_ispresent
  <2>2. Contained'
    <3>1. ASSUME NEW q \in Pid, NEW x \in Oid, obj_ispresent(q, x)'
          PROVE  obj_ispresent(q, PARTITION_OID)'
      <4>1. obj_ispresent(q, x) /\ ~(q = p /\ x = o)
        BY <2>1, <3>1
      <4>2. obj_ispresent(q, PARTITION_OID) /\ PARTITION_OID \in Oid
        BY <4>1, Inputs DEF Contained, PARTITION_OID
      <4>3. ~(q = p /\ PARTITION_OID = o)
        BY <4>1 DEF obj_isempty_pid
      <4> QED
        BY <2>1, <4>2, <4>3
    <3> QED
      BY <3>1 DEF Contained
  <2>3. AttrsOwned'
    <3>1. ASSUME NEW x \in attr', x[2] # PARTITION_OID
          PROVE  obj_ispresent(x[1], x[2])'
      <4>1. x \in attr /\ ~(x[1] = p /\ x[2] = o)
        BY <1>2, <3>1 DEF attr_delete_all
      <4>2. obj_ispresent(x[1], x[2])
        BY <3>1, <4>1 DEF AttrsOwned
      <4> QED
        BY <1>0, <2>1, <4>1, <4>2
    <3> QED
      BY <3>1 DEF AttrsOwned
  <2> QED
    BY <2>2, <2>3
<1> QED
  BY <1>1, <1>2

LEMMA RejectedKeeps == ASSUME StoreInv, NEW s, Rejected(s) PROVE StoreInv'
BY ObjectsKept DEF Rejected, tables

LEMMA NextoidFailedKeeps ==
    ASSUME StoreInv, NEW p, NEW r, nextoid_failed(p, r) PROVE StoreInv'
BY ObjectsKept DEF nextoid_failed, tables

LEMMA CreateKeeps ==
    ASSUME TypeOK, StoreInv, NEW p \in Pid, NEW r \in Oid, NEW numoid \in Nat,
           osd_create(p, r, numoid)
    PROVE  StoreInv'
<1> DEFINE n == IF numoid = 0 THEN 1 ELSE numoid
<1>n. n \in Nat /\ n >= 1
  OBVIOUS
<1>1. CASE Rejected("ILLEGAL_REQUEST")
  BY <1>1, RejectedKeeps
<1>2. CASE nextoid_failed(p, r)
  BY <1>2, NextoidFailedKeeps
<1>3. ASSUME NEW oid \in Oid, ~bad_target(p, r), chosen_id(p, r, oid),
             create_objects(p, r, oid, n)
      PROVE  StoreInv'
  <2>1. /\ obj' = obj_insert(p, oid, n, "USEROBJECT") /\ attr' = attr
        /\ ic' = ic_after(p, r, oid, n)
    BY <1>3 DEF create_objects
  <2>2. /\ Contained' /\ AttrsOwned'
        /\ \A q \in Pid, o \in Oid :
             obj_ispresent(q, o)' <=>
                 obj_ispresent(q, o) \/ (q = p /\ o \in oid .. oid + n - 1)
    BY <1>n, <1>3, <2>1, TargetPresent, Grown DEF StoreInv, ObjType
  <2>3. IdCacheSound'
    BY <1>n, <1>3, <2>1, <2>2, CacheAfter
  <2> QED
    BY <2>2, <2>3 DEF StoreInv
<1>4. ASSUME NEW oid \in Oid, ~bad_target(p, r), oid + n - 1 \in Oid,
             NEW bad \in oid .. oid + n - 1, create_undone(p, oid, n, bad)
      PROVE  StoreInv'
  <2>1. /\ attr' \subseteq attr /\ ic' = NoCache
        /\ \A q \in Pid, o \in Oid :
             obj'[q][o] = obj[q][o] \/ (q = p /\ obj[q][o] = "ILLEGAL_OBJ" /\ obj'[q][o] = "USEROBJECT")
    BY <1>4, <1>n, UndoneEffect
  <2>2. \A q \in Pid, o \in Oid : obj_ispresent(q, o) => obj_ispresent(q, o)'
    BY <2>1 DEF obj_ispresent
  <2>3. p >= IdLB /\ obj_ispresent(p, PARTITION_OID)
    BY <1>4, Inputs DEF bad_target
  <2>4. Contained'
    <3>1. ASSUME NEW q \in Pid, NEW o \in Oid, obj_ispresent(q, o)'
          PROVE  obj_ispresent(q, PARTITION_OID)'
      <4>1. obj_ispresent(q, o) \/ q = p
        BY <2>1, <3>1 DEF obj_ispresent
      <4>2. obj_ispresent(q, PARTITION_OID)
        BY <4>1, <2>3 DEF StoreInv, Contained
      <4> QED
        BY <4>2, <2>2, Inputs DEF PARTITION_OID
    <3> QED
      BY <3>1 DEF Contained
  <2>5. AttrsOwned'
    <3>1. ASSUME NEW x \in attr', x[2] # PARTITION_OID
          PROVE  obj_ispresent(x[1], x[2])'
      <4>1. x \in attr /\ x[1] \in Pid /\ x[2] \in Oid
        BY <2>1, <3>1 DEF TypeOK
      <4> QED
        BY <4>1, <3>1, <2>2 DEF StoreInv, AttrsOwned
    <3> QED
      BY <3>1 DEF AttrsOwned
  <2>6. IdCacheSound'
    BY <2>1, Inputs DEF IdCacheSound, NoCache
  <2> QED
    BY <2>4, <2>5, <2>6 DEF StoreInv
<1> QED
  BY <1>1, <1>2, <1>3, <1>4 DEF osd_create

LEMMA InsertCollectionKeeps ==
    ASSUME TypeOK, StoreInv, NEW p \in Pid, NEW r \in Oid, NEW cid \in Oid,
           ~bad_target(p, r), chosen_id(p, r, cid), insert_collection(p, r, cid)
    PROVE  StoreInv'
<1>1. ic' = ic_after(p, r, cid, 1) /\ attr' = attr
  BY DEF insert_collection
<1>2. CASE obj' = obj_insert(p, cid, 1, "COLLECTION")
  <2>1. /\ Contained' /\ AttrsOwned'
        /\ \A q \in Pid, o \in Oid :
             obj_ispresent(q, o)' <=>
                 obj_ispresent(q, o) \/ (q = p /\ o \in cid .. cid + 1 - 1)
    BY <1>1, <1>2, TargetPresent, Grown DEF StoreInv, ObjType
  <2>2. IdCacheSound'
    BY <1>1, <2>1, CacheAfter
  <2> QED
    BY <2>1, <2>2 DEF StoreInv
<1>3. CASE UNCHANGED obj
  <2>1. IdCacheSound'
    BY <1>1, <1>3, CacheAfter DEF obj_ispresent
  <2> QED
    BY <1>1, <1>3, <2>1 DEF StoreInv, Contained, AttrsOwned, obj_ispresent
<1> QED
  BY <1>2, <1>3 DEF insert_collection

LEMMA CreateCollectionKeeps ==
    ASSUME TypeOK, StoreInv, NEW p \in Pid, NEW r \in Oid, osd_create_collection(p, r)
    PROVE  StoreInv'
BY RejectedKeeps, NextoidFailedKeeps, InsertCollectionKeeps DEF osd_create_collection

LEMMA CreateTrackingKeeps ==
    ASSUME TypeOK, StoreInv, NEW p \in Pid, NEW r \in Oid, NEW s, NEW len,
           osd_create_user_tracking_collection(p, r, s, len)
    PROVE  StoreInv'
<1>1. CASE Rejected("ILLEGAL_REQUEST")
  BY <1>1, RejectedKeeps
<1>2. CASE nextoid_failed(p, r)
  BY <1>2, NextoidFailedKeeps
<1>3. ASSUME NEW cid \in Oid, ~bad_target(p, r), chosen_id(p, r, cid), insert_collection(p, r, cid)
      PROVE  StoreInv'
  BY <1>3, InsertCollectionKeeps
<1>4. CASE ic' = NoCache /\ UNCHANGED tables
  BY <1>4, ObjectsKept DEF tables
<1> QED
  BY <1>1, <1>2, <1>3, <1>4 DEF osd_create_user_tracking_collection

LEMMA CopyKeeps ==
    ASSUME TypeOK, StoreInv, NEW p \in Pid, NEW r \in Oid, NEW sp, NEW so,
           osd_copy_user_objects(p, r, sp, so)
    PROVE  StoreInv'
<1>1. CASE Rejected("ILLEGAL_REQUEST")
  BY <1>1, RejectedKeeps
<1>2. CASE nextoid_failed(p, r)
  BY <1>2, NextoidFailedKeeps
<1>3. ASSUME NEW oid \in Oid, ~bad_target(p, r), chosen_id(p, r, oid),
             ic' = ic_after(p, r, oid, 1), UNCHANGED tables
      PROVE  StoreInv'
  <2>1. UNCHANGED <<obj, attr>>
    BY <1>3 DEF tables
  <2>2. IdCacheSound'
    BY <1>3, <2>1, CacheAfter DEF obj_ispresent
  <2> QED
    BY <2>1, <2>2 DEF StoreInv, Contained, AttrsOwned, obj_ispresent
<1> QED
  BY <1>1, <1>2, <1>3 DEF osd_copy_user_objects

LEMMA CreatePartitionKeeps ==
    ASSUME TypeOK, StoreInv, NEW r \in Pid, osd_create_partition(r)
    PROVE  StoreInv'
<1>1. CASE Rejected("ILLEGAL_REQUEST") \/ Rejected("HARDWARE_ERROR")
  BY <1>1, RejectedKeeps
<1>2. ASSUME NEW p \in Pid, obj' = obj_insert(p, PARTITION_OID, 1, "PARTITION"),
             UNCHANGED <<attr, coll, disk, root, ic>>
      PROVE  StoreInv'
  <2>1. /\ Contained' /\ AttrsOwned'
        /\ \A q \in Pid, o \in Oid :
             obj_ispresent(q, o)' <=>
                 obj_ispresent(q, o) \/ (q = p /\ o \in PARTITION_OID .. PARTITION_OID + 1 - 1)
    BY <1>2, Inputs, Grown DEF StoreInv, ObjType, PARTITION_OID
  <2>2. \A q \in Pid, o \in Oid : obj_ispresent(q, o)' => obj_ispresent(q, o) \/ o = 0
    BY <2>1 DEF PARTITION_OID
  <2>3. ic' = ic /\ ic.cur_pid \in Pid
    BY <1>2 DEF TypeOK
  <2>4. IdCacheSound'
    BY <2>2, <2>3 DEF StoreInv, IdCacheSound, obj_ispresent
  <2> QED
    BY <2>1, <2>4 DEF StoreInv
<1> QED
  BY <1>1, <1>2 DEF osd_create_partition

(* Removals: the cache is empty, and the row goes only when the attributes    *)
(* have gone before it.                                                       *)
LEMMA RemoveKeeps ==
    ASSUME TypeOK, StoreInv, NEW p \in Pid, NEW o \in Oid, osd_remove(p, o)
    PROVE  StoreInv'
<1>1. CASE Rejected("ILLEGAL_REQUEST")
  BY <1>1, RejectedKeeps
<1>2. ASSUME o >= IdLB, ic' = NoCache, NEW done \in Completed(3),
             attr' = IF done >= 1 THEN attr_delete_all(p, o) ELSE attr,
             obj' = IF done >= 3 THEN obj_delete(p, o) ELSE obj
      PROVE  StoreInv'
  <2>1. done \in 0 .. 3
    BY <1>2 DEF Completed
  <2>2. attr_delete_all(p, o) \subseteq attr
    BY DEF attr_delete_all
  <2>3. Contained' /\ AttrsOwned'
    BY <1>2, <2>1, <2>2, Inputs, Shrunk DEF StoreInv, PARTITION_OID
  <2>4. IdCacheSound'
    BY <1>2 DEF IdCacheSound, NoCache
  <2> QED
    BY <2>3, <2>4 DEF StoreInv
<1> QED
  BY <1>1, <1>2 DEF osd_remove

LEMMA RemoveCollectionKeeps ==
    ASSUME TypeOK, StoreInv, NEW p \in Pid, NEW c \in Oid, NEW fcr,
           osd_remove_collection(p, c, fcr)
    PROVE  StoreInv'
<1>1. CASE Rejected("ILLEGAL_REQUEST")
  BY <1>1, RejectedKeeps
<1>2. CASE ic' = NoCache /\ UNCHANGED tables
  BY <1>2, ObjectsKept DEF tables
<1>3. ASSUME c >= IdLB, ic' = NoCache, NEW done \in Completed(3),
             attr' = IF done >= 2 THEN attr_delete_all(p, c) ELSE attr,
             obj' = IF done >= 3 THEN obj_delete(p, c) ELSE obj
      PROVE  StoreInv'
  <2>1. done \in 0 .. 3
    BY <1>3 DEF Completed
  <2>2. attr_delete_all(p, c) \subseteq attr
    BY DEF attr_delete_all
  <2>3. Contained' /\ AttrsOwned'
    BY <1>3, <2>1, <2>2, Inputs, Shrunk DEF StoreInv, PARTITION_OID
  <2>4. IdCacheSound'
    BY <1>3 DEF IdCacheSound, NoCache
  <2> QED
    BY <2>3, <2>4 DEF StoreInv
<1>4. c \in Nat /\ IdLB \in Nat
  BY Inputs
<1> QED
  BY <1>1, <1>2, <1>3, <1>4 DEF osd_remove_collection

LEMMA RemovePartitionKeeps ==
    ASSUME TypeOK, StoreInv, NEW p \in Pid, osd_remove_partition(p)
    PROVE  StoreInv'
<1>1. CASE Rejected("ILLEGAL_REQUEST") \/ Rejected("NOT_EMPTY")
  BY <1>1, RejectedKeeps
<1>2. ASSUME removable_partition(p), ic' = NoCache, NEW done \in Completed(2),
             attr' = IF done >= 1 THEN attr_delete_all(p, PARTITION_OID) ELSE attr,
             obj' = IF done >= 2 THEN obj_delete(p, PARTITION_OID) ELSE obj
      PROVE  StoreInv'
  <2>1. done \in 0 .. 2 /\ PARTITION_OID \in Oid
    BY <1>2, Inputs DEF Completed, PARTITION_OID
  <2>2. attr_delete_all(p, PARTITION_OID) \subseteq attr
    BY DEF attr_delete_all
  <2>3. Contained' /\ AttrsOwned'
    BY <1>2, <2>1, <2>2, Shrunk DEF StoreInv, removable_partition
  <2>4. IdCacheSound'
    BY <1>2 DEF IdCacheSound, NoCache
  <2> QED
    BY <2>3, <2>4 DEF StoreInv
<1> QED
  BY <1>1, <1>2 DEF osd_remove_partition

LEMMA SetAttributesKeeps ==
    ASSUME StoreInv, NEW p \in Pid, NEW o \in Oid, NEW a, NEW len, NEW e,
           osd_set_attributes(p, o, a, len, e)
    PROVE  StoreInv'
<1>1. CASE Rejected("ILLEGAL_REQUEST") \/ Rejected("HARDWARE_ERROR") \/ Rejected("PARAM_LIST")
  BY <1>1, RejectedKeeps
<1>2. CASE /\ ~absent_object(p, o)
           /\ attr' = IF len = "NULL" THEN attr \ {<<p, o, a>>} ELSE attr \cup {<<p, o, a>>}
           /\ UNCHANGED <<obj, coll, disk, root, ic>>
  <2>1. obj_ispresent(p, o)
    BY <1>2 DEF absent_object
  <2>2. \A x \in attr' : x \in attr \/ x = <<p, o, a>>
    BY <1>2
  <2> QED
    BY <1>2, <2>1, <2>2 DEF StoreInv, IdCacheSound, Contained, AttrsOwned, obj_ispresent
<1> QED
  BY <1>1, <1>2 DEF osd_set_attributes

LEMMA SetCapKeeps ==
    ASSUME StoreInv, NEW p, NEW o, NEW n, NEW c, NEW len, NEW e, set_cap(p, o, n, c, len, e)
    PROVE  StoreInv'
<1>1. CASE Rejected("ILLEGAL_REQUEST") \/ Rejected("PARAM_LIST")
  BY <1>1, RejectedKeeps
<1>2. CASE UNCHANGED <<obj, attr, disk, root, ic>>
  BY <1>2, ObjectsKept
<1> QED
  BY <1>1, <1>2 DEF set_cap

LEMMA GetAttrKeeps ==
    ASSUME TypeOK, StoreInv, NEW p \in Pid, NEW o \in Oid, NEW page, NEW e,
           osd_getattr_list(p, o, page, e) \/ osd_getattr_page(p, o, page, e)
    PROVE  StoreInv'
<1>1. CASE get_refused(p, o, page)
  BY <1>1, RejectedKeeps DEF get_refused
<1>2. ASSUME get_obj_type(p, o) # "ILLEGAL_OBJ",
             attr' = attr \/ \E k : attr' = lazy_init_attr(p, o, k),
             UNCHANGED <<obj, coll, disk, root, ic>>
      PROVE  StoreInv'
  <2>1. o # PARTITION_OID => obj_ispresent(p, o)
    BY <1>2, Inputs DEF get_obj_type, obj_ispresent, PARTITION_OID
  <2>2. \A x \in attr' : x \in attr \/ (x[1] = p /\ x[2] = o)
    BY <1>2, LazyRows
  <2>3. AttrsOwned'
    BY <1>2, <2>1, <2>2 DEF StoreInv, AttrsOwned, obj_ispresent
  <2> QED
    BY <1>2, <2>3 DEF StoreInv, IdCacheSound, Contained, obj_ispresent
<1>3. CASE osd_getattr_list(p, o, page, e)
  BY <1>1, <1>2, <1>3 DEF osd_getattr_list, gettable
<1>4. CASE osd_getattr_page(p, o, page, e)
  BY <1>1, <1>2, <1>4 DEF osd_getattr_page, gettable
<1> QED
  BY <1>3, <1>4

LEMMA FreshSafe ==
    ASSUME obj' = InitialObj, attr' = {}, ic' = NoCache PROVE StoreInv'
BY FreshRows, Inputs
   DEF StoreInv, IdCacheSound, Contained, AttrsOwned, obj_ispresent, NoCache, PARTITION_OID

LEMMA InitSafe == Init => StoreInv
BY FreshRows, Inputs
   DEF Init, StoreInv, IdCacheSound, Contained, AttrsOwned, obj_ispresent, NoCache, PARTITION_OID

LEMMA OpenKeeps == ASSUME StoreInv, osd_open PROVE StoreInv'
<1>1. CASE dbfile
  BY <1>1, ObjectsKept DEF osd_open, restarted, tables
<1>2. CASE ~dbfile
  BY <1>2, FreshSafe DEF osd_open, restarted, fresh_tables
<1> QED
  BY <1>1, <1>2

LEMMA FormatKeeps == ASSUME StoreInv, osd_format_osd PROVE StoreInv'
<1>1. CASE fresh_tables /\ ic' = NoCache
  BY <1>1, FreshSafe DEF fresh_tables
<1>2. CASE UNCHANGED <<tables, ic, ccap>>
  BY <1>2, ObjectsKept DEF tables
<1> QED
  BY <1>1, <1>2 DEF osd_format_osd

LEMMA NextKeeps == ASSUME TypeOK, StoreInv, [Next]_vars PROVE StoreInv'
<1>0. CASE UNCHANGED vars
  BY <1>0, ObjectsKept DEF vars
<1>1. CASE Create
  <2>1. 0 .. MaxNumOid \subseteq Nat
    BY IdAssumption
  <2> QED
    BY <1>1, <2>1, Inputs, CreateKeeps DEF Create
<1>2. CASE CreateCollection
  BY <1>2, Inputs, CreateCollectionKeeps DEF CreateCollection
<1>3. CASE CreateTracking
  BY <1>3, Inputs, CreateTrackingKeeps DEF CreateTracking
<1>4. CASE Copy
  BY <1>4, Inputs, CopyKeeps DEF Copy
<1>5. CASE CreatePartition
  BY <1>5, Inputs, CreatePartitionKeeps DEF CreatePartition
<1>6. CASE Remove
  BY <1>6, Inputs, RemoveKeeps DEF Remove
<1>7. CASE RemoveCollection
  BY <1>7, Inputs, RemoveCollectionKeeps DEF RemoveCollection
<1>8. CASE RemovePartition
  BY <1>8, Inputs, RemovePartitionKeeps DEF RemovePartition
<1>9. CASE SetAttr
  BY <1>9, Inputs, SetAttributesKeeps DEF SetAttr
<1>10. CASE SetPointer
  BY <1>10, SetCapKeeps DEF SetPointer
<1>11. CASE GetAttr
  BY <1>11, Inputs, GetAttrKeeps DEF GetAttr
<1>12. CASE osd_format_osd
  BY <1>12, FormatKeeps
<1>13. CASE osd_open
  BY <1>13, OpenKeeps
<1> QED
  BY <1>0, <1>1, <1>2, <1>3, <1>4, <1>5, <1>6, <1>7, <1>8, <1>9, <1>10, <1>11, <1>12, <1>13 DEF Next

(* The id cache is sound, every object lies in a partition that exists, and   *)
(* attributes never outlive their object, whatever the commands, failures     *)
(* and restarts.                                                              *)
THEOREM StoreSafe == Spec => []StoreInv
<1>1. Init => StoreInv
  BY InitSafe
<1>2. TypeOK /\ StoreInv /\ [Next]_vars => StoreInv'
  BY NextKeeps
<1> QED
  BY <1>1, <1>2, TypeCorrect, PTL DEF Spec

(* What osd->ic remembers lies above every object of its partition, also      *)
(* after commands that failed half way.                                       *)
THEOREM IdCacheAlwaysSound == Spec => []IdCacheSound
<1>1. StoreInv => IdCacheSound
  BY DEF StoreInv
<1> QED
  BY <1>1, StoreSafe, PTL

(* No order of creations and removals, however it fails, leaves objects       *)
(* behind a partition that is gone (osd_remove_partition).                    *)
THEOREM ContainedAlways == Spec => []Contained
<1>1. StoreInv => Contained
  BY DEF StoreInv
<1> QED
  BY <1>1, StoreSafe, PTL

(* An object never inherits attributes of an earlier one with the same id     *)
(* (osd_remove and osd_remove_collection delete them first).                  *)
THEOREM AttrsOwnedAlways == Spec => []AttrsOwned
<1>1. StoreInv => AttrsOwned
  BY DEF StoreInv
<1> QED
  BY <1>1, StoreSafe, PTL

(* The id that osd_create, osd_create_collection and                          *)
(* osd_create_user_tracking_collection choose is free, and so are all above.  *)
THEOREM AllocationAlwaysFresh == Spec => []AllocationFresh
<1>1. TypeOK /\ StoreInv => AllocationFresh
  <2> SUFFICES ASSUME TypeOK, StoreInv, NEW p \in Pid, NEW id \in Oid, NEW o \in Oid,
                      ~bad_target(p, 0), alloc_id(p, id), o >= id, obj_ispresent(p, o)
               PROVE  FALSE
    BY DEF AllocationFresh
  <2>1. o < id
    BY AllocAbove DEF StoreInv
  <2> QED
    BY <2>1, Inputs
<1> QED
  BY <1>1, TypeCorrect, StoreSafe, PTL
=============================================================================
