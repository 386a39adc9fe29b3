------------------------- MODULE OsdFaultFreeProofs -------------------------
(***************************************************************************)
(* Proofs about OsdStore for a target whose statements and system calls do    *)
(* not fail by themselves (Faults = FALSE): which data files there are, what   *)
(* a command that reports an error leaves behind, and, for initiators that     *)
(* address commands to objects of the right type, what memberships join.       *)
(***************************************************************************)
EXTENDS OsdStoreProofs

-----------------------------------------------------------------------------
(* Any initiator, FORMAT OSD included                                         *)

\* The database file stays linked: only a FORMAT that fails half way unlinks
\* it for good, and then statements fail.  With it, user objects have files.
ServedInv == dbfile /\ UserObjectHasFile

(* Without faults and with a database, statements run to completion.          *)
LEMMA Completes ==
    ASSUME ~Faults, dbfile, NEW n \in Nat
    PROVE  ~DbMayFail /\ Completed(n) = {n}
BY DEF DbMayFail, Completed

(* The id a creating command chooses is free.                                 *)
LEMMA ChosenFree ==
    ASSUME TypeOK, StoreInv, NEW p \in Pid, NEW r \in Oid, NEW id \in Oid,
           ~bad_target(p, r), chosen_id(p, r, id)
    PROVE  ~obj_ispresent(p, id) /\ id # PARTITION_OID
<1>1. obj_ispresent(p, PARTITION_OID)
  BY TargetPresent
<1>2. CASE r # 0
  BY <1>1, <1>2 DEF bad_target, chosen_id
<1>3. CASE r = 0
  <2>1. \A o \in Oid : obj_ispresent(p, o) => o < id
    BY <1>3, TargetPresent, AllocAbove DEF StoreInv, chosen_id
  <2> QED
    BY <1>1, <2>1, Inputs
<1> QED
  BY <1>2, <1>3

(* When nothing fails in the clean-up of a CREATE, it removes every row it made; *)
(* the files too, as long as their paths can be built.                        *)
LEMMA UndoneClean ==
    ASSUME TypeOK, ~Faults, dbfile, NEW p \in Pid, NEW oid, NEW n, NEW bad,
           create_undone(p, oid, n, bad)
    PROVE  /\ UNCHANGED <<obj, dbfile, root>> /\ dfile \subseteq dfile' /\ coll' \subseteq coll
           /\ root = "set" => dfile' = dfile
<1> DEFINE made == oid .. bad - 1
<1>1. PICK done \in [made -> Completed(3)], stuck \in SUBSET made, kept_row \in BOOLEAN :
        /\ stuck # {} => IoMayFail
        /\ kept_row => DbMayFail
        /\ osd_remove_tmp_objects(p, made, done, stuck)
        /\ obj' = [obj EXCEPT ![p] = [o \in Oid |->
                      IF (o \in made /\ done[o] < 3) \/ (o = bad /\ kept_row)
                      THEN "USEROBJECT" ELSE obj[p][o]]]
  BY DEF create_undone
<1>2. ~DbMayFail /\ Completed(3) = {3}
  BY Completes
<1>3. ~kept_row /\ \A o \in made : done[o] = 3
  BY <1>1, <1>2
<1>4. obj' = obj
  <2>1. [o \in Oid |-> IF (o \in made /\ done[o] < 3) \/ (o = bad /\ kept_row)
                      THEN "USEROBJECT" ELSE obj[p][o]] = obj[p]
    BY <1>3 DEF TypeOK
  <2> QED
    BY <1>1, <2>1 DEF TypeOK
<1>5. dfile \subseteq dfile' /\ coll' \subseteq coll /\ (stuck = {} => dfile' = dfile)
  BY <1>1 DEF osd_remove_tmp_objects
<1>6. root = "set" => stuck = {}
  BY <1>1 DEF IoMayFail
<1> QED
  BY <1>4, <1>5, <1>6 DEF create_undone

(* A removal of objects, an insertion of something else than user objects,    *)
(* and files that only grow, keep a file for every user object.               *)
LEMMA FilesKept ==
    ASSUME ServedInv, dbfile', dfile \subseteq dfile',
           \A q \in Pid, x \in Oid : obj'[q][x] = "USEROBJECT" => obj[q][x] = "USEROBJECT"
    PROVE  ServedInv'
BY DEF ServedInv, UserObjectHasFile

(* An insertion makes rows of its own type only.                              *)
LEMMA InsertedType ==
    ASSUME TypeOK, NEW p \in Pid, NEW oid, NEW n, NEW type \in ObjType,
           obj' = obj_insert(p, oid, n, type)
    PROVE  \A q \in Pid, x \in Oid : obj'[q][x] = type \/ obj'[q][x] = obj[q][x]
<1>1. type \in RowType
  BY DEF RowType
<1> QED
  BY <1>1, InsertRows DEF TypeOK

(* A deletion leaves the other rows alone.                                    *)
LEMMA DeletedRow ==
    ASSUME TypeOK, NEW p \in Pid, NEW o \in Oid, obj' = obj_delete(p, o)
    PROVE  \A q \in Pid, x \in Oid :
             obj'[q][x] = IF q = p /\ x = o THEN "ILLEGAL_OBJ" ELSE obj[q][x]
BY DeleteRow DEF TypeOK

LEMMA RejectedServed == ASSUME ServedInv, NEW s, Rejected(s) PROVE ServedInv'
BY FilesKept DEF Rejected, tables, disk, ServedInv

LEMMA CreateServed ==
    ASSUME TypeOK, ServedInv, ~Faults, NEW p \in Pid, NEW r \in Oid, NEW numoid \in Nat,
           osd_create(p, r, numoid)
    PROVE  ServedInv'
<1> DEFINE n == IF numoid = 0 THEN 1 ELSE numoid
<1>1. CASE Rejected("ILLEGAL_REQUEST")
  BY <1>1, RejectedServed
<1>2. CASE nextoid_failed(p, r)
  BY <1>2, Completes DEF nextoid_failed, ServedInv
<1>3. ASSUME NEW oid \in Oid, create_objects(p, r, oid, n)
      PROVE  ServedInv'
  <2>1. \A q \in Pid, o \in Oid :
          obj'[q][o] = IF q = p /\ o \in oid .. oid + n - 1 THEN "USEROBJECT" ELSE obj[q][o]
    BY <1>3, InsertRows DEF create_objects, TypeOK, RowType, ObjType
  <2>2. \A f : f \in dfile' <=> f \in dfile \/ f \in {p} \X (oid .. oid + n - 1)
    BY <1>3 DEF create_objects, osd_create_datafile
  <2>3. dbfile' = dbfile
    BY <1>3 DEF create_objects
  <2> HIDE DEF n
  <2> QED
    BY <2>1, <2>2, <2>3 DEF ServedInv, UserObjectHasFile
<1>4. ASSUME NEW oid, NEW bad, create_undone(p, oid, n, bad)
      PROVE  ServedInv'
  BY <1>4, UndoneClean, FilesKept DEF ServedInv
<1> QED
  BY <1>1, <1>2, <1>3, <1>4 DEF osd_create

LEMMA InsertCollectionServed ==
    ASSUME TypeOK, ServedInv, NEW p \in Pid, NEW r \in Oid, NEW cid \in Oid,
           insert_collection(p, r, cid)
    PROVE  ServedInv'
<1>1. \A q \in Pid, x \in Oid : obj'[q][x] = "USEROBJECT" => obj[q][x] = "USEROBJECT"
  BY InsertedType DEF insert_collection, ObjType
<1> QED
  BY <1>1, FilesKept DEF insert_collection, disk, ServedInv

LEMMA AllocatingServed ==
    ASSUME TypeOK, ServedInv, ~Faults, NEW p \in Pid, NEW r \in Oid, NEW s, NEW len, NEW sp, NEW so,
           \/ osd_create_collection(p, r)
           \/ osd_create_user_tracking_collection(p, r, s, len)
           \/ osd_copy_user_objects(p, r, sp, so)
    PROVE  ServedInv'
<1>1. CASE Rejected("ILLEGAL_REQUEST")
  BY <1>1, RejectedServed
<1>2. CASE nextoid_failed(p, r)
  BY <1>2, Completes DEF nextoid_failed, ServedInv
<1>3. ASSUME NEW cid \in Oid, insert_collection(p, r, cid)
      PROVE  ServedInv'
  BY <1>3, InsertCollectionServed
<1>4. CASE UNCHANGED <<tables, disk>>
  BY <1>4, FilesKept DEF tables, disk, ServedInv
<1>5. CASE osd_create_collection(p, r)
  BY <1>1, <1>2, <1>3, <1>5 DEF osd_create_collection
<1>6. CASE osd_create_user_tracking_collection(p, r, s, len)
  BY <1>1, <1>2, <1>3, <1>4, <1>6 DEF osd_create_user_tracking_collection
<1>7. CASE osd_copy_user_objects(p, r, sp, so)
  BY <1>1, <1>2, <1>4, <1>7 DEF osd_copy_user_objects
<1> QED
  BY <1>5, <1>6, <1>7

LEMMA CreatePartitionServed ==
    ASSUME TypeOK, ServedInv, NEW r \in Pid, osd_create_partition(r)
    PROVE  ServedInv'
<1>1. CASE Rejected("ILLEGAL_REQUEST") \/ Rejected("HARDWARE_ERROR")
  BY <1>1, RejectedServed
<1>2. ASSUME NEW p \in Pid, obj' = obj_insert(p, PARTITION_OID, 1, "PARTITION"),
             UNCHANGED <<attr, coll, disk, root, ic>>
      PROVE  ServedInv'
  <2>1. \A q \in Pid, x \in Oid : obj'[q][x] = "USEROBJECT" => obj[q][x] = "USEROBJECT"
    BY <1>2, InsertedType DEF ObjType
  <2> QED
    BY <1>2, <2>1, FilesKept DEF disk, ServedInv
<1> QED
  BY <1>1, <1>2 DEF osd_create_partition

(* The row goes with the file, or the file stays.                             *)
LEMMA RemoveServed ==
    ASSUME TypeOK, ServedInv, ~Faults, NEW p \in Pid, NEW o \in Oid, osd_remove(p, o)
    PROVE  ServedInv'
<1>1. CASE Rejected("ILLEGAL_REQUEST")
  BY <1>1, RejectedServed
<1>2. ASSUME unlink_dfile(p, o), UNCHANGED <<dbfile, root>>, NEW done \in Completed(3),
             obj' = IF done >= 3 THEN obj_delete(p, o) ELSE obj
      PROVE  ServedInv'
  <2>1. obj' = obj_delete(p, o)
    BY <1>2, Completes DEF ServedInv
  <2>2. \A q \in Pid, x \in Oid :
          obj'[q][x] = IF q = p /\ x = o THEN "ILLEGAL_OBJ" ELSE obj[q][x]
    BY <2>1, DeletedRow
  <2>3. \A f \in dfile : f \in dfile' \/ f = <<p, o>>
    BY <1>2 DEF unlink_dfile
  <2> QED
    BY <1>2, <2>2, <2>3 DEF ServedInv, UserObjectHasFile
<1> QED
  BY <1>1, <1>2 DEF osd_remove

LEMMA OtherRemovalServed ==
    ASSUME TypeOK, ServedInv, NEW p \in Pid, NEW c \in Oid, NEW fcr,
           osd_remove_collection(p, c, fcr) \/ osd_remove_partition(p)
    PROVE  ServedInv'
<1>1. CASE Rejected("ILLEGAL_REQUEST") \/ Rejected("NOT_EMPTY")
  BY <1>1, RejectedServed
<1>2. ASSUME NEW o \in Oid, obj' = obj \/ obj' = obj_delete(p, o), UNCHANGED <<disk, root>>
      PROVE  ServedInv'
  <2>1. \A q \in Pid, x \in Oid : obj'[q][x] = "USEROBJECT" => obj[q][x] = "USEROBJECT"
    <3>1. CASE obj' = obj_delete(p, o)
      BY <3>1, DeletedRow
    <3> QED
      BY <1>2, <3>1
  <2> QED
    BY <1>2, <2>1, FilesKept DEF disk, ServedInv
<1>3. CASE osd_remove_collection(p, c, fcr)
  <2>1. Rejected("ILLEGAL_REQUEST") \/ (UNCHANGED <<disk, root>> /\ (obj' = obj \/ obj' = obj_delete(p, c)))
    BY <1>3 DEF osd_remove_collection, tables
  <2> QED
    BY <1>1, <1>2, <2>1
<1>4. CASE osd_remove_partition(p)
  <2>1. \/ Rejected("ILLEGAL_REQUEST") \/ Rejected("NOT_EMPTY")
        \/ UNCHANGED <<disk, root>> /\ (obj' = obj \/ obj' = obj_delete(p, PARTITION_OID))
    BY <1>4 DEF osd_remove_partition
  <2>2. PARTITION_OID \in Oid
    BY Inputs DEF PARTITION_OID
  <2> QED
    BY <1>1, <1>2, <2>1, <2>2
<1> QED
  BY <1>3, <1>4

(* Attribute commands touch neither objects nor files.                        *)
LEMMA AttributesKeepDisk ==
    ASSUME NEW p, NEW o, NEW a, NEW len, NEW e, NEW n, NEW c, NEW page,
           \/ osd_set_attributes(p, o, a, len, e) \/ set_cap(p, o, n, c, len, e)
           \/ osd_getattr_list(p, o, page, e) \/ osd_getattr_page(p, o, page, e)
    PROVE  UNCHANGED <<obj, dfile, dbfile, root, ic>>
BY DEF osd_set_attributes, set_cap, osd_getattr_list, osd_getattr_page, get_refused, Rejected,
       tables, disk

LEMMA NextServed ==
    ASSUME TypeOK, ServedInv, ~Faults, [Next]_vars PROVE ServedInv'
<1>0. CASE UNCHANGED <<obj, dfile, dbfile>>
  BY <1>0, FilesKept DEF ServedInv
<1>1. CASE Create
  <2>1. 0 .. MaxNumOid \subseteq Nat
    BY IdAssumption
  <2> QED
    BY <1>1, <2>1, Inputs, CreateServed DEF Create
<1>2. CASE CreateCollection \/ CreateTracking \/ Copy
  BY <1>2, Inputs, AllocatingServed DEF CreateCollection, CreateTracking, Copy
<1>3. CASE CreatePartition
  BY <1>3, Inputs, CreatePartitionServed DEF CreatePartition
<1>4. CASE Remove
  BY <1>4, Inputs, RemoveServed DEF Remove
<1>5. CASE RemoveCollection \/ RemovePartition
  BY <1>5, Inputs, OtherRemovalServed DEF RemoveCollection, RemovePartition
<1>6. CASE SetAttr \/ SetPointer \/ GetAttr
  BY <1>0, <1>6, AttributesKeepDisk DEF SetAttr, SetPointer, GetAttr
<1>7. CASE osd_format_osd
  <2>1. dbfile' /\ obj' = InitialObj
    BY <1>7 DEF osd_format_osd, fresh_tables
  <2> QED
    BY <2>1, FreshRows DEF ServedInv, UserObjectHasFile
<1>8. CASE osd_open
  BY <1>8, FilesKept DEF osd_open, restarted, tables, ServedInv
<1>9. CASE UNCHANGED vars
  BY <1>0, <1>9 DEF vars
<1> QED
  BY <1>1, <1>2, <1>3, <1>4, <1>5, <1>6, <1>7, <1>8, <1>9 DEF Next

(* As long as nothing fails by itself, the database stays and every user      *)
(* object has its data file (osd_create_datafile, osd_remove, osd_format_osd).*)
THEOREM AlwaysServed == ASSUME ~Faults PROVE Spec => []ServedInv
<1>1. Init => ServedInv
  BY FreshRows DEF Init, ServedInv, UserObjectHasFile
<1>2. TypeOK /\ ServedInv /\ [Next]_vars => ServedInv'
  BY NextServed
<1> QED
  BY <1>1, <1>2, TypeCorrect, PTL DEF Spec

(* READ and WRITE find the file of every user object, whatever commands, and  *)
(* FORMATs that leave osd->root dangling, came before.                        *)
THEOREM UserObjectsHaveFiles == ASSUME ~Faults PROVE Spec => []UserObjectHasFile
<1>1. ServedInv => UserObjectHasFile
  BY DEF ServedInv
<1> QED
  BY <1>1, AlwaysServed, PTL

-----------------------------------------------------------------------------
(* What a command that reports an error leaves behind                         *)

NoEffect == UNCHANGED <<obj, attr>> /\ (root = "set" => UNCHANGED dfile)

LEMMA RejectedNoEffect == ASSUME NEW s, Rejected(s) PROVE NoEffect
BY DEF Rejected, tables, disk, NoEffect

(* The undo of a CREATE deletes attribute rows of ids that were free, which    *)
(* have none: attributes do not outlive objects.                               *)
LEMMA CreateNoEffect ==
    ASSUME TypeOK, StoreInv, ServedInv, ~Faults, NEW p \in Pid, NEW r \in Oid, NEW numoid \in Nat,
           osd_create(p, r, numoid), sense' # "OSD_OK"
    PROVE  NoEffect
<1> DEFINE n == IF numoid = 0 THEN 1 ELSE numoid
<1>1. CASE Rejected("ILLEGAL_REQUEST")
  BY <1>1, RejectedNoEffect
<1>2. CASE nextoid_failed(p, r)
  BY <1>2 DEF nextoid_failed, tables, disk, NoEffect
<1>3. ASSUME NEW oid, create_objects(p, r, oid, n)
      PROVE  NoEffect
  BY <1>3 DEF create_objects
<1>4. ASSUME ~bad_target(p, r), NEW oid \in Oid, oid + n - 1 \in Oid,
             NEW bad \in oid .. oid + n - 1, create_undone(p, oid, n, bad)
      PROVE  NoEffect
  <2>1. \A x \in attr : x[1] = p => x[2] = PARTITION_OID \/ obj_ispresent(p, x[2])
    BY DEF StoreInv, AttrsOwned
  <2>2. \A o \in oid .. bad - 1 : ~obj_ispresent(p, o)
    BY <1>4 DEF create_undone, creatable
  <2>3. obj_ispresent(p, PARTITION_OID)
    BY <1>4, TargetPresent
  <2>4. attr' = attr
    BY <1>4, <2>1, <2>2, <2>3 DEF create_undone, osd_remove_tmp_objects
  <2> QED
    BY <1>4, <2>4, UndoneClean DEF ServedInv, NoEffect
<1> QED
  BY <1>1, <1>2, <1>3, <1>4 DEF osd_create

LEMMA OtherCreationsNoEffect ==
    ASSUME NEW p, NEW r, NEW s, NEW len, NEW sp, NEW so, sense' # "OSD_OK",
           \/ osd_create_collection(p, r)
           \/ osd_create_user_tracking_collection(p, r, s, len)
           \/ osd_copy_user_objects(p, r, sp, so)
           \/ osd_create_partition(r)
    PROVE  NoEffect
<1>1. CASE Rejected("ILLEGAL_REQUEST") \/ Rejected("HARDWARE_ERROR")
  BY <1>1, RejectedNoEffect
<1>2. CASE nextoid_failed(p, r)
  BY <1>2 DEF nextoid_failed, tables, disk, NoEffect
<1>3. ASSUME NEW cid, insert_collection(p, r, cid) PROVE NoEffect
  BY <1>3 DEF insert_collection, disk, NoEffect
<1>4. CASE UNCHANGED <<tables, disk, root, ccap>>
  BY <1>4 DEF tables, disk, NoEffect
<1>5. CASE osd_create_collection(p, r)
  BY <1>1, <1>2, <1>3, <1>5 DEF osd_create_collection
<1>6. CASE osd_create_user_tracking_collection(p, r, s, len)
  BY <1>1, <1>2, <1>3, <1>4, <1>6 DEF osd_create_user_tracking_collection
<1>7. CASE osd_copy_user_objects(p, r, sp, so)
  BY <1>1, <1>2, <1>7 DEF osd_copy_user_objects
<1>8. CASE osd_create_partition(r)
  BY <1>1, <1>8 DEF osd_create_partition
<1> QED
  BY <1>5, <1>6, <1>7, <1>8

LEMMA RemovalsNoEffect ==
    ASSUME ServedInv, ~Faults, NEW p, NEW o, NEW fcr, sense' # "OSD_OK",
           osd_remove(p, o) \/ osd_remove_collection(p, o, fcr) \/ osd_remove_partition(p)
    PROVE  NoEffect
<1>0. Completed(3) = {3} /\ Completed(2) = {2}
  BY Completes DEF ServedInv
<1>1. CASE Rejected("ILLEGAL_REQUEST") \/ Rejected("NOT_EMPTY")
  BY <1>1, RejectedNoEffect
<1>2. CASE osd_remove(p, o)
  BY <1>0, <1>1, <1>2 DEF osd_remove, removal_reply
<1>3. CASE osd_remove_collection(p, o, fcr)
  BY <1>0, <1>1, <1>3 DEF osd_remove_collection, removal_reply, tables, disk, NoEffect
<1>4. CASE osd_remove_partition(p)
  BY <1>0, <1>1, <1>4 DEF osd_remove_partition, removal_reply
<1> QED
  BY <1>2, <1>3, <1>4

LEMMA AttributesNoEffect ==
    ASSUME ServedInv, ~Faults, NEW p, NEW o, NEW a, NEW len, NEW e, NEW n, NEW c, NEW page,
           \/ osd_set_attributes(p, o, a, len, e) \/ set_cap(p, o, n, c, len, e)
           \/ osd_getattr_list(p, o, page, e) \/ osd_getattr_page(p, o, page, e),
           sense' # "OSD_OK"
    PROVE  NoEffect
<1>0. ~DbMayFail
  BY Completes DEF ServedInv
<1>1. UNCHANGED <<obj, dfile>>
  BY AttributesKeepDisk
<1>2. attr' = attr
  BY <1>0 DEF osd_set_attributes, set_cap, osd_getattr_list, osd_getattr_page, get_refused,
              Rejected, attr_reply, tables
<1> QED
  BY <1>1, <1>2 DEF NoEffect

LEMMA NextNoEffect ==
    ASSUME TypeOK, StoreInv, ServedInv, ~Faults, Next, sense' # "OSD_OK"
    PROVE  NoEffect
<1>1. CASE Create
  <2>1. 0 .. MaxNumOid \subseteq Nat
    BY IdAssumption
  <2> QED
    BY <1>1, <2>1, Inputs, CreateNoEffect DEF Create
<1>2. CASE CreateCollection \/ CreateTracking \/ Copy \/ CreatePartition
  BY <1>2, OtherCreationsNoEffect DEF CreateCollection, CreateTracking, Copy, CreatePartition
<1>3. CASE Remove \/ RemoveCollection \/ RemovePartition
  BY <1>3, RemovalsNoEffect DEF Remove, RemoveCollection, RemovePartition
<1>4. CASE SetAttr \/ SetPointer \/ GetAttr
  BY <1>4, AttributesNoEffect DEF SetAttr, SetPointer, GetAttr
<1>5. CASE osd_format_osd \/ osd_open
  BY <1>5 DEF osd_format_osd, osd_open, restarted
<1> QED
  BY <1>1, <1>2, <1>3, <1>4, <1>5 DEF Next

(* As long as nothing fails by itself, a command that reports an error has     *)
(* changed neither the objects nor the attributes nor, while the root path is  *)
(* good, the files: a CREATE of several objects that meets a stranded file is  *)
(* undone completely.                                                          *)
THEOREM ErrorsHaveNoEffect == ASSUME ~Faults PROVE Spec => ErrorHasNoEffect
<1>1. TypeOK /\ StoreInv /\ ServedInv /\ [Next]_vars
        => [sense' # "OSD_OK" => /\ UNCHANGED <<obj, attr>>
                                 /\ root = "set" => UNCHANGED dfile]_vars
  BY NextNoEffect DEF NoEffect
<1> QED
  BY <1>1, TypeCorrect, StoreSafe, AlwaysServed, PTL DEF Spec, ErrorHasNoEffect

-----------------------------------------------------------------------------
(* Typed initiators, on a device that is not formatted while in use           *)

\* Only partitions and the root have object id 0: what REMOVE PARTITION deletes
\* is never the end of a membership.
ZeroRows == \A p \in Pid : obj[p][PARTITION_OID] \notin {"USEROBJECT", "COLLECTION"}

TypedInv == dbfile /\ root = "set" /\ ZeroRows /\ FilesMatchObjects /\ MembershipSound

(* Typed steps are steps.                                                     *)
LEMMA TypedIsNext == TypedNext => Next
<1>1. TypedTracking => CreateTracking
  BY DEF TypedTracking, CreateTracking
<1>2. TypedRemove => Remove
  BY DEF TypedRemove, Remove
<1>3. TypedRemoveCollection => RemoveCollection
  BY DEF TypedRemoveCollection, RemoveCollection
<1>4. TypedSetPointer => SetPointer
  BY DEF TypedSetPointer, SetPointer
<1> QED
  BY <1>1, <1>2, <1>3, <1>4 DEF TypedNext, Next

LEMMA TypedIsSpec == TypedSpec => Spec
<1>1. [TypedNext]_vars => [Next]_vars
  BY TypedIsNext
<1> QED
  BY <1>1, PTL DEF TypedSpec, Spec

(* Nothing fails.                                                             *)
LEMMA NothingFails ==
    ASSUME TypedInv, ~Faults PROVE ~DbMayFail /\ ~IoMayFail
BY DEF TypedInv, DbMayFail, IoMayFail

(* Rows of coll are made of ids.                                              *)
LEMMA CollRows ==
    ASSUME TypeOK PROVE \A r \in coll : r[1] \in Pid /\ r[2] \in Oid /\ r[3] \in Oid
BY DEF TypeOK

(* A step that leaves objects and files alone and adds no membership.         *)
LEMMA TypedKept ==
    ASSUME TypedInv, UNCHANGED <<obj, dfile, dbfile, root>>, coll' \subseteq coll
    PROVE  TypedInv'
BY DEF TypedInv, ZeroRows, FilesMatchObjects, MembershipSound

LEMMA RejectedTyped == ASSUME TypedInv, NEW s, Rejected(s) PROVE TypedInv'
BY TypedKept DEF Rejected, tables, disk

(* Rows put where there were none, with their files if they are user objects, *)
(* keep all memberships; new memberships join what is there now.              *)
LEMMA TypedGrown ==
    ASSUME TypeOK, TypedInv, NEW p \in Pid, NEW ids, NEW type \in ObjType,
           \A o \in ids : ~obj_ispresent(p, o),
           PARTITION_OID \in ids => type \notin {"USEROBJECT", "COLLECTION"},
           \A q \in Pid, o \in Oid : obj'[q][o] = IF q = p /\ o \in ids THEN type ELSE obj[q][o],
           ids \subseteq Oid,
           dfile' = IF type = "USEROBJECT" THEN dfile \cup ({p} \X ids) ELSE dfile,
           UNCHANGED <<dbfile, root>>,
           \A x \in coll' : x \in coll \/ (/\ x[1] \in Pid /\ x[2] \in Oid /\ x[3] \in Oid
                                           /\ obj'[x[1]][x[2]] = "COLLECTION"
                                           /\ obj'[x[1]][x[3]] = "USEROBJECT")
    PROVE  TypedInv'
<1>1. ZeroRows'
  BY Inputs DEF TypedInv, ZeroRows, PARTITION_OID
<1>2. FilesMatchObjects'
  <2>1. \A q \in Pid, o \in Oid : <<q, o>> \in dfile <=> obj[q][o] = "USEROBJECT"
    BY DEF TypedInv, FilesMatchObjects
  <2>2. \A q \in Pid, o \in Oid : <<q, o>> \in dfile' <=> obj'[q][o] = "USEROBJECT"
    <3> SUFFICES ASSUME NEW q \in Pid, NEW o \in Oid
                 PROVE  <<q, o>> \in dfile' <=> obj'[q][o] = "USEROBJECT"
      OBVIOUS
    <3>1. CASE q = p /\ o \in ids
      BY <2>1, <3>1 DEF obj_ispresent
    <3>2. CASE ~(q = p /\ o \in ids)
      BY <2>1, <3>2
    <3> QED
      BY <3>1, <3>2
  <2>3. dfile' \subseteq Pid \X Oid
    BY DEF TypeOK
  <2> QED
    BY <2>2, <2>3 DEF FilesMatchObjects
<1>3. MembershipSound'
  <2>1. \A x \in coll : obj'[x[1]][x[2]] = obj[x[1]][x[2]] /\ obj'[x[1]][x[3]] = obj[x[1]][x[3]]
    BY CollRows DEF TypedInv, MembershipSound, obj_ispresent
  <2> QED
    BY <2>1 DEF TypedInv, MembershipSound
<1> QED
  BY <1>1, <1>2, <1>3 DEF TypedInv

(* A row that goes after the memberships it is part of, with its file if it   *)
(* is that of a user object.                                                  *)
LEMMA TypedShrunk ==
    ASSUME TypeOK, TypedInv, NEW p \in Pid, NEW o \in Oid, obj' = obj_delete(p, o),
           dfile' = dfile \ {<<p, o>>}, UNCHANGED <<dbfile, root>>,
           coll' \subseteq coll,
           \A x \in coll' : x[1] = p => x[2] # o /\ x[3] # o
    PROVE  TypedInv'
<1>0. \A q \in Pid, x \in Oid : obj'[q][x] = IF q = p /\ x = o THEN "ILLEGAL_OBJ" ELSE obj[q][x]
  BY DeletedRow
<1>1. ZeroRows'
  BY <1>0, Inputs DEF TypedInv, ZeroRows, PARTITION_OID
<1>2. FilesMatchObjects'
  <2>1. \A q \in Pid, x \in Oid : <<q, x>> \in dfile <=> obj[q][x] = "USEROBJECT"
    BY DEF TypedInv, FilesMatchObjects
  <2>2. \A q \in Pid, x \in Oid : <<q, x>> \in dfile' <=> obj'[q][x] = "USEROBJECT"
    <3> SUFFICES ASSUME NEW q \in Pid, NEW x \in Oid
                 PROVE  <<q, x>> \in dfile' <=> obj'[q][x] = "USEROBJECT"
      OBVIOUS
    <3>1. CASE q = p /\ x = o
      <4>1. obj'[q][x] = "ILLEGAL_OBJ" /\ <<q, x>> \notin dfile'
        BY <1>0, <3>1
      <4> QED
        BY <4>1
    <3>2. CASE ~(q = p /\ x = o)
      <4>1. obj'[q][x] = obj[q][x]
        BY <1>0, <3>2
      <4>2. <<q, x>> \in dfile' <=> <<q, x>> \in dfile
        BY <3>2
      <4> QED
        BY <2>1, <4>1, <4>2
    <3> QED
      BY <3>1, <3>2
  <2>3. dfile' \subseteq Pid \X Oid
    BY DEF TypeOK
  <2> QED
    BY <2>2, <2>3 DEF FilesMatchObjects
<1>3. MembershipSound'
  <2>1. \A x \in coll' : obj'[x[1]][x[2]] = obj[x[1]][x[2]] /\ obj'[x[1]][x[3]] = obj[x[1]][x[3]]
    BY <1>0, CollRows
  <2> QED
    BY <2>1 DEF TypedInv, MembershipSound
<1> QED
  BY <1>1, <1>2, <1>3 DEF TypedInv

LEMMA CreateTyped ==
    ASSUME TypeOK, StoreInv, TypedInv, ~Faults, NEW p \in Pid, NEW r \in Oid, NEW numoid \in Nat,
           osd_create(p, r, numoid)
    PROVE  TypedInv'
<1> DEFINE n == IF numoid = 0 THEN 1 ELSE numoid
<1>1. CASE Rejected("ILLEGAL_REQUEST")
  BY <1>1, RejectedTyped
<1>2. CASE nextoid_failed(p, r)
  BY <1>2, NothingFails DEF nextoid_failed
<1>3. ASSUME ~bad_target(p, r), NEW oid \in Oid, oid + n - 1 \in Oid, create_objects(p, r, oid, n)
      PROVE  TypedInv'
  <2> DEFINE ids == oid .. oid + n - 1
  <2>1. ids \subseteq Oid
    BY <1>3, Inputs DEF Oid
  <2>2. \A o \in ids : ~obj_ispresent(p, o)
    BY <1>3 DEF create_objects, creatable
  <2>3. PARTITION_OID \notin ids
    BY <1>3, <2>2, TargetPresent
  <2>4. \A q \in Pid, o \in Oid : obj'[q][o] = IF q = p /\ o \in ids THEN "USEROBJECT" ELSE obj[q][o]
    BY <1>3, InsertRows DEF create_objects, TypeOK, RowType, ObjType
  <2>5. dfile' = dfile \cup ({p} \X ids) /\ UNCHANGED <<coll, dbfile, root>>
    BY <1>3 DEF create_objects, osd_create_datafile
  <2> HIDE DEF ids
  <2> QED
    BY <2>1, <2>2, <2>3, <2>4, <2>5, TypedGrown DEF ObjType
<1>4. ASSUME NEW oid, NEW bad, create_undone(p, oid, n, bad)
      PROVE  TypedInv'
  BY <1>4, UndoneClean, TypedKept DEF TypedInv
<1> QED
  BY <1>1, <1>2, <1>3, <1>4 DEF osd_create

(* The id is free, so the row is inserted: the members that are copied before *)
(* the collection exists never dangle.                                        *)
LEMMA InsertCollectionTyped ==
    ASSUME TypeOK, StoreInv, TypedInv, ~Faults, NEW p \in Pid, NEW r \in Oid, NEW cid \in Oid,
           ~bad_target(p, r), chosen_id(p, r, cid), insert_collection(p, r, cid),
           \A x \in coll' : x \in coll \/ (/\ x[1] = p /\ x[2] = cid /\ x[3] \in Oid
                                           /\ obj[p][x[3]] = "USEROBJECT")
    PROVE  TypedInv'
<1> DEFINE ids == {cid}
<1>1. ~obj_ispresent(p, cid) /\ cid # PARTITION_OID
  BY ChosenFree
<1>2. obj' = obj_insert(p, cid, 1, "COLLECTION") /\ UNCHANGED <<dfile, dbfile, root>>
  BY <1>1, NothingFails DEF insert_collection, disk
<1>3. \A q \in Pid, o \in Oid : obj'[q][o] = IF q = p /\ o \in ids THEN "COLLECTION" ELSE obj[q][o]
  <2>1. cid .. cid + 1 - 1 = {cid}
    BY Inputs
  <2> QED
    BY <1>2, <2>1, InsertRows DEF TypeOK, RowType, ObjType
<1>4. \A x \in coll' : x \in coll \/ (/\ x[1] \in Pid /\ x[2] \in Oid /\ x[3] \in Oid
                                      /\ obj'[x[1]][x[2]] = "COLLECTION"
                                      /\ obj'[x[1]][x[3]] = "USEROBJECT")
  BY <1>1, <1>3 DEF obj_ispresent
<1>5. ids \subseteq Oid /\ PARTITION_OID \notin ids /\ \A o \in ids : ~obj_ispresent(p, o)
  BY <1>1
<1> HIDE DEF ids
<1> QED
  BY <1>2, <1>3, <1>4, <1>5, TypedGrown DEF ObjType

LEMMA CreateCollectionTyped ==
    ASSUME TypeOK, StoreInv, TypedInv, ~Faults, NEW p \in Pid, NEW r \in Oid,
           osd_create_collection(p, r)
    PROVE  TypedInv'
<1>1. CASE Rejected("ILLEGAL_REQUEST")
  BY <1>1, RejectedTyped
<1>2. CASE nextoid_failed(p, r)
  BY <1>2, NothingFails DEF nextoid_failed
<1>3. ASSUME ~bad_target(p, r), NEW cid \in Oid, chosen_id(p, r, cid),
             insert_collection(p, r, cid), UNCHANGED coll
      PROVE  TypedInv'
  BY <1>3, InsertCollectionTyped
<1> QED
  BY <1>1, <1>2, <1>3 DEF osd_create_collection

LEMMA CreateTrackingTyped ==
    ASSUME TypeOK, StoreInv, TypedInv, ~Faults, NEW p \in Pid, NEW r \in Oid, NEW s \in Oid, NEW len,
           osd_create_user_tracking_collection(p, r, s, len)
    PROVE  TypedInv'
<1> DEFINE members == IF s = 0 THEN {} ELSE coll_members(p, s)
<1>m. \A o \in members : o \in Oid /\ obj[p][o] = "USEROBJECT"
  BY DEF coll_members, TypedInv, MembershipSound
<1> HIDE DEF members
<1>1. CASE Rejected("ILLEGAL_REQUEST")
  BY <1>1, RejectedTyped
<1>2. CASE nextoid_failed(p, r)
  BY <1>2, NothingFails DEF nextoid_failed
<1>3. ASSUME ~bad_target(p, r), NEW cid \in Oid, chosen_id(p, r, cid),
             coll' = coll_insert(p, cid, members, 0), insert_collection(p, r, cid)
      PROVE  TypedInv'
  <2>1. \A x \in coll' : x \in coll \/ (/\ x[1] = p /\ x[2] = cid /\ x[3] \in Oid
                                        /\ obj[p][x[3]] = "USEROBJECT")
    BY <1>3, <1>m DEF coll_insert
  <2> QED
    BY <1>3, <2>1, InsertCollectionTyped
<1>4. CASE UNCHANGED <<tables, disk, root, ccap>>
  BY <1>4, TypedKept DEF tables, disk
<1> QED
  BY <1>1, <1>2, <1>3, <1>4 DEF osd_create_user_tracking_collection, members

LEMMA CopyTyped ==
    ASSUME TypedInv, ~Faults, NEW p, NEW r, NEW sp, NEW so, osd_copy_user_objects(p, r, sp, so)
    PROVE  TypedInv'
<1>1. CASE Rejected("ILLEGAL_REQUEST")
  BY <1>1, RejectedTyped
<1>2. CASE nextoid_failed(p, r)
  BY <1>2, NothingFails DEF nextoid_failed
<1>3. CASE UNCHANGED <<tables, disk, root>>
  BY <1>3, TypedKept DEF tables, disk
<1> QED
  BY <1>1, <1>2, <1>3 DEF osd_copy_user_objects

LEMMA CreatePartitionTyped ==
    ASSUME TypeOK, TypedInv, NEW r \in Pid, osd_create_partition(r)
    PROVE  TypedInv'
<1>1. CASE Rejected("ILLEGAL_REQUEST") \/ Rejected("HARDWARE_ERROR")
  BY <1>1, RejectedTyped
<1>2. ASSUME NEW p \in Pid, ~obj_ispresent(p, PARTITION_OID),
             obj' = obj_insert(p, PARTITION_OID, 1, "PARTITION"),
             UNCHANGED <<attr, coll, disk, root, ic>>
      PROVE  TypedInv'
  <2> DEFINE ids == {PARTITION_OID}
  <2>1. PARTITION_OID .. PARTITION_OID + 1 - 1 = ids /\ PARTITION_OID \in Oid
    BY Inputs DEF PARTITION_OID
  <2>2. \A q \in Pid, o \in Oid :
          obj'[q][o] = IF q = p /\ o \in ids THEN "PARTITION" ELSE obj[q][o]
    BY <1>2, <2>1, InsertRows DEF TypeOK, RowType, ObjType
  <2>3. ids \subseteq Oid /\ \A o \in ids : ~obj_ispresent(p, o)
    BY <1>2, <2>1
  <2> HIDE DEF ids
  <2> QED
    BY <1>2, <2>2, <2>3, TypedGrown DEF ObjType, disk
<1> QED
  BY <1>1, <1>2 DEF osd_create_partition

(* REMOVE deletes the rows in which the object is a member; being no          *)
(* collection, it has no members.                                             *)
LEMMA RemoveTyped ==
    ASSUME TypeOK, TypedInv, ~Faults, NEW p \in Pid, NEW o \in Oid,
           IsOf("USEROBJECT", p, o), osd_remove(p, o)
    PROVE  TypedInv'
<1>1. CASE Rejected("ILLEGAL_REQUEST")
  BY <1>1, RejectedTyped
<1>2. CASE ~Rejected("ILLEGAL_REQUEST")
  <2>0. Completed(3) = {3}
    BY Completes DEF TypedInv
  <2>1. /\ obj' = obj_delete(p, o) /\ coll' = coll_delete_oid(p, o)
        /\ dfile' = dfile \ {<<p, o>>} /\ UNCHANGED <<dbfile, root>>
    BY <1>2, <2>0, NothingFails DEF osd_remove, unlink_dfile
  <2>2. \A x \in coll : x[1] = p => x[2] # o
    BY DEF TypedInv, MembershipSound, IsOf
  <2>3. coll' \subseteq coll /\ \A x \in coll' : x[1] = p => x[2] # o /\ x[3] # o
    BY <2>1, <2>2 DEF coll_delete_oid
  <2> QED
    BY <2>1, <2>3, TypedShrunk
<1> QED
  BY <1>1, <1>2

(* REMOVE COLLECTION deletes the rows of its members; being no user object,   *)
(* it is no member itself, and has no file.                                   *)
LEMMA RemoveCollectionTyped ==
    ASSUME TypeOK, TypedInv, ~Faults, NEW p \in Pid, NEW c \in Oid, NEW fcr,
           IsOf("COLLECTION", p, c), osd_remove_collection(p, c, fcr)
    PROVE  TypedInv'
<1>1. CASE Rejected("ILLEGAL_REQUEST")
  BY <1>1, RejectedTyped
<1>2. CASE UNCHANGED <<tables, ccap>> /\ UNCHANGED <<disk, root>>
  BY <1>2, TypedKept DEF tables, disk
<1>3. CASE obj' = obj_delete(p, c) /\ coll' = coll_delete_cid(p, c) /\ UNCHANGED <<disk, root>>
  <2>1. \A x \in coll : x[1] = p => x[3] # c
    BY DEF TypedInv, MembershipSound, IsOf
  <2>2. coll' \subseteq coll /\ \A x \in coll' : x[1] = p => x[2] # c /\ x[3] # c
    BY <1>3, <2>1 DEF coll_delete_cid
  <2>3. <<p, c>> \notin dfile
    BY DEF TypedInv, FilesMatchObjects, IsOf
  <2> QED
    BY <1>3, <2>2, <2>3, TypedShrunk DEF disk
<1>4. Completed(3) = {3}
  BY Completes DEF TypedInv
<1> QED
  BY <1>1, <1>2, <1>3, <1>4 DEF osd_remove_collection

LEMMA RemovePartitionTyped ==
    ASSUME TypeOK, TypedInv, ~Faults, NEW p \in Pid, osd_remove_partition(p)
    PROVE  TypedInv'
<1>1. CASE Rejected("ILLEGAL_REQUEST") \/ Rejected("NOT_EMPTY")
  BY <1>1, RejectedTyped
<1>2. CASE obj' = obj_delete(p, PARTITION_OID) /\ UNCHANGED <<coll, disk, root>>
  <2>1. PARTITION_OID \in Oid
    BY Inputs DEF PARTITION_OID
  <2>2. obj[p][PARTITION_OID] \notin {"USEROBJECT", "COLLECTION"}
    BY DEF TypedInv, ZeroRows
  <2>3. \A x \in coll : x[1] = p => x[2] # PARTITION_OID /\ x[3] # PARTITION_OID
    BY <2>2 DEF TypedInv, MembershipSound
  <2>4. <<p, PARTITION_OID>> \notin dfile
    BY <2>2 DEF TypedInv, FilesMatchObjects
  <2> QED
    BY <1>2, <2>1, <2>3, <2>4, TypedShrunk DEF disk
<1>3. Completed(2) = {2}
  BY Completes DEF TypedInv
<1> QED
  BY <1>1, <1>2, <1>3 DEF osd_remove_partition

(* A pointer that is set joins a user object and a collection.                *)
LEMMA SetCapTyped ==
    ASSUME TypeOK, TypedInv, NEW p \in Pid, NEW o \in Oid, NEW n, NEW c \in Oid, NEW len, NEW e,
           IsOf("COLLECTION", p, c), set_cap(p, o, n, c, len, e)
    PROVE  TypedInv'
<1>1. UNCHANGED <<obj, dfile, dbfile, root>>
  BY AttributesKeepDisk
<1>2. CASE coll' \subseteq coll
  BY <1>1, <1>2, TypedKept
<1>3. CASE /\ get_obj_type(p, o) = "USEROBJECT" /\ obj_ispresent(p, c)
           /\ coll' = coll_insert(p, c, {o}, n)
  <2>1. obj[p][c] = "COLLECTION" /\ obj[p][o] = "USEROBJECT"
    BY <1>3 DEF IsOf, obj_ispresent, get_obj_type
  <2>2. \A x \in coll' : x \in coll \/ x = <<p, c, o, n>>
    BY <1>3 DEF coll_insert
  <2>3. MembershipSound'
    BY <1>1, <2>1, <2>2 DEF TypedInv, MembershipSound
  <2> QED
    BY <1>1, <2>3 DEF TypedInv, ZeroRows, FilesMatchObjects
<1> QED
  BY <1>2, <1>3 DEF set_cap, Rejected, tables

LEMMA AttributesTyped ==
    ASSUME TypedInv, NEW p, NEW o, NEW a, NEW len, NEW e, NEW page,
           \/ osd_set_attributes(p, o, a, len, e)
           \/ osd_getattr_list(p, o, page, e) \/ osd_getattr_page(p, o, page, e)
    PROVE  TypedInv'
<1>1. UNCHANGED <<obj, dfile, dbfile, root>>
  BY AttributesKeepDisk
<1>2. UNCHANGED coll
  BY DEF osd_set_attributes, osd_getattr_list, osd_getattr_page, get_refused, Rejected, tables
<1> QED
  BY <1>1, <1>2, TypedKept

LEMMA NextTyped ==
    ASSUME TypeOK, StoreInv, TypedInv, ~Faults, [TypedNext]_vars PROVE TypedInv'
<1>0. CASE UNCHANGED vars
  BY <1>0, TypedKept DEF vars
<1>1. CASE Create
  <2>1. 0 .. MaxNumOid \subseteq Nat
    BY IdAssumption
  <2> QED
    BY <1>1, <2>1, Inputs, CreateTyped DEF Create
<1>2. CASE CreateCollection
  BY <1>2, Inputs, CreateCollectionTyped DEF CreateCollection
<1>3. CASE TypedTracking
  BY <1>3, Inputs, CreateTrackingTyped DEF TypedTracking
<1>4. CASE Copy
  BY <1>4, CopyTyped DEF Copy
<1>5. CASE CreatePartition
  BY <1>5, Inputs, CreatePartitionTyped DEF CreatePartition
<1>6. CASE TypedRemove
  BY <1>6, Inputs, RemoveTyped DEF TypedRemove
<1>7. CASE TypedRemoveCollection
  BY <1>7, Inputs, RemoveCollectionTyped DEF TypedRemoveCollection
<1>8. CASE RemovePartition
  BY <1>8, Inputs, RemovePartitionTyped DEF RemovePartition
<1>9. CASE SetAttr \/ GetAttr
  BY <1>9, AttributesTyped DEF SetAttr, GetAttr
<1>10. CASE TypedSetPointer
  BY <1>10, Inputs, SetCapTyped DEF TypedSetPointer
<1>11. CASE osd_open
  BY <1>11, TypedKept DEF osd_open, restarted, tables, TypedInv
<1> QED
  BY <1>0, <1>1, <1>2, <1>3, <1>4, <1>5, <1>6, <1>7, <1>8, <1>9, <1>10, <1>11 DEF TypedNext

(* Typed initiators and no faults: the database stays, the root never         *)
(* dangles, and files and memberships agree with the objects.                 *)
THEOREM TypedSafe == ASSUME ~Faults PROVE TypedSpec => []TypedInv
<1>1. Init => TypedInv
  BY FreshRows, Inputs
     DEF Init, TypedInv, ZeroRows, FilesMatchObjects, MembershipSound, PARTITION_OID
<1>2. TypeOK /\ StoreInv /\ TypedInv /\ [TypedNext]_vars => TypedInv'
  BY NextTyped
<1> QED
  BY <1>1, <1>2, TypedIsSpec, TypeCorrect, StoreSafe, PTL DEF TypedSpec

(* Every membership row joins a collection and a user object that both exist, *)
(* through every order of pointer changes, tracking copies and removals.      *)
THEOREM MembershipsSound == ASSUME ~Faults PROVE TypedSpec => []MembershipSound
<1>1. TypedInv => MembershipSound
  BY DEF TypedInv
<1> QED
  BY <1>1, TypedSafe, PTL

(* The data files are exactly those of the user objects, so no automatic      *)
(* CREATE meets a stranded file.                                              *)
THEOREM FilesAlwaysMatch == ASSUME ~Faults PROVE TypedSpec => []FilesMatchObjects
<1>1. TypedInv => FilesMatchObjects
  BY DEF TypedInv
<1> QED
  BY <1>1, TypedSafe, PTL
=============================================================================
