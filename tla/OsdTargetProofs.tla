-------------------------- MODULE OsdTargetProofs ---------------------------
(***************************************************************************)
(* Proofs about the command layer, for every value of the constants: any      *)
(* attribute parts, any number of objects per CREATE, with and without faults, *)
(* and with the process dying at any point of any command.                     *)
(***************************************************************************)
EXTENDS OsdTarget, OsdStoreProofs

-----------------------------------------------------------------------------
(* The command in service and the open transaction                            *)

Snapshots ==
    [obj : [Pid -> [Oid -> RowType]], attr : SUBSET (Pid \X Oid \X Attrs), dfile : SUBSET (Pid \X Oid)]

Operations ==
    Creating \cup Removing \cup {"OSD_SET_ATTRIBUTES", "OSD_GET_ATTRIBUTES"}

IdleCmd == [stage : {"idle"}, ret : Sense, sense_out : Sense \cup {"ZEROS"}]

AttrCmd ==
    [stage : {"set", "get", "finish", "remove", "undo"}, op : Operations, pid : Pid, oid : Oid,
     n : Nat, req : Requests, i : Oid, k : Nat, ret : Sense, before : Snapshots]

RemoveCmd ==
    [stage : {"remove"}, op : {"OSD_REMOVE_COLLECTION"}, pid : Pid, oid : Oid, i : Oid,
     fcr : {0, 1}, before : Snapshots]

\* The objects a command with attributes is about.
Objects == cmd.oid .. cmd.oid + cmd.n - 1

\* The command in service: its objects are ids, the loops stay among them, and
\* each stage belongs to a command that has it.
CmdOK ==
    \/ cmd \in IdleCmd
    \/ /\ cmd \in AttrCmd
       /\ Objects \subseteq Oid /\ cmd.i \in Objects /\ cmd.k >= 1
       /\ cmd.op \notin Creating => cmd.n = 1
       /\ cmd.op \in {"OSD_CREATE_PARTITION", "OSD_REMOVE_PARTITION"} => cmd.oid = PARTITION_OID /\ cmd.n = 1
       /\ cmd.stage = "undo" => cmd.op \in Creating
       /\ cmd.stage = "remove" => cmd.op \in Removing
    \/ cmd \in RemoveCmd /\ cmd.i = cmd.oid

\* An open transaction belongs to a loop that has begun, and has added nothing
\* but attributes to what it would be rolled back to.
TxnOK ==
    txn # NoTxn =>
        /\ \/ cmd.stage = "set" /\ cmd.req.set \notin {<<>>, MALFORMED}
           \/ /\ cmd.stage = "get" /\ cmd.req.fmt = "GETLIST_SETLIST"
              /\ cmd.req.get \notin {<<>>, MALFORMED}
        /\ txn = <<obj, txn[2], coll>>
        /\ txn[2] \subseteq attr
        /\ cmd.before.attr \subseteq txn[2]

\* The attribute loops only add to what was there before the command, and the
\* objects of a creating command were not there.
BeforeOK ==
    cmd.stage # "idle" =>
        /\ cmd.stage \in {"set", "get"} => cmd.before.attr \subseteq attr
        /\ cmd.op \in Creating => \A o \in Objects : cmd.before.obj[cmd.pid][o] = "ILLEGAL_OBJ"

TargetInv == TypeOK /\ StoreInv /\ CmdOK /\ TxnOK /\ BeforeOK

-----------------------------------------------------------------------------
(* Attribute calls and what they leave alone                                  *)

\* A step of an attribute loop, seen from the store: rows are added for one
\* object, and nothing else changes.
Attributed(p, o) ==
    /\ UNCHANGED <<obj, coll, dfile, dbfile, root, ic, ccap>>
    /\ attr \subseteq attr'
    /\ \A r \in attr' : r \in attr \/ (r[1] = p /\ r[2] = o)

LEMMA RejectedAttributed ==
    ASSUME NEW s, Rejected(s), NEW p, NEW o PROVE Attributed(p, o)
BY DEF Rejected, Attributed, tables, disk

LEMMA SetAttributed ==
    ASSUME NEW p, NEW o, NEW a, osd_set_attributes(p, o, a, "VALUE", TRUE)
    PROVE  Attributed(p, o)
<1>1. CASE Rejected("ILLEGAL_REQUEST") \/ Rejected("HARDWARE_ERROR") \/ Rejected("PARAM_LIST")
  BY <1>1, RejectedAttributed
<1>2. CASE /\ attr' = attr \cup {<<p, o, a>>} /\ UNCHANGED ccap
           /\ UNCHANGED <<obj, coll, disk, root, ic>>
  BY <1>2 DEF Attributed, disk
<1> QED
  BY <1>1, <1>2 DEF osd_set_attributes, attr_reply

LEMMA GetAttributed ==
    ASSUME TypeOK, NEW p \in Pid, NEW o \in Oid, NEW page,
           osd_getattr_list(p, o, page, TRUE) \/ osd_getattr_page(p, o, page, TRUE)
    PROVE  Attributed(p, o)
<1>1. CASE get_refused(p, o, page)
  BY <1>1, RejectedAttributed DEF get_refused
<1>2. CASE /\ attr' = attr \/ \E k : attr' = lazy_init_attr(p, o, k)
           /\ UNCHANGED ccap
           /\ UNCHANGED <<obj, coll, disk, root, ic>>
  <2>1. attr \subseteq attr'
    BY <1>2 DEF lazy_init_attr
  <2>2. \A r \in attr' : r \in attr \/ (r[1] = p /\ r[2] = o)
    BY <1>2, LazyRows
  <2> QED
    BY <1>2, <2>1, <2>2 DEF Attributed, disk
<1>3. CASE osd_getattr_list(p, o, page, TRUE)
  BY <1>1, <1>2, <1>3 DEF osd_getattr_list, attr_reply
<1>4. CASE osd_getattr_page(p, o, page, TRUE)
  BY <1>1, <1>2, <1>4 DEF osd_getattr_page
<1> QED
  BY <1>3, <1>4

-----------------------------------------------------------------------------
(* The loops                                                                  *)

(* A command that is in one of its loops carries attributes.                  *)
LEMMA InLoop ==
    ASSUME CmdOK, cmd.stage \in {"set", "get", "finish", "undo"}
    PROVE  /\ cmd \in AttrCmd /\ Objects \subseteq Oid /\ cmd.i \in Objects /\ cmd.k >= 1
           /\ cmd.op \notin Creating => cmd.n = 1
           /\ cmd.op \in {"OSD_CREATE_PARTITION", "OSD_REMOVE_PARTITION"} =>
                cmd.oid = PARTITION_OID /\ cmd.n = 1
           /\ cmd.oid \in Objects /\ cmd.oid \in Nat /\ cmd.n \in Nat /\ cmd.i \in Nat
           /\ Objects = cmd.oid .. cmd.oid + cmd.n - 1
<1>1. cmd \notin IdleCmd /\ cmd \notin RemoveCmd
  BY DEF IdleCmd, RemoveCmd
<1>2. cmd \in AttrCmd /\ cmd.i \in Objects
  BY <1>1 DEF CmdOK
<1>3. cmd.oid \in Nat /\ cmd.n \in Nat /\ cmd.i \in Nat
  BY <1>2, Inputs DEF AttrCmd
<1>4. cmd.oid \in Objects
  BY <1>2, <1>3 DEF Objects
<1> QED
  BY <1>1, <1>2, <1>3, <1>4 DEF CmdOK, Objects

\* How a loop goes on: with the next object, with the next element, with the
\* next stage of the command, or not at all.
GoesOn(list, stage) ==
    \/ \E s \in Sense \ {"OSD_OK"} : failed(s) /\ txn' = NoTxn
    \/ sense' = "OSD_OK" /\ ~last_object /\ cmd' = [cmd EXCEPT !.i = @ + 1] /\ txn' = begin_txn
    \/ /\ sense' = "OSD_OK" /\ last_object /\ cmd.k < Len(list)
       /\ cmd' = [cmd EXCEPT !.i = cmd.oid, !.k = @ + 1] /\ txn' = begin_txn
    \/ /\ list = <<>> \/ (sense' = "OSD_OK" /\ last_object /\ ~(cmd.k < Len(list)))
       /\ next_stage(stage) /\ txn' = NoTxn

LEMMA Advances ==
    ASSUME NEW list, NEW stage, advance(list, stage), sense' \in Sense
    PROVE  GoesOn(list, stage)
BY DEF advance, GoesOn, end_txn

(* One step of the loop over the attributes to set.                           *)
LEMMA SetStep ==
    ASSUME TypeOK, StoreInv, CmdOK, TxnOK, set_attributes
    PROVE  /\ TypeOK' /\ StoreInv' /\ Attributed(cmd.pid, cmd.i)
           /\ cmd.stage = "set" /\ GoesOn(cmd.req.set, after_set)
           /\ txn' # NoTxn => cmd'.stage = "set" /\ cmd.req.set \notin {<<>>, MALFORMED}
<1> DEFINE list == cmd.req.set
<1>0. cmd.stage = "set"
  BY DEF set_attributes
<1>1. cmd \in AttrCmd /\ cmd.pid \in Pid /\ cmd.i \in Oid
  BY <1>0, InLoop DEF AttrCmd
<1>2. list \in {<<>>, MALFORMED} => txn = NoTxn
  BY <1>0 DEF TxnOK
<1>3. CASE list = <<>> /\ next_stage(after_set) /\ UNCHANGED <<vars, txn>>
  <2>1. TypeOK' /\ StoreInv' /\ Attributed(cmd.pid, cmd.i)
    BY <1>3, ObjectsKept DEF vars, TypeOK, Attributed
  <2> QED
    BY <1>0, <1>2, <1>3, <2>1 DEF GoesOn
<1>4. ASSUME NEW s \in Sense \ {"OSD_OK"}, list = MALFORMED, refuse_list(s)
      PROVE  /\ TypeOK' /\ StoreInv' /\ Attributed(cmd.pid, cmd.i)
             /\ GoesOn(list, after_set) /\ txn' = NoTxn
  BY <1>2, <1>4, RejectedType, RejectedKeeps, RejectedAttributed DEF refuse_list, GoesOn
<1>5. CASE list \notin {<<>>, MALFORMED} /\ set_attr_list(list)
  <2>1. osd_set_attributes(cmd.pid, cmd.i, list[cmd.k], "VALUE", TRUE) /\ advance(list, after_set)
    BY <1>5 DEF set_attr_list
  <2>2. TypeOK' /\ StoreInv' /\ Attributed(cmd.pid, cmd.i)
    BY <1>1, <2>1, SetAttributesType, SetAttributesKeeps, SetAttributed
  <2>3. GoesOn(list, after_set)
    BY <2>1, <2>2, Advances DEF TypeOK
  <2>4. txn' # NoTxn => cmd'.stage = "set"
    BY <1>0, <1>1, <2>1 DEF advance, end_txn, AttrCmd
  <2> QED
    BY <1>0, <1>5, <2>2, <2>3, <2>4
<1> QED
  BY <1>0, <1>3, <1>4, <1>5 DEF set_attributes, Sense

\* The same, without why.
LoopStep(stage) ==
    \/ \E s \in Sense \ {"OSD_OK"} : failed(s) /\ txn' = NoTxn
    \/ ~last_object /\ cmd' = [cmd EXCEPT !.i = @ + 1] /\ txn' = begin_txn
    \/ cmd' = [cmd EXCEPT !.i = cmd.oid, !.k = @ + 1] /\ txn' = begin_txn
    \/ next_stage(stage) /\ txn' = NoTxn

LEMMA LoopSteps == ASSUME NEW list, NEW stage, GoesOn(list, stage) PROVE LoopStep(stage)
BY DEF GoesOn, LoopStep

(* One step of the loop over the attributes to get.                           *)
LEMMA GetStep ==
    ASSUME TypeOK, StoreInv, CmdOK, TxnOK, get_attributes
    PROVE  /\ TypeOK' /\ StoreInv' /\ \E o \in Objects : Attributed(cmd.pid, o)
           /\ cmd.stage = "get" /\ LoopStep(after_get)
           /\ txn' # NoTxn => /\ cmd'.stage = "get" /\ cmd.req.fmt = "GETLIST_SETLIST"
                              /\ cmd.req.get \notin {<<>>, MALFORMED}
<1> DEFINE list == IF cmd.req.fmt = "GETFIELD_SETVALUE" THEN <<>> ELSE cmd.req.get
<1>0. cmd.stage = "get"
  BY DEF get_attributes
<1>1. /\ cmd \in AttrCmd /\ cmd.pid \in Pid /\ cmd.i \in Oid /\ cmd.oid \in Oid
      /\ cmd.i \in Objects /\ cmd.oid \in Objects
  BY <1>0, InLoop DEF AttrCmd
<1>2. list \in {<<>>, MALFORMED} \/ cmd.req.fmt # "GETLIST_SETLIST" => txn = NoTxn
  BY <1>0 DEF TxnOK
<1>3. CASE list = <<>> /\ next_stage(after_get) /\ UNCHANGED <<vars, txn>>
  <2>1. TypeOK' /\ StoreInv' /\ Attributed(cmd.pid, cmd.i)
    BY <1>3, ObjectsKept DEF vars, TypeOK, Attributed
  <2> QED
    BY <1>0, <1>1, <1>2, <1>3, <2>1 DEF LoopStep
<1>4. CASE list = MALFORMED /\ refuse_list("PARAM_LIST")
  <2>1. "PARAM_LIST" \in Sense \ {"OSD_OK"}
    BY DEF Sense
  <2>2. TypeOK' /\ StoreInv' /\ Attributed(cmd.pid, cmd.i)
    BY <1>4, <2>1, RejectedType, RejectedKeeps, RejectedAttributed DEF refuse_list
  <2>3. LoopStep(after_get) /\ txn' = NoTxn
    BY <1>2, <1>4, <2>1 DEF refuse_list, LoopStep
  <2> QED
    BY <1>0, <1>1, <2>2, <2>3
<1>5. CASE cmd.req.fmt = "GETPAGE_SETVALUE" /\ get_attr_page(list[1])
  <2>1. osd_getattr_page(cmd.pid, cmd.oid, list[1], TRUE)
    BY <1>5 DEF get_attr_page
  <2>2. TypeOK' /\ StoreInv' /\ Attributed(cmd.pid, cmd.oid)
    BY <1>1, <2>1, GetAttrType, GetAttrKeeps, GetAttributed
  <2>3. LoopStep(after_get) /\ txn' = NoTxn
    BY <1>2, <1>5, <2>2 DEF get_attr_page, LoopStep, TypeOK
  <2> QED
    BY <1>0, <1>1, <2>2, <2>3
<1>6. CASE /\ cmd.req.fmt = "GETLIST_SETLIST" /\ list \notin {<<>>, MALFORMED}
           /\ get_attr_list(list)
  <2>1. osd_getattr_list(cmd.pid, cmd.i, list[cmd.k], TRUE) /\ advance(list, after_get)
    BY <1>6 DEF get_attr_list
  <2>2. TypeOK' /\ StoreInv' /\ Attributed(cmd.pid, cmd.i)
    BY <1>1, <2>1, GetAttrType, GetAttrKeeps, GetAttributed
  <2>3. LoopStep(after_get)
    BY <2>1, <2>2, Advances, LoopSteps DEF TypeOK
  <2>4. txn' # NoTxn => cmd'.stage = "get"
    BY <1>0, <1>1, <2>1 DEF advance, end_txn, AttrCmd
  <2> QED
    BY <1>0, <1>1, <1>6, <2>2, <2>3, <2>4
<1> QED
  BY <1>0, <1>3, <1>4, <1>5, <1>6 DEF get_attributes

(* What both loops do to the command and to the transaction.                  *)
LEMMA LoopKeeps ==
    ASSUME TargetInv, cmd.stage \in {"set", "get"}, TypeOK', StoreInv',
           NEW o \in Objects, Attributed(cmd.pid, o),
           (LoopStep(after_set) /\ cmd.stage = "set") \/ (LoopStep(after_get) /\ cmd.stage = "get"),
           txn' # NoTxn => \/ cmd'.stage = "set" /\ cmd.req.set \notin {<<>>, MALFORMED}
                           \/ /\ cmd'.stage = "get" /\ cmd.req.fmt = "GETLIST_SETLIST"
                              /\ cmd.req.get \notin {<<>>, MALFORMED}
    PROVE  TargetInv'
<1>0. /\ cmd \in AttrCmd /\ Objects \subseteq Oid /\ cmd.i \in Objects /\ cmd.k >= 1
      /\ cmd.oid \in Objects /\ cmd.oid \in Nat /\ cmd.n \in Nat /\ cmd.i \in Nat
      /\ Objects = cmd.oid .. cmd.oid + cmd.n - 1
  BY InLoop DEF TargetInv
<1>a. cmd \in AttrCmd /\ cmd.oid \in Oid /\ cmd.k + 1 \in Nat /\ cmd.k + 1 >= 1
  BY <1>0 DEF AttrCmd
<1>1. PICK stage \in {"set", "get", "finish", "remove"} :
        LoopStep(stage) /\ (stage = "remove" => cmd.op \in Removing)
  BY <1>0 DEF after_set, after_get, GetFirst
<1>2. CASE cmd.op \notin Creating /\ cmd' \in IdleCmd /\ txn' = NoTxn
  BY <1>2 DEF TargetInv, CmdOK, TxnOK, BeforeOK, IdleCmd
<1>3. CASE /\ cmd' \in AttrCmd /\ cmd'.k >= 1 /\ cmd'.i \in Objects
           /\ cmd'.op = cmd.op /\ cmd'.pid = cmd.pid /\ cmd'.oid = cmd.oid /\ cmd'.n = cmd.n
           /\ cmd'.req = cmd.req /\ cmd'.before = cmd.before
           /\ cmd'.stage = "undo" => cmd.op \in Creating
           /\ cmd'.stage = "remove" => cmd.op \in Removing
           /\ txn' = NoTxn \/ txn' = begin_txn
  <2>1. Objects' = Objects
    BY <1>3 DEF Objects
  <2>2. CmdOK'
    BY <1>0, <1>3, <2>1 DEF TargetInv, CmdOK, IdleCmd, RemoveCmd, Removing, Creating
  <2>3. TxnOK'
    <3>1. txn = NoTxn \/ (txn = <<obj, txn[2], coll>> /\ txn[2] \subseteq attr /\ cmd.before.attr \subseteq txn[2])
      BY DEF TargetInv, TxnOK
    <3>2. cmd.before.attr \subseteq attr
      BY <1>0 DEF TargetInv, BeforeOK
    <3>3. obj' = obj /\ coll' = coll /\ attr \subseteq attr'
      BY DEF Attributed
    <3>4. txn' # NoTxn =>
            txn' = <<obj, txn'[2], coll>> /\ txn'[2] \subseteq attr /\ cmd.before.attr \subseteq txn'[2]
      BY <1>3, <3>1, <3>2 DEF begin_txn
    <3> QED
      BY <1>3, <3>3, <3>4 DEF TxnOK
  <2>4. BeforeOK'
    BY <1>0, <1>3, <2>1 DEF TargetInv, BeforeOK, Attributed
  <2> QED
    BY <2>2, <2>3, <2>4 DEF TargetInv
<1>4. ASSUME NEW s \in Sense \ {"OSD_OK"}, failed(s), txn' = NoTxn
      PROVE  TargetInv'
  <2>1. CASE cmd.op \in Creating
    BY <1>0, <1>3, <1>4, <2>1 DEF failed, AttrCmd
  <2>2. CASE cmd.op \notin Creating
    BY <1>2, <1>4, <2>2 DEF failed, Idle, IdleCmd
  <2> QED
    BY <2>1, <2>2
<1>5. CASE ~last_object /\ cmd' = [cmd EXCEPT !.i = @ + 1] /\ txn' = begin_txn
  <2>1. cmd.i + 1 \in Objects
    BY <1>0, <1>5 DEF last_object
  <2> QED
    BY <1>0, <1>3, <1>5, <2>1 DEF AttrCmd
<1>6. CASE cmd' = [cmd EXCEPT !.i = cmd.oid, !.k = @ + 1] /\ txn' = begin_txn
  <2>1. cmd' \in AttrCmd /\ cmd'.k >= 1
    BY <1>a, <1>6 DEF AttrCmd
  <2> QED
    BY <1>0, <1>3, <1>6, <2>1 DEF AttrCmd
<1>7. CASE next_stage(stage) /\ txn' = NoTxn
  <2>1. cmd' = [cmd EXCEPT !.stage = stage, !.i = cmd.oid, !.k = 1]
    BY <1>7 DEF next_stage
  <2>2. cmd' \in AttrCmd
    <3>1. stage \in {"set", "get", "finish", "remove", "undo"} /\ 1 \in Nat
      OBVIOUS
    <3> QED
      BY <1>a, <2>1, <3>1 DEF AttrCmd
  <2> QED
    BY <1>0, <1>1, <1>3, <1>7, <2>1, <2>2 DEF AttrCmd
<1> QED
  BY <1>1, <1>4, <1>5, <1>6, <1>7 DEF LoopStep

-----------------------------------------------------------------------------
(* Beginnings and ends of commands                                            *)

LEMMA NoOpenTxn == ASSUME TxnOK, cmd.stage \notin {"set", "get"} PROVE txn = NoTxn
BY DEF TxnOK

(* A command whose objects are ids begins its loops.                          *)
LEMMA Begins ==
    ASSUME TypeOK, TypeOK', StoreInv', txn' = NoTxn, attr \subseteq attr',
           NEW op \in Operations, NEW p \in Pid, NEW o \in Oid, NEW n \in Nat, n >= 1,
           o + n - 1 \in Oid, NEW req \in Requests, NEW first \in {"set", "get"},
           begin_attributes(op, p, o, n, req, first),
           op \notin Creating => n = 1,
           op \in {"OSD_CREATE_PARTITION", "OSD_REMOVE_PARTITION"} => o = PARTITION_OID /\ n = 1,
           op \in Creating => \A x \in o .. o + n - 1 : obj[p][x] = "ILLEGAL_OBJ"
    PROVE  TargetInv'
<1>1. Snapshot \in Snapshots
  BY DEF Snapshot, Snapshots, TypeOK
<1>2. cmd' = [stage |-> first, op |-> op, pid |-> p, oid |-> o, n |-> n, req |-> req,
              i |-> o, k |-> 1, ret |-> "OSD_OK", before |-> Snapshot]
  BY DEF begin_attributes
<1>3. cmd' \in AttrCmd
  BY <1>1, <1>2 DEF AttrCmd, Sense
<1>4. /\ cmd'.oid = o /\ cmd'.n = n /\ cmd'.i = o /\ cmd'.k = 1 /\ cmd'.op = op /\ cmd'.pid = p
      /\ cmd'.stage = first /\ cmd'.before.attr = attr /\ cmd'.before.obj = obj
  BY <1>2 DEF Snapshot
<1>5. Objects' = o .. o + n - 1 /\ Objects' \subseteq Oid /\ o \in Objects'
  BY <1>4, Inputs DEF Objects, Oid
<1>6. CmdOK'
  BY <1>3, <1>4, <1>5 DEF CmdOK
<1>7. BeforeOK'
  BY <1>4, <1>5 DEF BeforeOK
<1> QED
  BY <1>6, <1>7 DEF TargetInv, TxnOK

(* A command is over.                                                         *)
LEMMA IsOver ==
    ASSUME TypeOK', StoreInv', cmd' \in IdleCmd, txn' = NoTxn
    PROVE  TargetInv'
BY DEF TargetInv, CmdOK, TxnOK, BeforeOK, IdleCmd

(* What a creation that reports success has done.                             *)
LEMMA CreateDone ==
    ASSUME NEW p, NEW r, NEW numoid \in Nat, osd_create(p, r, numoid), sense' = "OSD_OK"
    PROVE  LET n == IF numoid = 0 THEN 1 ELSE numoid
           IN  /\ ~bad_target(p, r)
               /\ \E oid \in Oid : /\ chosen_id(p, r, oid) /\ oid + n - 1 \in Oid
                                   /\ create_objects(p, r, oid, n) /\ created_oid(n) = oid
<1> DEFINE n == IF numoid = 0 THEN 1 ELSE numoid
<1>0. n \in Nat
  OBVIOUS
<1>1. ~Rejected("ILLEGAL_REQUEST") /\ ~nextoid_failed(p, r)
  BY DEF Rejected, nextoid_failed
<1>2. \A oid, bad : ~create_undone(p, oid, n, bad)
  BY DEF create_undone
<1>3. /\ ~bad_target(p, r)
      /\ \E oid \in Oid : /\ chosen_id(p, r, oid) /\ oid + n - 1 \in Oid
                          /\ create_objects(p, r, oid, n)
  BY <1>1, <1>2 DEF osd_create
<1>4. \A oid \in Oid : create_objects(p, r, oid, n) => created_oid(n) = oid
  <2> SUFFICES ASSUME NEW oid \in Oid, create_objects(p, r, oid, n) PROVE created_oid(n) = oid
    OBVIOUS
  <2>1. ccap'.oid = oid + n - 1
    BY DEF create_objects, fill_ccap
  <2> HIDE DEF n
  <2> QED
    BY <1>0, <2>1, Inputs DEF created_oid
<1> QED
  BY <1>3, <1>4

LEMMA CreateCollectionDone ==
    ASSUME NEW p, NEW r, osd_create_collection(p, r), sense' = "OSD_OK"
    PROVE  /\ ~bad_target(p, r)
           /\ \E cid \in Oid : /\ chosen_id(p, r, cid) /\ ~obj_ispresent(p, cid)
                               /\ obj' = obj_insert(p, cid, 1, "COLLECTION")
                               /\ ccap' = [obj_type |-> "COLLECTION", pid |-> p, oid |-> cid]
                               /\ UNCHANGED <<attr, coll, disk, root>>
<1>1. ~Rejected("ILLEGAL_REQUEST") /\ ~nextoid_failed(p, r)
  BY DEF Rejected, nextoid_failed
<1> QED
  BY <1>1 DEF osd_create_collection, insert_collection, fill_ccap

LEMMA CreatePartitionDone ==
    ASSUME NEW r, osd_create_partition(r), sense' = "OSD_OK"
    PROVE  \E p \in Pid : /\ ~obj_ispresent(p, PARTITION_OID)
                          /\ obj' = obj_insert(p, PARTITION_OID, 1, "PARTITION")
                          /\ ccap' = [obj_type |-> "PARTITION", pid |-> p, oid |-> PARTITION_OID]
                          /\ UNCHANGED <<attr, coll, disk, root, ic>>
<1>1. ~Rejected("ILLEGAL_REQUEST") /\ ~Rejected("HARDWARE_ERROR")
  BY DEF Rejected
<1> QED
  BY <1>1 DEF osd_create_partition, fill_ccap

LEMMA CdbCreateKeeps ==
    ASSUME TargetInv, NEW p \in Pid, NEW r \in Oid, NEW numoid \in Nat, NEW req \in Requests,
           cdb_create(p, r, numoid, req)
    PROVE  TargetInv'
<1> DEFINE n == IF numoid = 0 THEN 1 ELSE numoid
<1>n. n \in Nat /\ n >= 1
  OBVIOUS
<1>t. txn' = NoTxn
  BY NoOpenTxn DEF cdb_create, TargetInv
<1>1. CASE Rejected("ILLEGAL_REQUEST") /\ Idle("ILLEGAL_REQUEST", "ILLEGAL_REQUEST")
  <2>1. TypeOK' /\ StoreInv'
    BY <1>1, RejectedType, RejectedKeeps DEF TargetInv, Sense
  <2> QED
    BY <1>1, <1>t, <2>1, IsOver DEF Idle, IdleCmd, Sense
<1>2. CASE osd_create(p, r, numoid) /\ Idle(sense', sense')
  <2>1. TypeOK' /\ StoreInv'
    BY <1>2, CreateType, CreateKeeps DEF TargetInv
  <2> QED
    BY <1>2, <1>t, <2>1, IsOver DEF Idle, IdleCmd, TypeOK
<1>3. CASE /\ osd_create(p, r, numoid) /\ sense' = "OSD_OK"
           /\ begin_attributes("OSD_CREATE", p, created_oid(n), n, req, "set")
  <2>1. TypeOK' /\ StoreInv'
    BY <1>3, CreateType, CreateKeeps DEF TargetInv
  <2>2. PICK oid \in Oid : oid + n - 1 \in Oid /\ create_objects(p, r, oid, n) /\ created_oid(n) = oid
    BY <1>3, CreateDone
  <2>3. attr' = attr /\ \A x \in oid .. oid + n - 1 : obj[p][x] = "ILLEGAL_OBJ"
    BY <2>2 DEF create_objects, creatable, obj_ispresent
  <2>4. begin_attributes("OSD_CREATE", p, oid, n, req, "set")
    BY <1>3, <2>2
  <2>5. "OSD_CREATE" \in Operations \cap Creating
    BY DEF Operations, Creating
  <2> HIDE DEF n
  <2> QED
    BY <1>n, <1>t, <2>1, <2>2, <2>3, <2>4, <2>5, Begins DEF TargetInv
<1> QED
  BY <1>1, <1>2, <1>3 DEF cdb_create

LEMMA CdbCreateCollectionKeeps ==
    ASSUME TargetInv, NEW p \in Pid, NEW r \in Oid, NEW req \in Requests,
           cdb_create_collection(p, r, req)
    PROVE  TargetInv'
<1>t. txn' = NoTxn
  BY NoOpenTxn DEF cdb_create_collection, TargetInv
<1>0. TypeOK' /\ StoreInv' /\ osd_create_collection(p, r)
  BY CreateCollectionType, CreateCollectionKeeps DEF cdb_create_collection, TargetInv
<1>1. CASE Idle(sense', "ZEROS")
  BY <1>0, <1>1, <1>t, IsOver DEF Idle, IdleCmd, TypeOK
<1>2. CASE /\ sense' = "OSD_OK"
           /\ begin_attributes("OSD_CREATE_COLLECTION", p, ccap'.oid, 1, req, "set")
  <2>1. PICK cid \in Oid : ccap'.oid = cid /\ ~obj_ispresent(p, cid) /\ attr' = attr
    BY <1>0, <1>2, CreateCollectionDone
  <2>2. cid + 1 - 1 \in Oid /\ cid .. cid + 1 - 1 = {cid}
    BY Inputs
  <2>3. "OSD_CREATE_COLLECTION" \in Operations \cap Creating
    BY DEF Operations, Creating
  <2> QED
    BY <1>t, <1>0, <1>2, <2>1, <2>2, <2>3, Begins DEF TargetInv, obj_ispresent
<1> QED
  BY <1>1, <1>2 DEF cdb_create_collection

LEMMA CdbCreatePartitionKeeps ==
    ASSUME TargetInv, NEW r \in Pid, NEW req \in Requests, cdb_create_partition(r, req)
    PROVE  TargetInv'
<1>t. txn' = NoTxn
  BY NoOpenTxn DEF cdb_create_partition, TargetInv
<1>0. TypeOK' /\ StoreInv' /\ osd_create_partition(r)
  BY CreatePartitionType, CreatePartitionKeeps DEF cdb_create_partition, TargetInv
<1>1. CASE Idle(sense', sense')
  BY <1>0, <1>1, <1>t, IsOver DEF Idle, IdleCmd, TypeOK
<1>2. CASE /\ sense' = "OSD_OK"
           /\ begin_attributes("OSD_CREATE_PARTITION", ccap'.pid, PARTITION_OID, 1, req, "set")
  <2>1. PICK p \in Pid : ccap'.pid = p /\ ~obj_ispresent(p, PARTITION_OID) /\ attr' = attr
    BY <1>0, <1>2, CreatePartitionDone
  <2>2. /\ PARTITION_OID \in Oid /\ PARTITION_OID + 1 - 1 \in Oid
        /\ PARTITION_OID .. PARTITION_OID + 1 - 1 = {PARTITION_OID}
    BY Inputs DEF PARTITION_OID
  <2>3. "OSD_CREATE_PARTITION" \in Operations \cap Creating
    BY DEF Operations, Creating
  <2> QED
    BY <1>t, <1>0, <1>2, <2>1, <2>2, <2>3, Begins DEF TargetInv, obj_ispresent
<1> QED
  BY <1>1, <1>2 DEF cdb_create_partition

LEMMA LaterCommandsKeep ==
    ASSUME TargetInv, NEW op \in Operations, op \notin Creating, NEW p \in Pid, NEW o \in Oid,
           op = "OSD_REMOVE_PARTITION" => o = PARTITION_OID,
           NEW req \in Requests, cdb_remove(op, p, o, req) \/ attributes_command(op, p, o, req)
    PROVE  TargetInv'
<1>1. PICK first \in {"set", "get"} : begin_attributes(op, p, o, 1, req, first)
  BY DEF cdb_remove, attributes_command
<1>2. UNCHANGED <<vars, txn>> /\ cmd.stage = "idle"
  BY DEF cdb_remove, attributes_command
<1>3. TypeOK' /\ StoreInv' /\ attr' = attr /\ txn' = NoTxn
  BY <1>2, ObjectsKept, NoOpenTxn DEF TargetInv, vars, TypeOK
<1>4. o + 1 - 1 \in Oid /\ op # "OSD_CREATE_PARTITION"
  BY Inputs DEF Creating
<1> QED
  BY <1>1, <1>3, <1>4, Begins DEF TargetInv

LEMMA RemoveCollectionCommandKeeps ==
    ASSUME TargetInv, NEW p \in Pid, NEW c \in Oid, NEW fcr \in {0, 1},
           remove_collection_command(p, c, fcr)
    PROVE  TargetInv'
<1>1. cmd' = [stage |-> "remove", op |-> "OSD_REMOVE_COLLECTION", pid |-> p, oid |-> c, i |-> c,
              fcr |-> fcr, before |-> Snapshot]
  BY DEF remove_collection_command
<1>2. Snapshot \in Snapshots
  BY DEF Snapshot, Snapshots, TypeOK, TargetInv
<1>3. UNCHANGED <<vars, txn>> /\ cmd.stage = "idle"
  BY DEF remove_collection_command
<1>4. TypeOK' /\ StoreInv' /\ txn' = NoTxn
  BY <1>3, ObjectsKept, NoOpenTxn DEF TargetInv, vars, TypeOK
<1>5. cmd' \in RemoveCmd /\ cmd'.i = cmd'.oid
  BY <1>1, <1>2 DEF RemoveCmd
<1>6. CmdOK' /\ BeforeOK'
  BY <1>1, <1>5 DEF CmdOK, BeforeOK, Creating
<1> QED
  BY <1>4, <1>6 DEF TargetInv, TxnOK

(* One step of a loop.                                                        *)
LEMMA SetAttributesStepKeeps == ASSUME TargetInv, set_attributes PROVE TargetInv'
<1>1. /\ TypeOK' /\ StoreInv' /\ Attributed(cmd.pid, cmd.i)
      /\ cmd.stage = "set" /\ GoesOn(cmd.req.set, after_set)
      /\ txn' # NoTxn => cmd'.stage = "set" /\ cmd.req.set \notin {<<>>, MALFORMED}
  BY SetStep DEF TargetInv
<1>2. LoopStep(after_set)
  BY <1>1, LoopSteps
<1>3. cmd.i \in Objects
  BY <1>1, InLoop DEF TargetInv
<1>4. PICK o \in Objects : Attributed(cmd.pid, o)
  BY <1>1, <1>3
<1>5. txn' # NoTxn => \/ cmd'.stage = "set" /\ cmd.req.set \notin {<<>>, MALFORMED}
                      \/ /\ cmd'.stage = "get" /\ cmd.req.fmt = "GETLIST_SETLIST"
                         /\ cmd.req.get \notin {<<>>, MALFORMED}
  BY <1>1
<1>6. (LoopStep(after_set) /\ cmd.stage = "set") \/ (LoopStep(after_get) /\ cmd.stage = "get")
  BY <1>1, <1>2
<1>7. cmd.stage \in {"set", "get"} /\ TypeOK' /\ StoreInv'
  BY <1>1
<1> QED
  BY <1>4, <1>5, <1>6, <1>7, LoopKeeps

LEMMA GetAttributesStepKeeps == ASSUME TargetInv, get_attributes PROVE TargetInv'
<1>1. /\ TypeOK' /\ StoreInv' /\ \E o \in Objects : Attributed(cmd.pid, o)
      /\ cmd.stage = "get" /\ LoopStep(after_get)
      /\ txn' # NoTxn => /\ cmd'.stage = "get" /\ cmd.req.fmt = "GETLIST_SETLIST"
                         /\ cmd.req.get \notin {<<>>, MALFORMED}
  BY GetStep DEF TargetInv
<1>2. PICK o \in Objects : Attributed(cmd.pid, o)
  BY <1>1
<1> QED
  BY <1>1, <1>2, LoopKeeps

LEMMA FinishKeeps == ASSUME TargetInv, finish PROVE TargetInv'
<1>1. txn' = NoTxn /\ UNCHANGED vars
  BY NoOpenTxn DEF finish, TargetInv
<1>2. TypeOK' /\ StoreInv'
  BY <1>1, ObjectsKept DEF TargetInv, vars, TypeOK
<1>3. cmd' \in IdleCmd
  BY DEF finish, Idle, IdleCmd, Sense
<1> QED
  BY <1>1, <1>2, <1>3, IsOver

-----------------------------------------------------------------------------
(* Removals                                                                   *)

(* A command at its removal, whatever its kind, is about one object.          *)
LEMMA AtRemoval ==
    ASSUME CmdOK, cmd.stage \in {"remove", "undo"}
    PROVE  /\ cmd.pid \in Pid /\ cmd.i \in Oid /\ cmd.oid \in Oid
           /\ cmd.stage = "remove" => cmd.i = cmd.oid
           /\ cmd.op = "OSD_REMOVE_PARTITION" => cmd.oid = PARTITION_OID
<1>1. CASE cmd \in RemoveCmd /\ cmd.i = cmd.oid
  BY <1>1 DEF RemoveCmd
<1>2. CASE ~(cmd \in RemoveCmd /\ cmd.i = cmd.oid)
  <2>1. /\ cmd \in AttrCmd /\ Objects \subseteq Oid /\ cmd.i \in Objects
        /\ cmd.op \notin Creating => cmd.n = 1
        /\ cmd.op = "OSD_REMOVE_PARTITION" => cmd.oid = PARTITION_OID
        /\ cmd.stage = "remove" => cmd.op \in Removing
    BY <1>2 DEF CmdOK, IdleCmd
  <2>2. cmd.pid \in Pid /\ cmd.oid \in Oid /\ cmd.oid \in Nat /\ cmd.n \in Nat /\ cmd.i \in Nat
    BY <2>1, Inputs DEF AttrCmd
  <2>3. cmd.stage = "remove" => cmd.i = cmd.oid
    BY <2>1, <2>2 DEF Objects, Removing, Creating
  <2> QED
    BY <2>1, <2>2, <2>3
<1> QED
  BY <1>1, <1>2

LEMMA RemoveStepKeeps == ASSUME TargetInv, remove PROVE TargetInv'
<1>0. cmd.pid \in Pid /\ cmd.oid \in Oid /\ cmd.stage = "remove"
  BY AtRemoval DEF TargetInv, remove
<1>1. txn' = NoTxn
  BY <1>0, NoOpenTxn DEF remove, TargetInv
<1>2. TypeOK' /\ StoreInv'
  BY <1>0, RemoveType, RemoveKeeps, RemovePartitionType, RemovePartitionKeeps,
     RemoveCollectionType, RemoveCollectionKeeps DEF remove, TargetInv
<1>3. cmd' \in IdleCmd
  BY <1>2 DEF remove, Idle, IdleCmd, TypeOK
<1> QED
  BY <1>1, <1>2, <1>3, IsOver

LEMMA UndoKeeps == ASSUME TargetInv, out_remove_obj PROVE TargetInv'
<1>0. cmd.pid \in Pid /\ cmd.i \in Oid /\ cmd.stage = "undo"
  BY AtRemoval DEF TargetInv, out_remove_obj
<1>1. txn = NoTxn /\ txn' = NoTxn
  BY <1>0, NoOpenTxn DEF out_remove_obj, TargetInv
<1>2. TypeOK' /\ StoreInv'
  BY <1>0, RemoveType, RemoveKeeps DEF out_remove_obj, TargetInv
<1>3. /\ cmd \in AttrCmd /\ Objects \subseteq Oid /\ cmd.i \in Objects /\ cmd.k >= 1
      /\ cmd.oid \in Nat /\ cmd.n \in Nat /\ cmd.i \in Nat
      /\ Objects = cmd.oid .. cmd.oid + cmd.n - 1
      /\ cmd.op \in {"OSD_CREATE_PARTITION", "OSD_REMOVE_PARTITION"} =>
           cmd.oid = PARTITION_OID /\ cmd.n = 1
  BY <1>0, InLoop DEF TargetInv
<1>4. CASE last_object /\ Idle(cmd.ret, cmd.ret)
  <2>1. cmd' \in IdleCmd
    BY <1>3, <1>4 DEF Idle, IdleCmd, AttrCmd
  <2> QED
    BY <1>1, <1>2, <2>1, IsOver
<1>5. CASE ~last_object /\ cmd' = [cmd EXCEPT !.i = @ + 1]
  <2>1. cmd.i + 1 \in Objects
    BY <1>3, <1>5 DEF last_object
  <2>2. /\ cmd' \in AttrCmd /\ cmd'.i = cmd.i + 1 /\ cmd'.k = cmd.k /\ cmd'.stage = "undo"
        /\ cmd'.op = cmd.op /\ cmd'.pid = cmd.pid /\ cmd'.oid = cmd.oid /\ cmd'.n = cmd.n
        /\ cmd'.before = cmd.before
    BY <1>0, <1>3, <1>5, <2>1 DEF AttrCmd
  <2>3. Objects' = Objects
    BY <2>2 DEF Objects
  <2>4. cmd.op \in Creating
    BY <1>0 DEF TargetInv, CmdOK, IdleCmd, RemoveCmd
  <2>5. CmdOK' /\ BeforeOK'
    BY <1>0, <1>3, <2>1, <2>2, <2>3, <2>4 DEF TargetInv, CmdOK, BeforeOK
  <2> QED
    BY <1>1, <1>2, <2>5 DEF TargetInv, TxnOK
<1> QED
  BY <1>4, <1>5 DEF out_remove_obj

-----------------------------------------------------------------------------
(* The process dies                                                           *)

(* After a restart only the tables and the files matter.                      *)
LEMMA Restarted ==
    ASSUME TypeOK, restart, obj' \in [Pid -> [Oid -> RowType]], attr' \subseteq Pid \X Oid \X Attrs,
           coll' \subseteq Pid \X Oid \X Oid \X (CollPtrs \cup {0}), dfile' \subseteq Pid \X Oid,
           StoreInv'
    PROVE  TargetInv'
<1>1. NoCcap \in [obj_type : RowType, pid : Pid, oid : Oid]
  BY Inputs DEF NoCcap, RowType
<1>2. NoCache \in [cur_pid : Pid, next_id : 0 .. MaxOid + 1]
  BY Inputs DEF NoCache
<1>3. TypeOK'
  BY <1>1, <1>2 DEF restart, TypeOK, Sense
<1>4. cmd' \in IdleCmd /\ txn' = NoTxn
  BY DEF restart, NoCmd, IdleCmd, Sense
<1> QED
  BY <1>3, <1>4, IsOver

LEMMA CrashKeeps == ASSUME TargetInv, crash PROVE TargetInv'
<1>1. obj' = obj /\ coll' = coll /\ attr' \subseteq attr
  BY DEF crash, TargetInv, TxnOK, tables
<1>2. StoreInv'
  BY <1>1, ObjectsKept DEF crash, restart, TargetInv
<1> QED
  BY <1>1, <1>2, Restarted DEF crash, TargetInv, TypeOK

LEMMA CrashInCreateKeeps ==
    ASSUME TargetInv, NEW p \in Pid, NEW r \in Oid, NEW numoid \in Nat, crash_in_create(p, r, numoid)
    PROVE  TargetInv'
<1> DEFINE n == IF numoid = 0 THEN 1 ELSE numoid
<1>n. n \in Nat
  OBVIOUS
<1> HIDE DEF n
<1>1. PICK oid \in Oid, k \in 1 .. n : oid + n - 1 \in Oid /\ dfile' = osd_create_datafile(p, oid, k)
  BY DEF crash_in_create, n
<1>2. oid .. oid + k - 1 \subseteq Oid
  BY <1>n, <1>1, Inputs DEF Oid
<1>3. dfile' \subseteq Pid \X Oid
  BY <1>1, <1>2 DEF osd_create_datafile, TargetInv, TypeOK
<1>4. obj' = obj /\ coll' = coll /\ attr' = attr
  BY DEF crash_in_create, tables
<1>5. StoreInv'
  BY <1>4, ObjectsKept DEF crash_in_create, restart, TargetInv
<1> QED
  BY <1>3, <1>4, <1>5, Restarted DEF crash_in_create, TargetInv, TypeOK

LEMMA CrashInRemoveKeeps == ASSUME TargetInv, crash_in_remove PROVE TargetInv'
<1>1. obj' = obj /\ restart
  BY DEF crash_in_remove
<1>2. attr' \subseteq attr /\ coll' \subseteq coll /\ dfile' \subseteq dfile
  BY DEF crash_in_remove, attr_delete_all, coll_delete_oid, coll_delete_cid
<1>3. StoreInv'
  BY <1>1, <1>2, ObjectsKept DEF restart, TargetInv
<1> QED
  BY <1>1, <1>2, <1>3, Restarted DEF TargetInv, TypeOK

-----------------------------------------------------------------------------
LEMMA SubmitKeeps == ASSUME TargetInv, Submit PROVE TargetInv'
<1>0. 0 .. MaxNumOid \subseteq Nat /\ PARTITION_OID \in Oid
  BY IdAssumption, Inputs DEF PARTITION_OID
<1>1. ASSUME NEW p \in PidInput, NEW r \in OidInput, NEW n \in 0 .. MaxNumOid, NEW req \in Requests,
             cdb_create(p, r, n, req)
      PROVE  TargetInv'
  BY <1>0, <1>1, Inputs, CdbCreateKeeps
<1>2. ASSUME NEW p \in PidInput, NEW r \in OidInput, NEW req \in Requests,
             cdb_create_collection(p, r, req)
      PROVE  TargetInv'
  BY <1>2, Inputs, CdbCreateCollectionKeeps
<1>3. ASSUME NEW r \in PidInput, NEW req \in Requests, cdb_create_partition(r, req)
      PROVE  TargetInv'
  BY <1>3, Inputs, CdbCreatePartitionKeeps
<1>4. ASSUME NEW p \in PidInput, NEW o \in OidInput, NEW req \in Requests,
             NEW op \in {"OSD_REMOVE", "OSD_SET_ATTRIBUTES", "OSD_GET_ATTRIBUTES"},
             cdb_remove(op, p, o, req) \/ attributes_command(op, p, o, req)
      PROVE  TargetInv'
  <2>1. op \in Operations /\ op \notin Creating /\ op # "OSD_REMOVE_PARTITION"
    BY <1>4 DEF Operations, Creating, Removing
  <2> QED
    BY <1>4, <2>1, Inputs, LaterCommandsKeep
<1>5. ASSUME NEW p \in PidInput, NEW req \in Requests,
             cdb_remove("OSD_REMOVE_PARTITION", p, PARTITION_OID, req)
      PROVE  TargetInv'
  <2>1. "OSD_REMOVE_PARTITION" \in Operations /\ "OSD_REMOVE_PARTITION" \notin Creating
    BY DEF Operations, Creating, Removing
  <2> QED
    BY <1>0, <1>5, <2>1, Inputs, LaterCommandsKeep
<1>6. ASSUME NEW p \in PidInput, NEW c \in OidInput, NEW fcr \in {0, 1},
             remove_collection_command(p, c, fcr)
      PROVE  TargetInv'
  BY <1>6, Inputs, RemoveCollectionCommandKeeps
<1> QED
  BY <1>1, <1>2, <1>3, <1>4, <1>5, <1>6 DEF Submit

LEMMA TNextKeeps == ASSUME TargetInv, [TNext]_tvars PROVE TargetInv'
<1>0. 0 .. MaxNumOid \subseteq Nat
  BY IdAssumption
<1>1. CASE UNCHANGED tvars
  BY <1>1 DEF tvars, vars, TargetInv, TypeOK, StoreInv, IdCacheSound, Contained, AttrsOwned,
              obj_ispresent, CmdOK, TxnOK, BeforeOK, Objects
<1>2. CASE Submit
  BY <1>2, SubmitKeeps
<1>3. CASE Serve
  BY <1>3, SetAttributesStepKeeps, GetAttributesStepKeeps, FinishKeeps, RemoveStepKeeps, UndoKeeps
     DEF Serve
<1>4. CASE Crash
  BY <1>0, <1>4, Inputs, CrashKeeps, CrashInRemoveKeeps, CrashInCreateKeeps DEF Crash
<1> QED
  BY <1>1, <1>2, <1>3, <1>4 DEF TNext

(* Whatever commands are served, and wherever the process dies: the tables     *)
(* keep their types, containment and ownership, the loops stay among the        *)
(* objects of their command, and an open transaction holds nothing but          *)
(* attribute rows over what it would be rolled back to.                         *)
THEOREM TargetSafe == TSpec => []TargetInv
<1>1. TInit => TargetInv
  BY InitType, InitSafe DEF TInit, TargetInv, CmdOK, TxnOK, BeforeOK, IdleCmd, NoCmd, Sense
<1>2. TargetInv /\ [TNext]_tvars => TargetInv'
  BY TNextKeeps
<1> QED
  BY <1>1, <1>2, PTL DEF TSpec

(* Through the command layer too, crashes included, every collection and user  *)
(* object lies in a partition that exists.                                      *)
THEOREM TargetContained == TSpec => []Contained
<1>1. TargetInv => Contained
  BY DEF TargetInv, StoreInv
<1> QED
  BY <1>1, TargetSafe, PTL

(* And no attribute outlives its object.                                       *)
THEOREM TargetAttrsOwned == TSpec => []AttrsOwned
<1>1. TargetInv => AttrsOwned
  BY DEF TargetInv, StoreInv
<1> QED
  BY <1>1, TargetSafe, PTL

-----------------------------------------------------------------------------
(* What is lost in a step                                                     *)

\* Rows go from one object only.
LosesOnly(p, o) ==
    /\ \A q \in Pid, x \in Oid : obj_ispresent(q, x) => obj_ispresent(q, x)' \/ (q = p /\ x = o)
    /\ \A r \in attr : r \in attr' \/ (r[1] = p /\ r[2] = o)

LosesNothing ==
    /\ \A q \in Pid, x \in Oid : obj_ispresent(q, x) => obj_ispresent(q, x)'
    /\ attr \subseteq attr'

\* The step formula of CompletedWorkSurvives.
Survives ==
    \A p \in Pid, o \in Oid :
        /\ obj_ispresent(p, o) /\ ~obj_ispresent(p, o)' =>
             /\ Named(p, o)
             /\ cmd.stage = "undo" => cmd.before.obj[p][o] = "ILLEGAL_OBJ"
        /\ \A a \in Attrs : <<p, o, a>> \in attr \ attr' =>
             Named(p, o) \/ (cmd.stage # "idle" /\ <<p, o, a>> \notin cmd.before.attr)

LEMMA NothingLost == LosesNothing => Survives
BY DEF LosesNothing, Survives

(* A removal of the object that the command names.                            *)
LEMMA NamedLost ==
    ASSUME TargetInv, cmd.stage \in {"remove", "undo"}, LosesOnly(cmd.pid, cmd.i)
    PROVE  Survives
<1>1. cmd.stage = "undo" => cmd.before.obj[cmd.pid][cmd.i] = "ILLEGAL_OBJ"
  <2>1. cmd.stage = "undo" => cmd.op \in Creating /\ cmd.i \in Objects
    BY DEF TargetInv, CmdOK, IdleCmd, RemoveCmd
  <2> QED
    BY <2>1 DEF TargetInv, BeforeOK
<1>2. ASSUME NEW p \in Pid, NEW o \in Oid, obj_ispresent(p, o), ~obj_ispresent(p, o)'
      PROVE  Named(p, o) /\ (cmd.stage = "undo" => cmd.before.obj[p][o] = "ILLEGAL_OBJ")
  BY <1>1, <1>2 DEF LosesOnly, Named
<1>3. ASSUME NEW p \in Pid, NEW o \in Oid, NEW a \in Attrs, <<p, o, a>> \in attr \ attr'
      PROVE  Named(p, o)
  <2>1. <<p, o, a>>[1] = cmd.pid /\ <<p, o, a>>[2] = cmd.i
    BY <1>3 DEF LosesOnly
  <2> QED
    BY <2>1 DEF Named
<1> QED
  BY <1>2, <1>3 DEF Survives

(* Deleting a row, or the attribute rows, of an object touches no other.      *)
LEMMA DeletionLoses ==
    ASSUME TypeOK, NEW p \in Pid, NEW o \in Oid, obj' \in {obj, obj_delete(p, o)},
           attr' \in {attr, attr_delete_all(p, o)}
    PROVE  LosesOnly(p, o)
<1>1. \A q \in Pid, x \in Oid : obj'[q][x] = obj[q][x] \/ (q = p /\ x = o)
  BY DeleteRow DEF TypeOK
<1>2. \A r \in attr : r \in attr' \/ (r[1] = p /\ r[2] = o)
  BY DEF attr_delete_all
<1> QED
  BY <1>1, <1>2 DEF LosesOnly, obj_ispresent

LEMMA RemovalLoses ==
    ASSUME TypeOK, NEW p \in Pid, NEW o \in Oid, NEW fcr,
           \/ osd_remove(p, o)
           \/ osd_remove_collection(p, o, fcr)
           \/ osd_remove_partition(p) /\ o = PARTITION_OID
    PROVE  LosesOnly(p, o)
<1>1. obj' \in {obj, obj_delete(p, o)} /\ attr' \in {attr, attr_delete_all(p, o)}
  <2>1. CASE osd_remove(p, o)
    BY <2>1 DEF osd_remove, Rejected, tables
  <2>2. CASE osd_remove_collection(p, o, fcr)
    BY <2>2 DEF osd_remove_collection, Rejected, tables
  <2>3. CASE osd_remove_partition(p) /\ o = PARTITION_OID
    BY <2>3 DEF osd_remove_partition, Rejected, tables
  <2> QED
    BY <2>1, <2>2, <2>3
<1> QED
  BY <1>1, DeletionLoses

(* A creation that is undone inside osd_create takes nothing with it: the      *)
(* objects it removes again had no row, so no attribute either.                *)
LEMMA CreationLosesNothing ==
    ASSUME TypeOK, StoreInv, NEW p \in Pid, NEW r, NEW numoid, osd_create(p, r, numoid)
    PROVE  LosesNothing
<1> DEFINE n == IF numoid = 0 THEN 1 ELSE numoid
<1>1. CASE UNCHANGED tables
  BY <1>1 DEF tables, LosesNothing, obj_ispresent
<1>2. ASSUME NEW oid \in Oid, create_objects(p, r, oid, n)
      PROVE  LosesNothing
  <2>1. "USEROBJECT" \in RowType
    BY DEF RowType, ObjType
  <2> HIDE DEF n
  <2>2. \A q \in Pid, x \in Oid :
          obj'[q][x] = IF q = p /\ x \in oid .. oid + n - 1 THEN "USEROBJECT" ELSE obj[q][x]
    BY <1>2, <2>1, InsertRows DEF create_objects, TypeOK
  <2> QED
    BY <1>2, <2>2 DEF create_objects, LosesNothing, obj_ispresent
<1>3. ASSUME NEW oid \in Oid, NEW bad, ~bad_target(p, r), create_undone(p, oid, n, bad)
      PROVE  LosesNothing
  <2>1. obj_ispresent(p, PARTITION_OID)
    BY <1>3 DEF bad_target
  <2>2. \A o \in oid .. bad - 1 : ~obj_ispresent(p, o)
    BY <1>3 DEF create_undone, creatable
  <2>3. \A x \in attr : ~(x[1] = p /\ x[2] \in oid .. bad - 1)
    BY <2>1, <2>2 DEF StoreInv, AttrsOwned
  <2>4. attr' = attr
    BY <1>3, <2>3 DEF create_undone, osd_remove_tmp_objects
  <2>5. \A q \in Pid, x \in Oid : obj'[q][x] = obj[q][x] \/ obj'[q][x] = "USEROBJECT"
    BY <1>3 DEF create_undone, TypeOK
  <2> QED
    BY <2>4, <2>5 DEF LosesNothing, obj_ispresent
<1>4. CASE Rejected("ILLEGAL_REQUEST") \/ nextoid_failed(p, r)
  BY <1>1, <1>4 DEF Rejected, nextoid_failed
<1> QED
  BY <1>2, <1>3, <1>4 DEF osd_create

(* Nor does any other command that creates.                                   *)
LEMMA OtherCreationsLoseNothing ==
    ASSUME TypeOK, NEW p \in Pid, NEW r, osd_create_collection(p, r) \/ osd_create_partition(r)
    PROVE  LosesNothing
<1>1. CASE UNCHANGED <<obj, attr>>
  BY <1>1 DEF LosesNothing, obj_ispresent
<1>2. ASSUME NEW q \in Pid, NEW oid, NEW type \in {"COLLECTION", "PARTITION"},
             obj' = obj_insert(q, oid, 1, type), attr' = attr
      PROVE  LosesNothing
  <2>1. type \in RowType
    BY DEF RowType, ObjType
  <2>2. \A x \in Pid, y \in Oid :
          obj'[x][y] = IF x = q /\ y \in oid .. oid + 1 - 1 THEN type ELSE obj[x][y]
    BY <1>2, <2>1, InsertRows DEF TypeOK
  <2> QED
    BY <1>2, <2>2 DEF LosesNothing, obj_ispresent
<1>3. CASE osd_create_collection(p, r)
  BY <1>1, <1>2, <1>3 DEF osd_create_collection, insert_collection, Rejected, nextoid_failed, tables
<1>4. CASE osd_create_partition(r)
  BY <1>1, <1>2, <1>4 DEF osd_create_partition, Rejected, tables
<1> QED
  BY <1>3, <1>4

LEMMA KeptLosesNothing == ASSUME UNCHANGED obj, attr \subseteq attr' PROVE LosesNothing
BY DEF LosesNothing, obj_ispresent

LEMMA SubmitSurvives == ASSUME TargetInv, Submit PROVE Survives
<1>0. TypeOK /\ StoreInv
  BY DEF TargetInv
<1>1. ASSUME NEW p \in Pid, NEW r, NEW n, NEW req, cdb_create(p, r, n, req)
      PROVE  LosesNothing
  BY <1>0, <1>1, CreationLosesNothing, KeptLosesNothing DEF cdb_create, Rejected, tables
<1>2. ASSUME NEW p \in Pid, NEW r, NEW req, cdb_create_collection(p, r, req)
      PROVE  LosesNothing
  BY <1>0, <1>2, OtherCreationsLoseNothing DEF cdb_create_collection
<1>3. ASSUME NEW r, NEW req, cdb_create_partition(r, req)
      PROVE  LosesNothing
  BY <1>0, <1>3, Inputs, OtherCreationsLoseNothing DEF cdb_create_partition
<1>4. ASSUME UNCHANGED vars PROVE LosesNothing
  BY <1>4, KeptLosesNothing DEF vars
<1>5. ASSUME NEW op, NEW p, NEW o, NEW req, cdb_remove(op, p, o, req) \/ attributes_command(op, p, o, req)
      PROVE  UNCHANGED vars
  BY <1>5 DEF cdb_remove, attributes_command
<1>6. ASSUME NEW p, NEW c, NEW fcr, remove_collection_command(p, c, fcr)
      PROVE  UNCHANGED vars
  BY <1>6 DEF remove_collection_command
<1>7. LosesNothing
  BY <1>1, <1>2, <1>3, <1>4, <1>5, <1>6, Inputs DEF Submit
<1> QED
  BY <1>7, NothingLost

LEMMA ServeSurvives == ASSUME TargetInv, Serve PROVE Survives
<1>1. CASE set_attributes
  <2>1. Attributed(cmd.pid, cmd.i)
    BY <1>1, SetStep DEF TargetInv
  <2> QED
    BY <2>1, KeptLosesNothing, NothingLost DEF Attributed
<1>2. CASE get_attributes
  <2>1. \E o \in Objects : Attributed(cmd.pid, o)
    BY <1>2, GetStep DEF TargetInv
  <2> QED
    BY <2>1, KeptLosesNothing, NothingLost DEF Attributed
<1>3. CASE finish
  BY <1>3, KeptLosesNothing, NothingLost DEF finish, vars
<1>4. CASE remove
  <2>1. /\ cmd.pid \in Pid /\ cmd.oid \in Oid /\ cmd.i = cmd.oid /\ cmd.stage = "remove"
        /\ cmd.op = "OSD_REMOVE_PARTITION" => cmd.oid = PARTITION_OID
    BY <1>4, AtRemoval DEF remove, TargetInv
  <2>2. \/ osd_remove(cmd.pid, cmd.oid)
        \/ osd_remove_collection(cmd.pid, cmd.oid, cmd.fcr)
        \/ osd_remove_partition(cmd.pid) /\ cmd.oid = PARTITION_OID
    BY <1>4, <2>1 DEF remove
  <2>3. LosesOnly(cmd.pid, cmd.i)
    BY <2>1, <2>2, RemovalLoses DEF TargetInv
  <2> QED
    BY <2>1, <2>3, NamedLost
<1>5. CASE out_remove_obj
  <2>1. cmd.pid \in Pid /\ cmd.i \in Oid /\ cmd.stage = "undo" /\ osd_remove(cmd.pid, cmd.i)
    BY <1>5, AtRemoval DEF out_remove_obj, TargetInv
  <2>2. LosesOnly(cmd.pid, cmd.i)
    BY <2>1, RemovalLoses DEF TargetInv
  <2> QED
    BY <2>1, <2>2, NamedLost
<1> QED
  BY <1>1, <1>2, <1>3, <1>4, <1>5 DEF Serve

LEMMA CrashSurvives == ASSUME TargetInv, Crash PROVE Survives
<1>1. CASE crash
  <2>1. CASE txn = NoTxn
    BY <1>1, <2>1, KeptLosesNothing, NothingLost DEF crash, tables
  <2>2. CASE txn # NoTxn
    <3>1. obj' = obj /\ cmd.stage # "idle" /\ cmd.before.attr \subseteq attr'
      BY <1>1, <2>2 DEF crash, TargetInv, TxnOK
    <3> QED
      BY <3>1 DEF Survives, obj_ispresent
  <2> QED
    BY <2>1, <2>2
<1>2. CASE crash_in_remove
  <2>0. cmd.stage \in {"remove", "undo"}
    BY <1>2 DEF crash_in_remove
  <2>1. cmd.pid \in Pid /\ cmd.i \in Oid
    BY <2>0, AtRemoval DEF TargetInv
  <2>2. cmd.op = "OSD_REMOVE_PARTITION" /\ cmd.stage = "remove" => cmd.i = PARTITION_OID
    BY <2>0, AtRemoval DEF TargetInv
  <2>3. obj' = obj /\ attr' \in {attr, attr_delete_all(cmd.pid, cmd.i)}
    BY <1>2, <2>2 DEF crash_in_remove
  <2>4. LosesOnly(cmd.pid, cmd.i)
    BY <2>1, <2>3, DeletionLoses DEF TargetInv
  <2> QED
    BY <2>0, <2>4, NamedLost
<1>3. ASSUME NEW p, NEW r, NEW n, crash_in_create(p, r, n) PROVE Survives
  BY <1>3, KeptLosesNothing, NothingLost DEF crash_in_create, tables
<1> QED
  BY <1>1, <1>2, <1>3 DEF Crash

(* What commands have completed survives every later command, every failure    *)
(* and every crash: an object goes only when a removal names it, an undo names *)
(* only what its own command made, and an attribute goes only with its object  *)
(* or with the open transaction of the command that was setting it             *)
(* (cdb.c:122-133, out_remove_obj).                                            *)
THEOREM WorkSurvives == TSpec => CompletedWorkSurvives
<1>1. TargetInv /\ [TNext]_tvars => [Survives]_tvars
  BY SubmitSurvives, ServeSurvives, CrashSurvives DEF TNext
<1>2. TSpec => [][Survives]_tvars
  BY <1>1, TargetSafe, PTL DEF TSpec
<1> QED
  BY <1>2 DEF CompletedWorkSurvives, Survives
=============================================================================
