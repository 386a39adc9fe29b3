-------------------------- MODULE OsdCreateProofs ---------------------------
(***************************************************************************)
(* What the commands that create deliver, and what they leave behind when     *)
(* their attributes are refused: proofs about cdb_create, cdb_create_collection *)
(* and cdb_create_partition, from the handler to the reply.                    *)
(***************************************************************************)
EXTENDS OsdTargetProofs, OsdFaultFreeProofs

-----------------------------------------------------------------------------
(* The invariants                                                             *)

\* Until the undo of a creating command begins, the objects are those of
\* before and the new ones, and the page names the last of these.
MadeOK ==
    cmd.stage \in {"set", "get", "finish"} /\ cmd.op \in Creating =>
        /\ \A p \in Pid, o \in Oid :
             obj[p][o] = IF p = cmd.pid /\ o \in Objects THEN CreatedType(cmd.op)
                         ELSE cmd.before.obj[p][o]
        /\ ccap = [obj_type |-> CreatedType(cmd.op), pid |-> cmd.pid, oid |-> cmd.oid + cmd.n - 1]

\* How far the loop over the attributes to set has come.
SetSoFar ==
    cmd.stage \in {"set", "get", "finish"} /\ cmd.op \in Creating =>
        /\ cmd.stage = "set" /\ cmd.req.set # <<>> => cmd.k <= Len(cmd.req.set)
        /\ \A k \in 1 .. Len(cmd.req.set), o \in Objects :
             cmd.stage # "set" \/ k < cmd.k \/ (k = cmd.k /\ o < cmd.i)
             => <<cmd.pid, o, cmd.req.set[k]>> \in attr

DeliverInv == MadeOK /\ SetSoFar

-----------------------------------------------------------------------------
(* The loops                                                                  *)

\* The command is still the same one.
SameCommand ==
    /\ cmd'.op = cmd.op /\ cmd'.pid = cmd.pid /\ cmd'.oid = cmd.oid /\ cmd'.n = cmd.n
    /\ cmd'.req = cmd.req /\ cmd'.before = cmd.before

(* A loop goes on with its command, or the command is over, or undone.        *)
LEMMA SameInLoop ==
    ASSUME cmd \in AttrCmd, NEW stage, LoopStep(stage)
    PROVE  \/ cmd'.stage = "idle"
           \/ cmd'.stage = "undo" /\ SameCommand /\ cmd'.i = cmd.oid
           \/ /\ SameCommand
              /\ \/ cmd'.stage = cmd.stage /\ cmd'.k = cmd.k /\ cmd'.i = cmd.i + 1
                 \/ cmd'.stage = cmd.stage /\ cmd'.k = cmd.k + 1 /\ cmd'.i = cmd.oid
                 \/ cmd'.stage = stage /\ cmd'.k = 1 /\ cmd'.i = cmd.oid
<1>1. ASSUME NEW s, failed(s)
      PROVE  cmd'.stage = "idle" \/ (cmd'.stage = "undo" /\ SameCommand /\ cmd'.i = cmd.oid)
  <2>1. CASE cmd' = [cmd EXCEPT !.stage = "undo", !.i = cmd.oid, !.ret = s]
    BY <2>1 DEF SameCommand, AttrCmd
  <2>2. CASE Idle(s, s)
    BY <2>2 DEF Idle
  <2> QED
    BY <1>1, <2>1, <2>2 DEF failed
<1>2. CASE cmd' = [cmd EXCEPT !.i = @ + 1]
  BY <1>2 DEF SameCommand, AttrCmd
<1>3. CASE cmd' = [cmd EXCEPT !.i = cmd.oid, !.k = @ + 1]
  BY <1>3 DEF SameCommand, AttrCmd
<1>4. CASE next_stage(stage)
  BY <1>4 DEF next_stage, SameCommand, AttrCmd
<1> QED
  BY <1>1, <1>2, <1>3, <1>4 DEF LoopStep

(* While the objects and the page are left alone, MadeOK stays.               *)
LEMMA MadeKept ==
    ASSUME MadeOK, cmd.stage \in {"set", "get", "finish"}, SameCommand, UNCHANGED <<obj, ccap>>
    PROVE  MadeOK'
<1>1. Objects' = Objects
  BY DEF SameCommand, Objects
<1> QED
  BY <1>1 DEF MadeOK, SameCommand

(* An attribute that was set has its row.                                     *)
LEMMA SetRow ==
    ASSUME NEW p, NEW o, NEW a, osd_set_attributes(p, o, a, "VALUE", TRUE), sense' = "OSD_OK"
    PROVE  <<p, o, a>> \in attr'
<1>1. ~Rejected("ILLEGAL_REQUEST") /\ ~Rejected("PARAM_LIST") /\ ~Rejected("HARDWARE_ERROR")
  BY DEF Rejected
<1>2. attr' = attr \cup {<<p, o, a>>}
  BY <1>1 DEF osd_set_attributes
<1> QED
  BY <1>2

LEMMA SetAdds ==
    ASSUME set_attributes, sense' = "OSD_OK", cmd.req.set # <<>>
    PROVE  <<cmd.pid, cmd.i, cmd.req.set[cmd.k]>> \in attr'
<1>1. ~refuse_list(IF cmd.req.fmt = "GETFIELD_SETVALUE" THEN "ILLEGAL_REQUEST" ELSE "PARAM_LIST")
  BY DEF refuse_list, Rejected
<1>2. osd_set_attributes(cmd.pid, cmd.i, cmd.req.set[cmd.k], "VALUE", TRUE)
  BY <1>1 DEF set_attributes, set_attr_list
<1> QED
  BY <1>2, SetRow

(* A CDB without an empty list has at least one element in it.                *)
LEMMA ListLen ==
    ASSUME NEW req \in Requests
    PROVE  Len(req.set) \in Nat /\ (req.set # <<>> => Len(req.set) >= 1)
<1>1. req.set \in Seq(Attrs \cup {"READ_ONLY"}) \cup {MALFORMED}
  BY RequestAssumption
<1>2. Len(MALFORMED) = 1
  BY DEF MALFORMED
<1>3. ASSUME NEW S, NEW s \in Seq(S) PROVE Len(s) \in Nat /\ (s # <<>> => Len(s) >= 1)
  BY <1>3
<1> QED
  BY <1>1, <1>2, <1>3

LEMMA SetDelivers ==
    ASSUME TargetInv, DeliverInv, set_attributes
    PROVE  DeliverInv'
<1>1. /\ Attributed(cmd.pid, cmd.i) /\ cmd.stage = "set" /\ GoesOn(cmd.req.set, after_set)
  BY SetStep DEF TargetInv
<1>2. /\ cmd \in AttrCmd /\ cmd.i \in Objects /\ cmd.k >= 1 /\ cmd.oid \in Nat /\ cmd.n \in Nat
      /\ cmd.i \in Nat /\ Objects = cmd.oid .. cmd.oid + cmd.n - 1
  BY <1>1, InLoop DEF TargetInv
<1>3. cmd.k \in Nat /\ cmd.req \in Requests
  BY <1>2 DEF AttrCmd
<1>4. Len(cmd.req.set) \in Nat /\ (cmd.req.set # <<>> => Len(cmd.req.set) >= 1)
  BY <1>3, ListLen
<1>5. LoopStep(after_set)
  BY <1>1, LoopSteps
<1>6. UNCHANGED <<obj, ccap>> /\ attr \subseteq attr'
  BY <1>1 DEF Attributed
<1>7. CASE cmd'.stage \in {"idle", "undo"}
  BY <1>7 DEF DeliverInv, MadeOK, SetSoFar
<1>8. CASE cmd.op \notin Creating /\ SameCommand
  BY <1>8 DEF DeliverInv, MadeOK, SetSoFar, SameCommand
<1>9. CASE cmd.op \in Creating /\ SameCommand
  <2>1. MadeOK' /\ Objects' = Objects
    BY <1>1, <1>6, <1>9, MadeKept DEF DeliverInv, SameCommand, Objects
  <2>2. /\ cmd.req.set # <<>> => cmd.k <= Len(cmd.req.set)
        /\ \A k \in 1 .. Len(cmd.req.set), o \in Objects :
             k < cmd.k \/ (k = cmd.k /\ o < cmd.i) => <<cmd.pid, o, cmd.req.set[k]>> \in attr
    BY <1>1, <1>9 DEF DeliverInv, SetSoFar
  <2>3. CASE cmd.req.set = <<>>
    BY <1>9, <2>1, <2>3 DEF SetSoFar, DeliverInv, SameCommand
  <2>4. CASE cmd.req.set # <<>> /\ sense' = "OSD_OK"
    <3>0. <<cmd.pid, cmd.i, cmd.req.set[cmd.k]>> \in attr'
      BY <2>4, SetAdds
    <3>1. ASSUME NEW k \in 1 .. Len(cmd.req.set), NEW o \in Objects,
                 k < cmd.k \/ (k = cmd.k /\ o <= cmd.i)
          PROVE  <<cmd.pid, o, cmd.req.set[k]>> \in attr'
      <4>1. CASE k = cmd.k /\ o = cmd.i
        BY <3>0, <4>1
      <4>2. CASE k < cmd.k \/ (k = cmd.k /\ o < cmd.i)
        BY <1>6, <2>2, <4>2
      <4> QED
        BY <1>2, <3>1, <4>1, <4>2
    <3>2. CASE ~last_object /\ cmd' = [cmd EXCEPT !.i = @ + 1]
      <4>1. cmd'.stage = "set" /\ cmd'.k = cmd.k /\ cmd'.i = cmd.i + 1
        BY <1>1, <1>2, <3>2 DEF AttrCmd
      <4>2. \A o \in Objects : o < cmd.i + 1 => o <= cmd.i
        BY <1>2
      <4>3. SetSoFar'
        BY <1>9, <2>1, <2>2, <3>1, <4>1, <4>2 DEF SetSoFar, SameCommand
      <4> QED
        BY <2>1, <4>3 DEF DeliverInv
    <3>3. CASE last_object /\ cmd.k < Len(cmd.req.set) /\ cmd' = [cmd EXCEPT !.i = cmd.oid, !.k = @ + 1]
      <4>1. cmd'.stage = "set" /\ cmd'.k = cmd.k + 1 /\ cmd'.i = cmd.oid
        BY <1>1, <1>2, <3>3 DEF AttrCmd
      <4>2. \A o \in Objects : o <= cmd.i /\ ~(o < cmd.oid)
        BY <1>2, <3>3 DEF last_object
      <4>3. \A k \in 1 .. Len(cmd.req.set) : k < cmd.k + 1 => k < cmd.k \/ k = cmd.k
        BY <1>3, <1>4
      <4>4. cmd.k + 1 <= Len(cmd.req.set)
        BY <1>3, <1>4, <3>3
      <4>5. SetSoFar'
        BY <1>9, <2>1, <3>1, <4>1, <4>2, <4>3, <4>4 DEF SetSoFar, SameCommand
      <4> QED
        BY <2>1, <4>5 DEF DeliverInv
    <3>4. CASE last_object /\ ~(cmd.k < Len(cmd.req.set)) /\ next_stage(after_set)
      <4>1. cmd'.stage = "get"
        BY <1>2, <1>9, <3>4 DEF next_stage, after_set, GetFirst, Creating, AttrCmd
      <4>2. \A o \in Objects : o <= cmd.i
        BY <1>2, <3>4 DEF last_object
      <4>3. \A k \in 1 .. Len(cmd.req.set) : k < cmd.k \/ k = cmd.k
        BY <1>3, <1>4, <2>2, <2>4, <3>4
      <4>4. SetSoFar'
        BY <1>9, <2>1, <3>1, <4>1, <4>2, <4>3 DEF SetSoFar, SameCommand
      <4> QED
        BY <2>1, <4>4 DEF DeliverInv
    <3>5. ASSUME NEW s, failed(s) PROVE DeliverInv'
      BY <1>7, <1>9, <3>5, <1>2 DEF failed, AttrCmd
    <3> QED
      BY <1>1, <2>4, <3>2, <3>3, <3>4, <3>5 DEF GoesOn
  <2>5. CASE cmd.req.set # <<>> /\ sense' # "OSD_OK"
    <3>1. \E s : failed(s)
      BY <1>1, <2>5 DEF GoesOn
    <3> QED
      BY <1>2, <1>7, <1>9, <3>1 DEF failed, AttrCmd
  <2> QED
    BY <2>3, <2>4, <2>5
<1> QED
  BY <1>2, <1>5, <1>7, <1>8, <1>9, SameInLoop

LEMMA GetDelivers ==
    ASSUME TargetInv, DeliverInv, get_attributes
    PROVE  DeliverInv'
<1>1. /\ \E o \in Objects : Attributed(cmd.pid, o)
      /\ cmd.stage = "get" /\ LoopStep(after_get)
  BY GetStep DEF TargetInv
<1>2. cmd \in AttrCmd
  BY <1>1, InLoop DEF TargetInv
<1>3. UNCHANGED <<obj, ccap>> /\ attr \subseteq attr'
  BY <1>1 DEF Attributed
<1>4. CASE cmd'.stage \in {"idle", "undo"}
  BY <1>4 DEF DeliverInv, MadeOK, SetSoFar
<1>5. CASE cmd.op \notin Creating /\ SameCommand
  BY <1>5 DEF DeliverInv, MadeOK, SetSoFar, SameCommand
<1>6. CASE cmd.op \in Creating /\ SameCommand /\ cmd'.stage \in {"get", after_get}
  <2>1. MadeOK' /\ Objects' = Objects
    BY <1>1, <1>3, <1>6, MadeKept DEF DeliverInv, SameCommand, Objects
  <2>2. cmd'.stage \in {"get", "finish"}
    BY <1>6 DEF after_get, GetFirst, Creating, Removing
  <2>3. SetSoFar'
    BY <1>1, <1>3, <1>6, <2>1, <2>2 DEF DeliverInv, SetSoFar, SameCommand
  <2> QED
    BY <2>1, <2>3 DEF DeliverInv
<1> QED
  BY <1>1, <1>2, <1>4, <1>5, <1>6, SameInLoop

-----------------------------------------------------------------------------
(* The beginnings                                                             *)

\* What the handler of a creating command has done when it reports success.
Made(op, p, o, n) ==
    /\ \A q \in Pid, x \in Oid :
         obj'[q][x] = IF q = p /\ x \in o .. o + n - 1 THEN CreatedType(op) ELSE obj[q][x]
    /\ ccap' = [obj_type |-> CreatedType(op), pid |-> p, oid |-> o + n - 1]

\* The ids were free and belong to the partition named, and nothing but the
\* objects' rows and files was touched.
Chosen(op, p, o, n) ==
    /\ \A x \in o .. o + n - 1 : ~obj_ispresent(p, x)
    /\ op # "OSD_CREATE_PARTITION" => \E r \in Oid : ~bad_target(p, r) /\ chosen_id(p, r, o)
    /\ attr' = attr /\ dfile' \subseteq dfile \cup ({p} \X (o .. o + n - 1))

LEMMA BeginsDelivering ==
    ASSUME NEW op, NEW p, NEW o \in Nat, NEW n \in Nat, NEW req \in Requests,
           begin_attributes(op, p, o, n, req, "set"), Made(op, p, o, n)
    PROVE  DeliverInv'
<1>1. /\ cmd'.oid = o /\ cmd'.n = n /\ cmd'.i = o /\ cmd'.k = 1 /\ cmd'.op = op /\ cmd'.pid = p
      /\ cmd'.stage = "set" /\ cmd'.before.obj = obj /\ cmd'.req = req
  BY DEF begin_attributes, Snapshot
<1>2. Objects' = o .. o + n - 1
  BY <1>1 DEF Objects
<1>3. MadeOK'
  BY <1>1, <1>2 DEF MadeOK, Made
<1>4. SetSoFar'
  <2>1. Len(req.set) \in Nat /\ (req.set # <<>> => Len(req.set) >= 1)
    BY ListLen
  <2>2. \A x \in o .. o + n - 1 : ~(x < o)
    OBVIOUS
  <2>3. \A k \in 1 .. Len(req.set) : ~(k < 1)
    BY <2>1
  <2> QED
    BY <1>1, <1>2, <2>1, <2>2, <2>3 DEF SetSoFar
<1> QED
  BY <1>3, <1>4 DEF DeliverInv

(* The three handlers.                                                        *)
LEMMA CreateMakes ==
    ASSUME TypeOK, NEW p \in Pid, NEW r, NEW oid \in Oid, NEW n, create_objects(p, r, oid, n)
    PROVE  Made("OSD_CREATE", p, oid, n)
<1>1. CreatedType("OSD_CREATE") = "USEROBJECT" /\ "USEROBJECT" \in RowType
  BY DEF CreatedType, RowType, ObjType
<1>2. \A q \in Pid, x \in Oid :
        obj'[q][x] = IF q = p /\ x \in oid .. oid + n - 1 THEN "USEROBJECT" ELSE obj[q][x]
  BY <1>1, InsertRows DEF create_objects, TypeOK
<1> QED
  BY <1>1, <1>2 DEF create_objects, fill_ccap, Made

LEMMA OtherMakes ==
    ASSUME TypeOK, NEW p \in Pid, NEW oid \in Oid,
           NEW op \in {"OSD_CREATE_COLLECTION", "OSD_CREATE_PARTITION"},
           obj' = obj_insert(p, oid, 1, CreatedType(op)),
           ccap' = [obj_type |-> CreatedType(op), pid |-> p, oid |-> oid]
    PROVE  Made(op, p, oid, 1)
<1>1. CreatedType(op) \in RowType
  BY DEF CreatedType, RowType, ObjType
<1>2. oid + 1 - 1 = oid
  BY Inputs
<1>3. \A q \in Pid, x \in Oid :
        obj'[q][x] = IF q = p /\ x \in oid .. oid + 1 - 1 THEN CreatedType(op) ELSE obj[q][x]
  BY <1>1, InsertRows DEF TypeOK
<1> QED
  BY <1>2, <1>3 DEF Made

(* A creating command that was accepted has its objects, and they are valid.  *)
LEMMA Accepted ==
    ASSUME TargetInv, cmd'.stage # "idle", NEW req \in Requests,
           \/ \E p \in PidInput, r \in OidInput, n \in 0 .. MaxNumOid : cdb_create(p, r, n, req)
           \/ \E p \in PidInput, r \in OidInput : cdb_create_collection(p, r, req)
           \/ \E r \in PidInput : cdb_create_partition(r, req)
    PROVE  \E op \in Creating, p \in Pid, o \in Oid, n \in Nat :
              begin_attributes(op, p, o, n, req, "set") /\ Made(op, p, o, n) /\ Chosen(op, p, o, n)
<1>0. \A s, t : ~Idle(s, t)
  BY DEF Idle
<1>1. ASSUME NEW p \in PidInput, NEW r \in OidInput, NEW numoid \in 0 .. MaxNumOid,
             cdb_create(p, r, numoid, req)
      PROVE  \E o \in Oid, n \in Nat :
                /\ begin_attributes("OSD_CREATE", p, o, n, req, "set")
                /\ Made("OSD_CREATE", p, o, n) /\ Chosen("OSD_CREATE", p, o, n)
  <2> DEFINE n == IF numoid = 0 THEN 1 ELSE numoid
  <2>0. numoid \in Nat /\ n \in Nat
    BY IdAssumption
  <2>1. /\ osd_create(p, r, numoid) /\ sense' = "OSD_OK"
        /\ begin_attributes("OSD_CREATE", p, created_oid(n), n, req, "set")
    BY <1>0, <1>1 DEF cdb_create
  <2>2. ~bad_target(p, r)
    BY <2>0, <2>1, CreateDone
  <2>3. PICK oid \in Oid : /\ chosen_id(p, r, oid) /\ create_objects(p, r, oid, n)
                           /\ created_oid(n) = oid
    BY <2>0, <2>1, CreateDone
  <2> HIDE DEF n
  <2>4. Made("OSD_CREATE", p, oid, n)
    BY <2>3, Inputs, CreateMakes DEF TargetInv
  <2>5. Chosen("OSD_CREATE", p, oid, n)
    BY <2>2, <2>3, Inputs DEF Chosen, create_objects, creatable, osd_create_datafile
  <2> QED
    BY <2>0, <2>1, <2>3, <2>4, <2>5
<1>2. ASSUME NEW p \in PidInput, NEW r \in OidInput, cdb_create_collection(p, r, req)
      PROVE  \E o \in Oid :
                /\ begin_attributes("OSD_CREATE_COLLECTION", p, o, 1, req, "set")
                /\ Made("OSD_CREATE_COLLECTION", p, o, 1) /\ Chosen("OSD_CREATE_COLLECTION", p, o, 1)
  <2>1. /\ osd_create_collection(p, r) /\ sense' = "OSD_OK"
        /\ begin_attributes("OSD_CREATE_COLLECTION", p, ccap'.oid, 1, req, "set")
    BY <1>0, <1>2 DEF cdb_create_collection
  <2>2. PICK cid \in Oid : /\ chosen_id(p, r, cid) /\ ~obj_ispresent(p, cid)
                           /\ obj' = obj_insert(p, cid, 1, "COLLECTION")
                           /\ ccap' = [obj_type |-> "COLLECTION", pid |-> p, oid |-> cid]
                           /\ UNCHANGED <<attr, coll, disk, root>>
    BY <2>1, CreateCollectionDone
  <2>3. CreatedType("OSD_CREATE_COLLECTION") = "COLLECTION"
    BY DEF CreatedType
  <2>4. Made("OSD_CREATE_COLLECTION", p, cid, 1)
    BY <2>2, <2>3, Inputs, OtherMakes DEF TargetInv
  <2>5. ~bad_target(p, r) /\ cid .. cid + 1 - 1 = {cid}
    BY <2>1, CreateCollectionDone, Inputs
  <2>6. Chosen("OSD_CREATE_COLLECTION", p, cid, 1)
    BY <2>2, <2>5, Inputs DEF Chosen, disk
  <2> QED
    BY <2>1, <2>2, <2>4, <2>6
<1>3. ASSUME NEW r \in PidInput, cdb_create_partition(r, req)
      PROVE  \E p \in Pid, o \in Oid :
                /\ begin_attributes("OSD_CREATE_PARTITION", p, o, 1, req, "set")
                /\ Made("OSD_CREATE_PARTITION", p, o, 1) /\ Chosen("OSD_CREATE_PARTITION", p, o, 1)
  <2>1. /\ osd_create_partition(r) /\ sense' = "OSD_OK"
        /\ begin_attributes("OSD_CREATE_PARTITION", ccap'.pid, PARTITION_OID, 1, req, "set")
    BY <1>0, <1>3 DEF cdb_create_partition
  <2>2. PICK p \in Pid : /\ ~obj_ispresent(p, PARTITION_OID)
                         /\ obj' = obj_insert(p, PARTITION_OID, 1, "PARTITION")
                         /\ ccap' = [obj_type |-> "PARTITION", pid |-> p, oid |-> PARTITION_OID]
                         /\ UNCHANGED <<attr, coll, disk, root, ic>>
    BY <2>1, CreatePartitionDone
  <2>3. CreatedType("OSD_CREATE_PARTITION") = "PARTITION" /\ PARTITION_OID \in Oid
    BY Inputs DEF CreatedType, PARTITION_OID
  <2>4. Made("OSD_CREATE_PARTITION", p, PARTITION_OID, 1)
    BY <2>2, <2>3, OtherMakes DEF TargetInv
  <2>5. PARTITION_OID .. PARTITION_OID + 1 - 1 = {PARTITION_OID}
    BY DEF PARTITION_OID
  <2>6. Chosen("OSD_CREATE_PARTITION", p, PARTITION_OID, 1)
    BY <2>2, <2>5 DEF Chosen, disk
  <2> QED
    BY <2>1, <2>2, <2>3, <2>4, <2>6
<1>4. {"OSD_CREATE", "OSD_CREATE_COLLECTION", "OSD_CREATE_PARTITION"} \subseteq Creating /\ 1 \in Nat
  BY DEF Creating
<1> QED
  BY <1>1, <1>2, <1>3, <1>4, Inputs

LEMMA SubmitDelivers == ASSUME TargetInv, Submit PROVE DeliverInv'
<1>1. CASE cmd'.stage = "idle" \/ cmd'.stage = "remove" \/ cmd'.op \notin Creating
  BY <1>1 DEF DeliverInv, MadeOK, SetSoFar
<1>2. ASSUME NEW op, NEW p, NEW o, NEW req,
             cdb_remove(op, p, o, req) \/ attributes_command(op, p, o, req)
      PROVE  cmd'.op = op
  BY <1>2 DEF cdb_remove, attributes_command, begin_attributes
<1>3. ASSUME NEW p, NEW c, NEW fcr, remove_collection_command(p, c, fcr)
      PROVE  cmd'.stage = "remove"
  BY <1>3 DEF remove_collection_command
<1>4. ASSUME cmd'.stage # "idle", NEW req \in Requests,
           \/ \E p \in PidInput, r \in OidInput, n \in 0 .. MaxNumOid : cdb_create(p, r, n, req)
           \/ \E p \in PidInput, r \in OidInput : cdb_create_collection(p, r, req)
           \/ \E r \in PidInput : cdb_create_partition(r, req)
      PROVE  DeliverInv'
  BY <1>4, Accepted, BeginsDelivering, Inputs
<1>5. /\ "OSD_REMOVE" \notin Creating /\ "OSD_REMOVE_PARTITION" \notin Creating
      /\ "OSD_SET_ATTRIBUTES" \notin Creating /\ "OSD_GET_ATTRIBUTES" \notin Creating
  BY DEF Creating
<1>6. CASE cmd'.stage # "idle"
  BY <1>1, <1>2, <1>3, <1>4, <1>5, <1>6 DEF Submit
<1> QED
  BY <1>1, <1>6

LEMMA TNextDelivers == ASSUME TargetInv, DeliverInv, [TNext]_tvars PROVE DeliverInv'
<1>1. CASE UNCHANGED tvars
  BY <1>1 DEF tvars, vars, DeliverInv, MadeOK, SetSoFar, Objects
<1>2. CASE Submit
  BY <1>2, SubmitDelivers
<1>3. CASE cmd'.stage \in {"idle", "undo"}
  BY <1>3 DEF DeliverInv, MadeOK, SetSoFar
<1>4. CASE Crash
  <2>1. cmd'.stage = "idle"
    BY <1>4 DEF Crash, crash, crash_in_remove, crash_in_create, restart, NoCmd
  <2> QED
    BY <1>3, <2>1
<1>5. CASE set_attributes \/ get_attributes
  BY <1>5, SetDelivers, GetDelivers
<1>6. CASE finish \/ remove
  BY <1>3, <1>6 DEF finish, remove, Idle
<1>7. CASE out_remove_obj
  <2>1. cmd \in AttrCmd /\ cmd.stage = "undo"
    BY <1>7, InLoop DEF out_remove_obj, TargetInv
  <2>2. CASE cmd' = [cmd EXCEPT !.i = @ + 1]
    BY <1>3, <2>1, <2>2 DEF AttrCmd
  <2>3. CASE Idle(cmd.ret, cmd.ret)
    BY <1>3, <2>3 DEF Idle
  <2> QED
    BY <1>7, <2>2, <2>3 DEF out_remove_obj
<1> QED
  BY <1>1, <1>2, <1>4, <1>5, <1>6, <1>7 DEF TNext, Serve

(* Through the service of a creating command its objects are there, with the   *)
(* attributes that its loop has come past.                                     *)
THEOREM DeliverSafe == TSpec => []DeliverInv
<1>1. TInit => DeliverInv
  BY DEF TInit, NoCmd, DeliverInv, MadeOK, SetSoFar
<1>2. TargetInv /\ DeliverInv /\ [TNext]_tvars => DeliverInv'
  BY TNextDelivers
<1> QED
  BY <1>1, <1>2, TargetSafe, PTL DEF TSpec

\* The step formula of CreateDelivers.
Delivers ==
    Ends /\ cmd.stage = "finish" =>
        /\ \A o \in cmd.oid .. cmd.oid + cmd.n - 1 :
             /\ obj[cmd.pid][o] = CreatedType(cmd.op)
             /\ cmd.before.obj[cmd.pid][o] = "ILLEGAL_OBJ"
             /\ \A k \in 1 .. Len(cmd.req.set) : <<cmd.pid, o, cmd.req.set[k]>> \in attr
        /\ ccap = [obj_type |-> CreatedType(cmd.op), pid |-> cmd.pid, oid |-> cmd.oid + cmd.n - 1]

(* A creating command that reports success has made every object it was asked  *)
(* for, new, with every attribute it was asked to set, whatever failures and   *)
(* crashes came before, and the current command attributes page names the last *)
(* of them (cdb.c:663-674).                                                    *)
THEOREM CreationsDeliver == TSpec => CreateDelivers
<1>1. ASSUME TargetInv, DeliverInv PROVE Delivers
  <2> SUFFICES ASSUME Ends, cmd.stage = "finish"
               PROVE  /\ \A o \in Objects :
                           /\ obj[cmd.pid][o] = CreatedType(cmd.op)
                           /\ cmd.before.obj[cmd.pid][o] = "ILLEGAL_OBJ"
                           /\ \A k \in 1 .. Len(cmd.req.set) : <<cmd.pid, o, cmd.req.set[k]>> \in attr
                      /\ ccap = [obj_type |-> CreatedType(cmd.op), pid |-> cmd.pid,
                                 oid |-> cmd.oid + cmd.n - 1]
    BY DEF Delivers, Objects
  <2>1. cmd.op \in Creating
    BY DEF Ends
  <2>2. cmd.pid \in Pid /\ Objects \subseteq Oid
    BY <1>1, InLoop DEF TargetInv, AttrCmd
  <2>3. \A o \in Objects : cmd.before.obj[cmd.pid][o] = "ILLEGAL_OBJ"
    BY <1>1, <2>1 DEF TargetInv, BeforeOK
  <2>4. \A o \in Objects : \A k \in 1 .. Len(cmd.req.set) : <<cmd.pid, o, cmd.req.set[k]>> \in attr
    BY <1>1, <2>1 DEF DeliverInv, SetSoFar
  <2>5. /\ \A o \in Objects : obj[cmd.pid][o] = CreatedType(cmd.op)
        /\ ccap = [obj_type |-> CreatedType(cmd.op), pid |-> cmd.pid, oid |-> cmd.oid + cmd.n - 1]
    BY <1>1, <2>1, <2>2 DEF DeliverInv, MadeOK
  <2> QED
    BY <2>3, <2>4, <2>5
<1>2. TSpec => [][Delivers]_tvars
  BY <1>1, TargetSafe, DeliverSafe, PTL DEF TSpec
<1> QED
  BY <1>2 DEF CreateDelivers, Delivers

-----------------------------------------------------------------------------
(* Valid ids, and a device that works                                         *)

\* osd_remove refuses ids below the bound, so an undo depends on the target
\* never giving one out: not from the table, and not from the cache.
ValidIds ==
    /\ \A p \in Pid, o \in Oid : obj_ispresent(p, o) /\ o # PARTITION_OID => o >= IdLB
    /\ ic.cur_pid # 0 => ic.next_id >= IdLB

HealthInv == dbfile /\ root = "set" /\ ValidIds

(* The id that a creating command uses is a valid one.                        *)
LEMMA ChosenValid ==
    ASSUME TypeOK, ValidIds, NEW p \in Pid, NEW r \in Oid, NEW id \in Oid,
           ~bad_target(p, r), chosen_id(p, r, id)
    PROVE  p >= IdLB /\ id >= IdLB
<1>0. p \in Nat /\ r \in Nat /\ id \in Nat /\ IdLB \in Nat /\ IdLB > 1 /\ p >= IdLB
  BY Inputs DEF bad_target
<1>1. CASE r # 0
  BY <1>0, <1>1 DEF bad_target, chosen_id
<1>2. CASE r = 0 /\ id = IdLB
  BY <1>0, <1>2
<1>3. CASE r = 0 /\ proposed_id(p, id) /\ id # 1
  <2>1. CASE ic.cur_pid = p
    BY <1>0, <1>3, <2>1 DEF proposed_id, ValidIds
  <2>2. CASE ic.cur_pid # p
    <3>1. id - 1 \in Oid /\ obj_ispresent(p, id - 1)
      BY <1>3, <2>2 DEF proposed_id, obj_get_nextoid
    <3>2. id - 1 # PARTITION_OID
      BY <1>0, <1>3 DEF PARTITION_OID
    <3>3. id - 1 >= IdLB
      BY <3>1, <3>2 DEF ValidIds
    <3> QED
      BY <1>0, <3>3
  <2> QED
    BY <2>1, <2>2
<1> QED
  BY <1>1, <1>2, <1>3 DEF chosen_id, alloc_id

(* Rows that go, or that are valid; a cache that is kept, emptied or ahead.   *)
LEMMA ValidKept ==
    ASSUME ValidIds,
           \A q \in Pid, x \in Oid :
             obj_ispresent(q, x)' => obj_ispresent(q, x) \/ x = PARTITION_OID \/ x >= IdLB,
           ic' = ic \/ ic' = NoCache \/ ic'.next_id >= IdLB
    PROVE  ValidIds'
BY DEF ValidIds, NoCache

LEMMA RowsKeptValid == ASSUME ValidIds, UNCHANGED obj, ic' \in {ic, NoCache} PROVE ValidIds'
BY ValidKept DEF obj_ispresent

LEMMA InsertedValid ==
    ASSUME TypeOK, ValidIds, NEW p \in Pid, NEW oid \in Oid, NEW n \in Nat, NEW type \in RowType,
           obj' = obj_insert(p, oid, n, type), oid >= IdLB \/ (oid = PARTITION_OID /\ n = 1),
           ic' = ic \/ ic' = NoCache \/ ic'.next_id >= IdLB
    PROVE  ValidIds'
<1>1. \A q \in Pid, x \in Oid :
        obj'[q][x] = IF q = p /\ x \in oid .. oid + n - 1 THEN type ELSE obj[q][x]
  BY InsertRows DEF TypeOK
<1>2. \A x \in Oid : x \in oid .. oid + n - 1 => x >= IdLB \/ x = PARTITION_OID
  BY Inputs DEF PARTITION_OID
<1> QED
  BY <1>1, <1>2, ValidKept DEF obj_ispresent

LEMMA CacheValid ==
    ASSUME NEW p, NEW r, NEW id \in Oid, NEW n \in Nat, id >= IdLB
    PROVE  ic_after(p, r, id, n) = NoCache \/ ic_after(p, r, id, n).next_id >= IdLB
BY Inputs DEF ic_after

LEMMA CreateValid ==
    ASSUME TypeOK, HealthInv, NEW p \in Pid, NEW r \in Oid, NEW numoid \in Nat, osd_create(p, r, numoid)
    PROVE  HealthInv'
<1> DEFINE n == IF numoid = 0 THEN 1 ELSE numoid
<1>n. n \in Nat
  OBVIOUS
<1> HIDE DEF n
<1>0. ValidIds
  BY DEF HealthInv
<1>1. CASE Rejected("ILLEGAL_REQUEST") \/ nextoid_failed(p, r)
  BY <1>0, <1>1, RowsKeptValid DEF HealthInv, Rejected, nextoid_failed, tables, disk
<1>2. ASSUME NEW oid \in Oid, ~bad_target(p, r), chosen_id(p, r, oid), create_objects(p, r, oid, n)
      PROVE  HealthInv'
  <2>1. oid >= IdLB
    BY <1>0, <1>2, ChosenValid
  <2>2. "USEROBJECT" \in RowType
    BY DEF RowType, ObjType
  <2>3. ic' = NoCache \/ ic'.next_id >= IdLB
    BY <1>2, <1>n, <2>1, CacheValid DEF create_objects
  <2>4. ValidIds'
    BY <1>0, <1>2, <1>n, <2>1, <2>2, <2>3, InsertedValid DEF create_objects
  <2> QED
    BY <1>2, <2>4 DEF HealthInv, create_objects
<1>3. ASSUME NEW oid \in Oid, ~bad_target(p, r), chosen_id(p, r, oid), oid + n - 1 \in Oid,
             NEW bad \in oid .. oid + n - 1, create_undone(p, oid, n, bad)
      PROVE  HealthInv'
  <2>1. oid >= IdLB
    BY <1>0, <1>3, ChosenValid
  <2>2. /\ ic' = NoCache /\ UNCHANGED <<dbfile, root>>
        /\ \A q \in Pid, o \in Oid : obj'[q][o] = obj[q][o] \/ o \in oid .. bad
    BY <1>3, <1>n, UndoneEffect
  <2>3. \A o \in Oid : o \in oid .. bad => o >= IdLB
    BY <2>1, Inputs
  <2>4. \A q \in Pid, x \in Oid :
          obj_ispresent(q, x)' => obj_ispresent(q, x) \/ x = PARTITION_OID \/ x >= IdLB
    BY <2>2, <2>3 DEF obj_ispresent
  <2>5. ValidIds'
    BY <1>0, <2>2, <2>4, ValidKept
  <2> QED
    BY <2>2, <2>5 DEF HealthInv
<1> QED
  BY <1>1, <1>2, <1>3 DEF osd_create, n

LEMMA CreateCollectionValid ==
    ASSUME TypeOK, HealthInv, NEW p \in Pid, NEW r \in Oid, osd_create_collection(p, r)
    PROVE  HealthInv'
<1>0. ValidIds
  BY DEF HealthInv
<1>1. CASE Rejected("ILLEGAL_REQUEST") \/ nextoid_failed(p, r)
  BY <1>0, <1>1, RowsKeptValid DEF HealthInv, Rejected, nextoid_failed, tables, disk
<1>2. ASSUME NEW cid \in Oid, ~bad_target(p, r), chosen_id(p, r, cid), insert_collection(p, r, cid)
      PROVE  HealthInv'
  <2>1. cid >= IdLB
    BY <1>0, <1>2, ChosenValid
  <2>2. "COLLECTION" \in RowType
    BY DEF RowType, ObjType
  <2>3. ic' = NoCache \/ ic'.next_id >= IdLB
    BY <1>2, <2>1, CacheValid DEF insert_collection
  <2>4. CASE obj' = obj
    <3>1. ValidIds'
      BY <1>0, <2>3, <2>4, ValidKept DEF obj_ispresent
    <3> QED
      BY <1>2, <3>1 DEF HealthInv, insert_collection, disk
  <2>5. CASE obj' = obj_insert(p, cid, 1, "COLLECTION")
    <3>1. ValidIds'
      BY <1>0, <2>1, <2>2, <2>3, <2>5, InsertedValid
    <3> QED
      BY <1>2, <3>1 DEF HealthInv, insert_collection, disk
  <2> QED
    BY <1>2, <2>4, <2>5 DEF insert_collection
<1> QED
  BY <1>1, <1>2 DEF osd_create_collection

LEMMA CreatePartitionValid ==
    ASSUME TypeOK, HealthInv, NEW r, osd_create_partition(r)
    PROVE  HealthInv'
<1>0. ValidIds
  BY DEF HealthInv
<1>1. CASE Rejected("ILLEGAL_REQUEST") \/ Rejected("HARDWARE_ERROR")
  BY <1>0, <1>1, RowsKeptValid DEF HealthInv, Rejected, tables, disk
<1>2. ASSUME NEW p \in Pid, obj' = obj_insert(p, PARTITION_OID, 1, "PARTITION"),
             UNCHANGED <<attr, coll, disk, root, ic>>
      PROVE  HealthInv'
  <2>1. "PARTITION" \in RowType /\ PARTITION_OID \in Oid
    BY Inputs DEF RowType, ObjType, PARTITION_OID
  <2>2. ValidIds'
    BY <1>0, <1>2, <2>1, InsertedValid
  <2> QED
    BY <1>2, <2>2 DEF HealthInv, disk
<1> QED
  BY <1>1, <1>2 DEF osd_create_partition

LEMMA RemovalsValid ==
    ASSUME TypeOK, HealthInv, NEW p \in Pid, NEW o \in Oid, NEW fcr,
           osd_remove(p, o) \/ osd_remove_collection(p, o, fcr) \/ osd_remove_partition(p)
    PROVE  HealthInv'
<1>1. /\ obj' \in {obj, obj_delete(p, o), obj_delete(p, PARTITION_OID)}
      /\ ic' \in {ic, NoCache} /\ dbfile' = dbfile /\ root' = root
  <2>1. CASE osd_remove(p, o)
    BY <2>1 DEF osd_remove, Rejected, tables, disk
  <2>2. CASE osd_remove_collection(p, o, fcr)
    BY <2>2 DEF osd_remove_collection, Rejected, tables, disk
  <2>3. CASE osd_remove_partition(p)
    BY <2>3 DEF osd_remove_partition, Rejected, tables, disk
  <2> QED
    BY <2>1, <2>2, <2>3
<1>2. \A q \in Pid, x \in Oid : obj_ispresent(q, x)' => obj_ispresent(q, x)
  BY <1>1, Inputs, DeleteRow DEF TypeOK, obj_ispresent, PARTITION_OID
<1> QED
  BY <1>1, <1>2, ValidKept DEF HealthInv

LEMMA TNextValid == ASSUME TargetInv, HealthInv, [TNext]_tvars PROVE HealthInv'
<1>0. TypeOK /\ ValidIds
  BY DEF TargetInv, HealthInv
<1>1. ASSUME UNCHANGED obj, ic' \in {ic, NoCache}, dbfile' = dbfile, root' \in {root, "set"}
      PROVE  HealthInv'
  BY <1>0, <1>1, RowsKeptValid DEF HealthInv
<1>2. CASE UNCHANGED vars
  BY <1>1, <1>2 DEF vars
<1>3. CASE Submit
  <2>1. ASSUME NEW p \in Pid, NEW r \in Oid, NEW n \in Nat, NEW req, cdb_create(p, r, n, req)
        PROVE  HealthInv'
    BY <1>0, <1>1, <2>1, CreateValid DEF cdb_create, Rejected, tables, disk
  <2>2. ASSUME NEW p \in Pid, NEW r \in Oid, NEW req, cdb_create_collection(p, r, req)
        PROVE  HealthInv'
    BY <1>0, <2>2, CreateCollectionValid DEF cdb_create_collection
  <2>3. ASSUME NEW r, NEW req, cdb_create_partition(r, req)
        PROVE  HealthInv'
    BY <1>0, <2>3, CreatePartitionValid DEF cdb_create_partition
  <2>4. ASSUME NEW op, NEW p, NEW o, NEW req,
               cdb_remove(op, p, o, req) \/ attributes_command(op, p, o, req)
        PROVE  HealthInv'
    BY <1>2, <2>4 DEF cdb_remove, attributes_command
  <2>5. ASSUME NEW p, NEW c, NEW fcr, remove_collection_command(p, c, fcr)
        PROVE  HealthInv'
    BY <1>2, <2>5 DEF remove_collection_command
  <2>6. 0 .. MaxNumOid \subseteq Nat
    BY IdAssumption
  <2> QED
    BY <1>3, <2>1, <2>2, <2>3, <2>4, <2>5, <2>6, Inputs DEF Submit
<1>4. ASSUME NEW p, NEW o, Attributed(p, o) PROVE HealthInv'
  BY <1>1, <1>4 DEF Attributed
<1>5. CASE set_attributes
  BY <1>4, <1>5, SetStep DEF TargetInv
<1>6. CASE get_attributes
  <2>1. \E o \in Objects : Attributed(cmd.pid, o)
    BY <1>6, GetStep DEF TargetInv
  <2> QED
    BY <1>4, <2>1
<1>7. CASE finish
  BY <1>2, <1>7 DEF finish
<1>8. CASE remove
  <2>1. cmd.pid \in Pid /\ cmd.oid \in Oid
    BY <1>8, AtRemoval DEF remove, TargetInv
  <2> QED
    BY <1>0, <1>8, <2>1, RemovalsValid DEF remove
<1>9. CASE out_remove_obj
  <2>1. cmd.pid \in Pid /\ cmd.i \in Oid
    BY <1>9, AtRemoval DEF out_remove_obj, TargetInv
  <2> QED
    BY <1>0, <1>9, <2>1, RemovalsValid DEF out_remove_obj
<1>10. CASE Crash
  <2>1. obj' = obj /\ restart
    BY <1>10 DEF Crash, crash, crash_in_remove, crash_in_create, tables, TargetInv, TxnOK
  <2> QED
    BY <1>1, <2>1 DEF restart
<1> QED
  BY <1>2, <1>3, <1>5, <1>6, <1>7, <1>8, <1>9, <1>10 DEF TNext, Serve, tvars

(* The target never gives out an id that a later command would refuse, from    *)
(* the table or from the cache, and no command takes the database away.        *)
THEOREM HealthSafe == TSpec => []HealthInv
<1>1. TInit => HealthInv
  <2> SUFFICES ASSUME TInit PROVE HealthInv
    OBVIOUS
  <2>1. \A p \in Pid, o \in Oid : obj_ispresent(p, o) => o = PARTITION_OID
    BY FreshRows DEF TInit, Init, obj_ispresent, PARTITION_OID
  <2> QED
    BY <2>1 DEF TInit, Init, HealthInv, ValidIds, NoCache
<1>2. TargetInv /\ HealthInv /\ [TNext]_tvars => HealthInv'
  BY TNextValid
<1> QED
  BY <1>1, <1>2, TargetSafe, PTL DEF TSpec

-----------------------------------------------------------------------------
(* Undo                                                                       *)

\* The new objects of a command that an undo has still to remove.
Left == IF cmd.stage = "undo" THEN cmd.i .. cmd.oid + cmd.n - 1 ELSE Objects

\* CREATE and CREATE COLLECTION, while in service and while undone: what differs
\* from before is what belongs to the objects that are left.
UndoOK ==
    cmd.stage \in {"set", "get", "finish", "undo"} /\ cmd.op \in {"OSD_CREATE", "OSD_CREATE_COLLECTION"} =>
        /\ cmd.pid >= IdLB /\ cmd.oid >= IdLB
        /\ \A p \in Pid, o \in Oid : ~(p = cmd.pid /\ o \in Left) => obj[p][o] = cmd.before.obj[p][o]
        /\ cmd.before.attr \subseteq attr
        /\ \A r \in attr : r \in cmd.before.attr \/ (r[1] = cmd.pid /\ r[2] \in Left)
        /\ \A r \in cmd.before.attr : ~(r[1] = cmd.pid /\ r[2] \in Objects)
        /\ dfile \subseteq cmd.before.dfile \cup ({cmd.pid} \X Left)

LEMMA BeginsUndoable ==
    ASSUME TargetInv, HealthInv, NEW op \in Creating, NEW p \in Pid, NEW o \in Oid, NEW n \in Nat, NEW req,
           begin_attributes(op, p, o, n, req, "set"), Made(op, p, o, n), Chosen(op, p, o, n)
    PROVE  UndoOK'
<1>1. /\ cmd'.oid = o /\ cmd'.n = n /\ cmd'.op = op /\ cmd'.pid = p
      /\ cmd'.stage = "set" /\ cmd'.before = Snapshot
  BY DEF begin_attributes
<1>2. Objects' = o .. o + n - 1 /\ Left' = o .. o + n - 1
  BY <1>1 DEF Objects, Left
<1>3. CASE op \notin {"OSD_CREATE", "OSD_CREATE_COLLECTION"}
  BY <1>1, <1>3 DEF UndoOK
<1>4. CASE op \in {"OSD_CREATE", "OSD_CREATE_COLLECTION"}
  <2>1. p >= IdLB /\ o >= IdLB
    BY <1>4, ChosenValid DEF Chosen, TargetInv, HealthInv
  <2>2. /\ cmd'.before.obj = obj /\ cmd'.before.attr = attr /\ cmd'.before.dfile = dfile
    BY <1>1 DEF Snapshot
  <2>3. \A q \in Pid, x \in Oid : ~(q = p /\ x \in o .. o + n - 1) => obj'[q][x] = obj[q][x]
    BY DEF Made
  <2>4. \A r \in attr : ~(r[1] = p /\ r[2] \in o .. o + n - 1)
    <3> SUFFICES ASSUME NEW r \in attr, r[1] = p, r[2] \in o .. o + n - 1 PROVE FALSE
      OBVIOUS
    <3>1. r[2] # PARTITION_OID
      BY <2>1, Inputs DEF PARTITION_OID
    <3>2. obj_ispresent(p, r[2])
      BY <3>1 DEF TargetInv, StoreInv, AttrsOwned
    <3> QED
      BY <3>2 DEF Chosen
  <2>5. attr' = attr /\ dfile' \subseteq dfile \cup ({p} \X (o .. o + n - 1))
    BY DEF Chosen
  <2> QED
    BY <1>1, <1>2, <2>1, <2>2, <2>3, <2>4, <2>5 DEF UndoOK
<1> QED
  BY <1>3, <1>4

(* The loops add rows of the new objects only.                                *)
LEMMA LoopUndoable ==
    ASSUME UndoOK, CmdOK, cmd.stage \in {"set", "get"}, NEW o \in Objects, Attributed(cmd.pid, o),
           NEW stage, LoopStep(stage)
    PROVE  UndoOK'
<1>1. cmd \in AttrCmd
  BY InLoop
<1>2. CASE cmd'.stage = "idle"
  BY <1>2 DEF UndoOK
<1>3. CASE SameCommand /\ (cmd'.stage = "undo" => cmd'.i = cmd.oid)
  <2>1. Objects' = Objects /\ Left = Objects
    BY <1>3 DEF SameCommand, Objects, Left
  <2>2. Left' = Objects
    BY <1>3, <2>1 DEF Left, SameCommand, Objects
  <2>3. CASE cmd.op \notin {"OSD_CREATE", "OSD_CREATE_COLLECTION"}
    BY <1>3, <2>3 DEF UndoOK, SameCommand
  <2>4. CASE cmd.op \in {"OSD_CREATE", "OSD_CREATE_COLLECTION"}
    <3>1. /\ cmd.pid >= IdLB /\ cmd.oid >= IdLB
          /\ \A p \in Pid, x \in Oid : ~(p = cmd.pid /\ x \in Objects) => obj[p][x] = cmd.before.obj[p][x]
          /\ cmd.before.attr \subseteq attr
          /\ \A r \in attr : r \in cmd.before.attr \/ (r[1] = cmd.pid /\ r[2] \in Objects)
          /\ \A r \in cmd.before.attr : ~(r[1] = cmd.pid /\ r[2] \in Objects)
          /\ dfile \subseteq cmd.before.dfile \cup ({cmd.pid} \X Objects)
      BY <2>1, <2>4 DEF UndoOK
    <3>2. /\ obj' = obj /\ dfile' = dfile /\ attr \subseteq attr'
          /\ \A r \in attr' : r \in attr \/ (r[1] = cmd.pid /\ r[2] \in Objects)
      BY DEF Attributed
    <3> QED
      BY <1>3, <2>1, <2>2, <3>1, <3>2 DEF UndoOK, SameCommand
  <2> QED
    BY <2>3, <2>4
<1> QED
  BY <1>1, <1>2, <1>3, SameInLoop

\* An object and all that belongs to it is gone.
Removed(p, o) ==
    /\ obj' = obj_delete(p, o) /\ attr' = attr_delete_all(p, o) /\ dfile' = dfile \ {<<p, o>>}

(* Without faults an undo removes what it is at.                              *)
LEMMA UndoRemoves ==
    ASSUME ~Faults, HealthInv, NEW p, NEW o, p >= IdLB, o >= IdLB, p \in Nat, o \in Nat, osd_remove(p, o)
    PROVE  Removed(p, o)
<1>1. ~(p < IdLB \/ o < IdLB)
  BY Inputs
<1>2. ~IoMayFail /\ Completed(3) = {3}
  BY Completes DEF HealthInv, IoMayFail
<1>3. dfile' = dfile \ {<<p, o>>}
  BY <1>1, <1>2 DEF osd_remove, unlink_dfile
<1>4. obj' = obj_delete(p, o) /\ attr' = attr_delete_all(p, o)
  BY <1>1, <1>2 DEF osd_remove
<1> QED
  BY <1>3, <1>4 DEF Removed

(* One step of the undo of CREATE and CREATE COLLECTION.                      *)
LEMMA UndoStep ==
    ASSUME ~Faults, TargetInv, HealthInv, UndoOK, out_remove_obj,
           cmd.op \in {"OSD_CREATE", "OSD_CREATE_COLLECTION"}
    PROVE  LET rest == Left \ {cmd.i}
           IN  /\ cmd.pid >= IdLB /\ cmd.oid >= IdLB
               /\ \A p \in Pid, o \in Oid :
                    ~(p = cmd.pid /\ o \in rest) => obj'[p][o] = cmd.before.obj[p][o]
               /\ cmd.before.attr \subseteq attr'
               /\ \A r \in attr' : r \in cmd.before.attr \/ (r[1] = cmd.pid /\ r[2] \in rest)
               /\ \A r \in cmd.before.attr : ~(r[1] = cmd.pid /\ r[2] \in Objects)
               /\ dfile' \subseteq cmd.before.dfile \cup ({cmd.pid} \X rest)
<1> DEFINE rest == Left \ {cmd.i}
<1>0. cmd.stage = "undo" /\ osd_remove(cmd.pid, cmd.i)
  BY DEF out_remove_obj
<1>1. /\ cmd \in AttrCmd /\ Objects \subseteq Oid /\ cmd.i \in Objects
      /\ cmd.oid \in Nat /\ cmd.n \in Nat /\ cmd.i \in Nat
      /\ Objects = cmd.oid .. cmd.oid + cmd.n - 1
  BY <1>0, InLoop DEF TargetInv
<1>2. cmd.pid \in Pid /\ cmd.pid \in Nat /\ cmd.i \in Oid
  BY <1>1, Inputs DEF AttrCmd
<1>3. /\ cmd.pid >= IdLB /\ cmd.oid >= IdLB
      /\ \A p \in Pid, o \in Oid : ~(p = cmd.pid /\ o \in Left) => obj[p][o] = cmd.before.obj[p][o]
      /\ cmd.before.attr \subseteq attr
      /\ \A r \in attr : r \in cmd.before.attr \/ (r[1] = cmd.pid /\ r[2] \in Left)
      /\ \A r \in cmd.before.attr : ~(r[1] = cmd.pid /\ r[2] \in Objects)
      /\ dfile \subseteq cmd.before.dfile \cup ({cmd.pid} \X Left)
  BY <1>0 DEF UndoOK
<1>4. cmd.i >= IdLB
  BY <1>1, <1>3, Inputs
<1>5. Removed(cmd.pid, cmd.i)
  BY <1>0, <1>1, <1>2, <1>3, <1>4, UndoRemoves
<1>6. cmd.before.obj[cmd.pid][cmd.i] = "ILLEGAL_OBJ"
  <2>1. cmd.op \in Creating
    BY DEF Creating
  <2> QED
    BY <1>0, <1>1, <2>1 DEF TargetInv, BeforeOK
<1>7. \A p \in Pid, o \in Oid :
        obj'[p][o] = IF p = cmd.pid /\ o = cmd.i THEN "ILLEGAL_OBJ" ELSE obj[p][o]
  BY <1>2, <1>5, DeletedRow DEF Removed, TargetInv
<1>8. \A r \in attr' : r \in attr /\ ~(r[1] = cmd.pid /\ r[2] = cmd.i)
  BY <1>5 DEF Removed, attr_delete_all
<1>9. \A r \in attr : ~(r[1] = cmd.pid /\ r[2] = cmd.i) => r \in attr'
  BY <1>5 DEF Removed, attr_delete_all
<1>10. \A p \in Pid, o \in Oid : ~(p = cmd.pid /\ o \in rest) => obj'[p][o] = cmd.before.obj[p][o]
  BY <1>3, <1>6, <1>7
<1>11. cmd.before.attr \subseteq attr'
  BY <1>1, <1>3, <1>9
<1>12. \A r \in attr' : r \in cmd.before.attr \/ (r[1] = cmd.pid /\ r[2] \in rest)
  BY <1>3, <1>8
<1>13. dfile' \subseteq cmd.before.dfile \cup ({cmd.pid} \X rest)
  BY <1>3, <1>5 DEF Removed
<1> QED
  BY <1>3, <1>10, <1>11, <1>12, <1>13

LEMMA UndoGoesOn ==
    ASSUME ~Faults, TargetInv, HealthInv, UndoOK, out_remove_obj
    PROVE  UndoOK'
<1>1. /\ cmd \in AttrCmd /\ cmd.i \in Objects /\ cmd.stage = "undo"
      /\ cmd.oid \in Nat /\ cmd.n \in Nat /\ cmd.i \in Nat
  BY InLoop DEF TargetInv, out_remove_obj
<1>2. CASE Idle(cmd.ret, cmd.ret)
  BY <1>2 DEF UndoOK, Idle
<1>3. CASE cmd' = [cmd EXCEPT !.i = @ + 1]
  <2>1. cmd'.stage = "undo" /\ SameCommand /\ cmd'.i = cmd.i + 1
    BY <1>1, <1>3 DEF SameCommand, AttrCmd
  <2>2. Objects' = Objects /\ Left' = Left \ {cmd.i}
    BY <1>1, <2>1 DEF SameCommand, Objects, Left
  <2>3. CASE cmd.op \notin {"OSD_CREATE", "OSD_CREATE_COLLECTION"}
    BY <2>1, <2>3 DEF UndoOK, SameCommand
  <2>4. CASE cmd.op \in {"OSD_CREATE", "OSD_CREATE_COLLECTION"}
    BY <2>1, <2>2, <2>4, UndoStep DEF UndoOK, SameCommand
  <2> QED
    BY <2>3, <2>4
<1> QED
  BY <1>2, <1>3 DEF out_remove_obj

LEMMA TNextUndoable ==
    ASSUME ~Faults, TargetInv, HealthInv, UndoOK, [TNext]_tvars
    PROVE  UndoOK'
<1>0. CmdOK
  BY DEF TargetInv
<1>1. CASE UNCHANGED tvars
  BY <1>1 DEF tvars, vars, UndoOK, Left, Objects
<1>2. CASE cmd'.stage \in {"idle", "remove"} \/ cmd'.op \notin {"OSD_CREATE", "OSD_CREATE_COLLECTION"}
  BY <1>2 DEF UndoOK
<1>3. CASE Submit
  <2>1. ASSUME NEW op, NEW p, NEW o, NEW req,
               cdb_remove(op, p, o, req) \/ attributes_command(op, p, o, req)
        PROVE  cmd'.op = op
    BY <2>1 DEF cdb_remove, attributes_command, begin_attributes
  <2>2. ASSUME NEW p, NEW c, NEW fcr, remove_collection_command(p, c, fcr)
        PROVE  cmd'.stage = "remove"
    BY <2>2 DEF remove_collection_command
  <2>3. ASSUME cmd'.stage # "idle", NEW req \in Requests,
             \/ \E p \in PidInput, r \in OidInput, n \in 0 .. MaxNumOid : cdb_create(p, r, n, req)
             \/ \E p \in PidInput, r \in OidInput : cdb_create_collection(p, r, req)
             \/ \E r \in PidInput : cdb_create_partition(r, req)
        PROVE  UndoOK'
    BY <2>3, Accepted, BeginsUndoable
  <2>4. CASE cmd'.stage # "idle"
    BY <1>2, <1>3, <2>1, <2>2, <2>3, <2>4 DEF Submit
  <2> QED
    BY <1>2, <2>4
<1>4. CASE set_attributes
  <2>1. Attributed(cmd.pid, cmd.i) /\ cmd.stage = "set" /\ GoesOn(cmd.req.set, after_set)
    BY <1>4, SetStep DEF TargetInv
  <2>2. cmd.i \in Objects /\ LoopStep(after_set)
    BY <1>0, <2>1, InLoop, LoopSteps
  <2> QED
    BY <1>0, <2>1, <2>2, LoopUndoable
<1>5. CASE get_attributes
  <2>1. /\ \E o \in Objects : Attributed(cmd.pid, o)
        /\ cmd.stage = "get" /\ LoopStep(after_get)
    BY <1>5, GetStep DEF TargetInv
  <2> QED
    BY <1>0, <2>1, LoopUndoable
<1>6. CASE finish \/ remove
  BY <1>2, <1>6 DEF finish, remove, Idle
<1>7. CASE out_remove_obj
  BY <1>7, UndoGoesOn
<1>8. CASE Crash
  <2>1. cmd'.stage = "idle"
    BY <1>8 DEF Crash, crash, crash_in_remove, crash_in_create, restart, NoCmd
  <2> QED
    BY <1>2, <2>1
<1> QED
  BY <1>1, <1>3, <1>4, <1>5, <1>6, <1>7, <1>8 DEF TNext, Serve

(* Without faults, what a CREATE or CREATE COLLECTION in service, or in its     *)
(* undo, has changed belongs to the objects it has still to remove.            *)
THEOREM UndoSafe == ASSUME ~Faults PROVE TSpec => []UndoOK
<1>1. TInit => UndoOK
  BY DEF TInit, NoCmd, UndoOK
<1>2. TargetInv /\ HealthInv /\ UndoOK /\ [TNext]_tvars => UndoOK'
  BY TNextUndoable
<1> QED
  BY <1>1, <1>2, TargetSafe, HealthSafe, PTL DEF TSpec

(* The only step in which a creating command ends with an error is the last    *)
(* removal of its undo.                                                        *)
LEMMA FailsInUndo ==
    ASSUME TargetInv, TNext, Ends, cmd'.ret # "OSD_OK"
    PROVE  out_remove_obj /\ last_object
<1>0. cmd.stage # "idle" /\ cmd'.stage = "idle" /\ cmd.op \in Creating
  BY DEF Ends
<1>1. ~Submit
  BY <1>0 DEF Submit, cdb_create, cdb_create_collection, cdb_create_partition, cdb_remove,
              attributes_command, remove_collection_command
<1>2. ~Crash
  BY DEF Crash, crash, crash_in_remove, crash_in_create, restart, NoCmd
<1>3. ~finish
  BY DEF finish, Idle
<1>4. ~remove
  BY <1>0 DEF remove, Creating
<1>5. ASSUME cmd \in AttrCmd, cmd.stage \in {"set", "get"}, NEW stage \in {"set", "get", "finish", "remove"},
             LoopStep(stage)
      PROVE  FALSE
  <2>1. \A s : ~failed(s)
    BY <1>0, <1>5 DEF failed, AttrCmd
  <2>2. ~next_stage(stage)
    BY <1>0, <1>5 DEF next_stage, AttrCmd
  <2>3. cmd' # [cmd EXCEPT !.i = @ + 1]
    BY <1>0, <1>5 DEF AttrCmd
  <2>4. cmd' # [cmd EXCEPT !.i = cmd.oid, !.k = @ + 1]
    BY <1>0, <1>5 DEF AttrCmd
  <2> QED
    BY <1>5, <2>1, <2>2, <2>3, <2>4 DEF LoopStep
<1>6. ~set_attributes
  <2> SUFFICES ASSUME set_attributes PROVE FALSE
    OBVIOUS
  <2>1. cmd.stage = "set" /\ LoopStep(after_set)
    BY SetStep, LoopSteps DEF TargetInv
  <2>2. cmd \in AttrCmd /\ after_set \in {"set", "get", "finish", "remove"}
    BY <2>1, InLoop DEF TargetInv, after_set
  <2> QED
    BY <1>5, <2>1, <2>2
<1>7. ~get_attributes
  <2> SUFFICES ASSUME get_attributes PROVE FALSE
    OBVIOUS
  <2>1. cmd.stage = "get" /\ LoopStep(after_get)
    BY GetStep DEF TargetInv
  <2>2. cmd \in AttrCmd /\ after_get \in {"set", "get", "finish", "remove"}
    BY <2>1, InLoop DEF TargetInv, after_get
  <2> QED
    BY <1>5, <2>1, <2>2
<1>8. out_remove_obj
  BY <1>1, <1>2, <1>3, <1>4, <1>6, <1>7 DEF TNext, Serve
<1>9. cmd \in AttrCmd /\ cmd.stage = "undo"
  BY <1>8, InLoop DEF TargetInv, out_remove_obj
<1>10. cmd' # [cmd EXCEPT !.i = @ + 1]
  BY <1>0, <1>9 DEF AttrCmd
<1> QED
  BY <1>8, <1>10 DEF out_remove_obj

(* The end of the undo: tables and files are as they were.                     *)
LEMMA UndoneAtLast ==
    ASSUME ~Faults, TargetInv, HealthInv, UndoOK, TypeOK', out_remove_obj, last_object,
           cmd.op \in {"OSD_CREATE", "OSD_CREATE_COLLECTION"}
    PROVE  Undone
<1>1. /\ cmd \in AttrCmd /\ cmd.stage = "undo" /\ cmd.i \in Nat
  BY InLoop DEF TargetInv, out_remove_obj
<1>2. Left \ {cmd.i} = {}
  BY <1>1 DEF Left, last_object
<1>3. /\ \A p \in Pid, o \in Oid : obj'[p][o] = cmd.before.obj[p][o]
      /\ cmd.before.attr \subseteq attr'
      /\ \A r \in attr' : r \in cmd.before.attr
      /\ dfile' \subseteq cmd.before.dfile
  BY <1>2, UndoStep
<1>4. cmd.before.obj \in [Pid -> [Oid -> RowType]] /\ obj' \in [Pid -> [Oid -> RowType]]
  BY <1>1 DEF AttrCmd, Snapshots, TypeOK
<1>5. \A p \in Pid : obj'[p] = cmd.before.obj[p]
  BY <1>3, <1>4
<1>6. obj' = cmd.before.obj
  BY <1>4, <1>5
<1> QED
  BY <1>3, <1>6 DEF Undone

\* The step formula of FailedCreateUndone.
FailureUndone == Ends /\ cmd'.ret # "OSD_OK" /\ cmd.op # "OSD_CREATE_PARTITION" => Undone

(* Without faults, a CREATE or CREATE COLLECTION whose attributes are refused   *)
(* half way leaves the objects and the attributes exactly as they were, and no  *)
(* file that was not there: out_remove_obj undoes what the command did, for     *)
(* every number of objects and every attribute list (cdb.c:678, 716).           *)
THEOREM FailedCreationsUndone == ASSUME ~Faults PROVE TSpec => FailedCreateUndone
<1>1. ASSUME TargetInv, TargetInv', HealthInv, UndoOK, [TNext]_tvars
      PROVE  [FailureUndone]_tvars
  <2> SUFFICES ASSUME TNext, Ends, cmd'.ret # "OSD_OK", cmd.op # "OSD_CREATE_PARTITION"
               PROVE  Undone
    BY <1>1 DEF FailureUndone
  <2>1. out_remove_obj /\ last_object
    BY <1>1, FailsInUndo
  <2>2. cmd.op \in {"OSD_CREATE", "OSD_CREATE_COLLECTION"}
    BY DEF Ends, Creating
  <2> QED
    BY <1>1, <2>1, <2>2, UndoneAtLast DEF TargetInv
<1>2. TSpec => [][FailureUndone]_tvars
  BY <1>1, TargetSafe, HealthSafe, UndoSafe, PTL DEF TSpec
<1> QED
  BY <1>2 DEF FailedCreateUndone, FailureUndone
=============================================================================
