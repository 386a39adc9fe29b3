----------------------------- MODULE OsdTarget ------------------------------
(***************************************************************************)
(* The command layer (cdb.c) over the object store: one CDB names a service  *)
(* action and carries attributes to set and to get, so it is served by       *)
(* several handler calls, each in a transaction of its own or in none.       *)
(*                                                                           *)
(* One action is one handler call; the process may die between any two, and  *)
(* inside the two handlers that also touch data files.  FORMAT OSD and the    *)
(* Collections page are left to OsdStore.                                     *)
(***************************************************************************)
EXTENDS OsdStore, Sequences

CONSTANTS
    Requests    \* the attribute parts that a CDB may carry

VARIABLES
    cmd,    \* the command in service, or the outcome of the last one
    txn     \* the tables as they were at BEGIN TRANSACTION, or NoTxn

tvars == <<vars, cmd, txn>>

NoTxn == <<>>

Creating == {"OSD_CREATE", "OSD_CREATE_COLLECTION", "OSD_CREATE_PARTITION"}
Removing == {"OSD_REMOVE", "OSD_REMOVE_PARTITION"}

CreatedType(op) == CASE op = "OSD_CREATE"            -> "USEROBJECT"
                     [] op = "OSD_CREATE_COLLECTION" -> "COLLECTION"
                     [] op = "OSD_CREATE_PARTITION"  -> "PARTITION"

\* ret is what the command returns, sense_out what its sense buffer holds
\* when it does: ZEROS when nobody wrote to it.
NoCmd == [stage |-> "idle", ret |-> "OSD_OK", sense_out |-> "ZEROS"]

Idle(ret, sense_out) == cmd' = [stage |-> "idle", ret |-> ret, sense_out |-> sense_out]

\* A list, or a value, that is refused before the store is asked.
MALFORMED == <<"MALFORMED">>

\* The attribute part of a CDB: attributes to set, and pages to retrieve.  Only
\* the list format has more than one of either.
ASSUME RequestAssumption ==
    \A r \in Requests :
        /\ r.fmt \in {"GETPAGE_SETVALUE", "GETLIST_SETLIST", "GETFIELD_SETVALUE"}
        /\ r.set \in Seq(Attrs \cup {"READ_ONLY"}) \cup {MALFORMED}
        /\ r.get \in Seq(GetPages) \cup {MALFORMED}
        /\ r.fmt # "GETLIST_SETLIST" => Len(r.set) <= 1 /\ Len(r.get) <= 1
        /\ r.fmt = "GETPAGE_SETVALUE" => r.set # MALFORMED

\* What an object's tables held before the command, for the properties.
Snapshot == [obj |-> obj, attr |-> attr, dfile |-> dfile]

-----------------------------------------------------------------------------
(* Commands that create: handler, then set, then get, then undo on failure *)

\* osd_get_created_oid
created_oid(n) == ccap'.oid - (n - 1)

begin_attributes(op, p, o, n, req, first) ==
    cmd' = [stage |-> first, op |-> op, pid |-> p, oid |-> o, n |-> n, req |-> req,
            i |-> o, k |-> 1, ret |-> "OSD_OK", before |-> Snapshot]

cdb_create(p, requested, numoid, req) ==
    LET n == IF numoid = 0 THEN 1 ELSE numoid
        bad_page == /\ numoid > 1
                    /\ req.fmt = "GETPAGE_SETVALUE" /\ req.get # <<"CUR_CMD_ATTR_PG">>
    IN  /\ cmd.stage = "idle"
        /\ UNCHANGED txn
        /\ \/ /\ bad_page
              /\ Rejected("ILLEGAL_REQUEST")
              /\ Idle("ILLEGAL_REQUEST", "ILLEGAL_REQUEST")
           \/ /\ ~bad_page
              /\ osd_create(p, requested, numoid)
              /\ IF sense' = "OSD_OK"
                 THEN begin_attributes("OSD_CREATE", p, created_oid(n), n, req, "set")
                 ELSE Idle(sense', sense')

\* The handler gets a sense buffer of its own, which nobody copies back.
cdb_create_collection(p, requested, req) ==
    /\ cmd.stage = "idle"
    /\ osd_create_collection(p, requested)
    /\ IF sense' = "OSD_OK"
       THEN begin_attributes("OSD_CREATE_COLLECTION", p, ccap'.oid, 1, req, "set")
       ELSE Idle(sense', "ZEROS")
    /\ UNCHANGED txn

cdb_create_partition(requested, req) ==
    /\ cmd.stage = "idle"
    /\ osd_create_partition(requested)
    /\ IF sense' = "OSD_OK"
       THEN begin_attributes("OSD_CREATE_PARTITION", ccap'.pid, PARTITION_OID, 1, req, "set")
       ELSE Idle(sense', sense')
    /\ UNCHANGED txn

(* Commands whose attributes come first *)

cdb_remove(op, p, o, req) ==
    /\ cmd.stage = "idle"
    /\ begin_attributes(op, p, o, 1, req, "set")
    /\ UNCHANGED <<vars, txn>>

\* SET ATTRIBUTES sets and then gets, GET ATTRIBUTES gets and then sets.
attributes_command(op, p, o, req) ==
    /\ cmd.stage = "idle"
    /\ begin_attributes(op, p, o, 1, req, IF op = "OSD_SET_ATTRIBUTES" THEN "set" ELSE "get")
    /\ UNCHANGED <<vars, txn>>

\* REMOVE COLLECTION takes no attributes.
remove_collection_command(p, c, fcr) ==
    /\ cmd.stage = "idle"
    /\ cmd' = [stage |-> "remove", op |-> "OSD_REMOVE_COLLECTION", pid |-> p, oid |-> c, i |-> c,
               fcr |-> fcr, before |-> Snapshot]
    /\ UNCHANGED <<vars, txn>>

-----------------------------------------------------------------------------
(* The attribute loops *)

GetFirst == cmd.op = "OSD_GET_ATTRIBUTES"

\* What follows the attribute loop that just ended.
after_set == IF GetFirst THEN "finish" ELSE "get"
after_get == IF GetFirst THEN "set" ELSE IF cmd.op \in Removing THEN "remove" ELSE "finish"

MutNoUndo(ret) == Idle(ret, ret)

MutErrorIgnored(ret) == cmd' = [cmd EXCEPT !.stage = "finish", !.i = cmd.oid]

\* A loop that fails ends the command, through the removal of what it created.
failed(ret) ==
    IF cmd.op \in Creating
    THEN cmd' = [cmd EXCEPT !.stage = "undo", !.i = cmd.oid, !.ret = ret]
    ELSE Idle(ret, ret)

next_stage(stage) == cmd' = [cmd EXCEPT !.stage = stage, !.i = cmd.oid, !.k = 1]

MutFirstOnly == cmd.i = cmd.oid

last_object == cmd.i = cmd.oid + cmd.n - 1

\* BEGIN TRANSACTION comes with the first call of the loop.
begin_txn == IF txn = NoTxn THEN <<obj, attr, coll>> ELSE txn

MutForgotCommit == txn' = begin_txn

\* END TRANSACTION commits, whether the loop finished or failed.
end_txn == txn' = NoTxn

\* After a call of the loop over `list`: the next object, the next element, or
\* the stage that follows; or the end of the command.
advance(list, stage) ==
    IF sense' # "OSD_OK"
    THEN failed(sense') /\ end_txn
    ELSE IF ~last_object
    THEN cmd' = [cmd EXCEPT !.i = @ + 1] /\ txn' = begin_txn
    ELSE IF cmd.k < Len(list)
    THEN cmd' = [cmd EXCEPT !.i = cmd.oid, !.k = @ + 1] /\ txn' = begin_txn
    ELSE next_stage(stage) /\ end_txn

\* The list or the value is refused before BEGIN TRANSACTION.
refuse_list(reason) == Rejected(reason) /\ failed(reason) /\ UNCHANGED txn

\* One osd_set_attributes call: all objects for one attribute, then the next
\* attribute.  The other two formats are lists of one.
set_attr_list(list) ==
    /\ osd_set_attributes(cmd.pid, cmd.i, list[cmd.k], "VALUE", TRUE)
    /\ advance(list, after_set)

set_attributes ==
    LET list == cmd.req.set
        field == cmd.req.fmt = "GETFIELD_SETVALUE"
    IN  /\ cmd.stage = "set"
        /\ \/ list = <<>> /\ next_stage(after_set) /\ UNCHANGED <<vars, txn>>
           \/ list = MALFORMED /\ refuse_list(IF field THEN "ILLEGAL_REQUEST" ELSE "PARAM_LIST")
           \/ list \notin {<<>>, MALFORMED} /\ set_attr_list(list)

\* One page of the first object, outside a transaction.
get_attr_page(page) ==
    /\ osd_getattr_page(cmd.pid, cmd.oid, page, TRUE)
    /\ IF sense' = "OSD_OK" THEN next_stage(after_get) ELSE failed(sense')
    /\ UNCHANGED txn

\* One osd_getattr_list call of the loop over pages and objects.
get_attr_list(list) ==
    /\ osd_getattr_list(cmd.pid, cmd.i, list[cmd.k], TRUE)
    /\ advance(list, after_get)

\* The field format retrieves nothing.
get_attributes ==
    LET list == IF cmd.req.fmt = "GETFIELD_SETVALUE" THEN <<>> ELSE cmd.req.get
    IN  /\ cmd.stage = "get"
        /\ \/ list = <<>> /\ next_stage(after_get) /\ UNCHANGED <<vars, txn>>
           \/ list = MALFORMED /\ refuse_list("PARAM_LIST")
           \/ /\ list \notin {<<>>, MALFORMED}
              /\ \/ cmd.req.fmt = "GETPAGE_SETVALUE" /\ get_attr_page(list[1])
                 \/ cmd.req.fmt = "GETLIST_SETLIST" /\ get_attr_list(list)

-----------------------------------------------------------------------------
(* The ends of a command *)

finish ==
    /\ cmd.stage = "finish"
    /\ Idle("OSD_OK", "ZEROS")
    /\ UNCHANGED <<vars, txn>>

remove ==
    /\ cmd.stage = "remove"
    /\ \/ cmd.op = "OSD_REMOVE" /\ osd_remove(cmd.pid, cmd.oid)
       \/ cmd.op = "OSD_REMOVE_PARTITION" /\ osd_remove_partition(cmd.pid)
       \/ cmd.op = "OSD_REMOVE_COLLECTION" /\ osd_remove_collection(cmd.pid, cmd.oid, cmd.fcr)
    /\ Idle(sense', IF sense' = "OSD_OK" THEN "ZEROS" ELSE sense')
    /\ UNCHANGED txn

\* out_remove_obj: every object that was created is removed again, one after
\* the other; what osd_remove answers is ignored.
out_remove_obj ==
    /\ cmd.stage = "undo"
    /\ osd_remove(cmd.pid, cmd.i)
    /\ IF last_object THEN Idle(cmd.ret, cmd.ret) ELSE cmd' = [cmd EXCEPT !.i = @ + 1]
    /\ UNCHANGED txn

-----------------------------------------------------------------------------
(* Process death and restart: SQLite rolls an open transaction back, the data  *)
(* files stay as they are, and the initiator gets no reply.                    *)

restart ==
    /\ root' = "set" /\ ic' = NoCache /\ ccap' = NoCcap
    /\ sense' = "OSD_OK" /\ cmd' = NoCmd /\ txn' = NoTxn
    /\ UNCHANGED dbfile

\* Between two handler calls.
crash ==
    /\ IF txn = NoTxn THEN UNCHANGED tables
       ELSE obj' = txn[1] /\ attr' = txn[2] /\ coll' = txn[3]
    /\ UNCHANGED dfile
    /\ restart

\* Inside osd_create, whose rows are in an open transaction: k data files have
\* been made already.
crash_in_create(p, requested, numoid) ==
    LET n == IF numoid = 0 THEN 1 ELSE numoid
    IN  /\ cmd.stage = "idle"
        /\ ~bad_target(p, requested) /\ ~(numoid > 1 /\ requested # 0)
        /\ \E oid \in Oid, k \in 1 .. n :
             /\ chosen_id(p, requested, oid)
             /\ oid + n - 1 \in Oid      \* bound
             /\ \A o \in oid .. oid + k - 1 : creatable(p, o)
             /\ dfile' = osd_create_datafile(p, oid, k)
        /\ UNCHANGED tables
        /\ restart

\* Inside a removal, whose statements commit one by one, before the last.
crash_in_remove ==
    LET p == cmd.pid
        o == cmd.i
    IN  /\ \/ /\ cmd.stage = "undo" \/ (cmd.stage = "remove" /\ cmd.op = "OSD_REMOVE")
              /\ p >= IdLB /\ o >= IdLB
              /\ dfile' = dfile \ {<<p, o>>}
              /\ attr' \in {attr, attr_delete_all(p, o)}
              /\ coll' \in {coll} \cup IF attr' = attr_delete_all(p, o) THEN {coll_delete_oid(p, o)} ELSE {}
           \/ /\ cmd.stage = "remove" /\ cmd.op = "OSD_REMOVE_COLLECTION"
              /\ p >= IdLB /\ o >= IdLB /\ obj_ispresent(p, o)
              /\ coll_isempty_cid(p, o) \/ cmd.fcr # 0
              /\ coll' = coll_delete_cid(p, o)
              /\ attr' \in {attr, attr_delete_all(p, o)}
              /\ UNCHANGED dfile
           \/ /\ cmd.stage = "remove" /\ cmd.op = "OSD_REMOVE_PARTITION"
              /\ p # 0 /\ removable_partition(p)
              /\ attr' = attr_delete_all(p, PARTITION_OID)
              /\ UNCHANGED <<coll, dfile>>
        /\ UNCHANGED obj
        /\ restart

-----------------------------------------------------------------------------
TInit == Init /\ cmd = NoCmd /\ txn = NoTxn

Submit ==
    \/ \E p \in PidInput, r \in OidInput, n \in 0 .. MaxNumOid, req \in Requests :
          cdb_create(p, r, n, req)
    \/ \E p \in PidInput, r \in OidInput, req \in Requests : cdb_create_collection(p, r, req)
    \/ \E r \in PidInput, req \in Requests : cdb_create_partition(r, req)
    \/ \E p \in PidInput, o \in OidInput, req \in Requests : cdb_remove("OSD_REMOVE", p, o, req)
    \/ \E p \in PidInput, req \in Requests :
          cdb_remove("OSD_REMOVE_PARTITION", p, PARTITION_OID, req)
    \/ \E op \in {"OSD_SET_ATTRIBUTES", "OSD_GET_ATTRIBUTES"},
          p \in PidInput, o \in OidInput, req \in Requests : attributes_command(op, p, o, req)
    \/ \E p \in PidInput, c \in OidInput, fcr \in {0, 1} : remove_collection_command(p, c, fcr)

\* The steps a command takes by itself once it is in service.
Serve == set_attributes \/ get_attributes \/ finish \/ remove \/ out_remove_obj

Crash ==
    \/ crash
    \/ crash_in_remove
    \/ \E p \in PidInput, r \in OidInput, n \in 0 .. MaxNumOid : crash_in_create(p, r, n)

TNext == Submit \/ Serve \/ Crash

TSpec == TInit /\ [][TNext]_tvars

-----------------------------------------------------------------------------
(* Properties *)

Ends == cmd.stage # "idle" /\ cmd'.stage = "idle" /\ cmd.op \in Creating

\* No object and no attribute was made or lost, and no file is left behind.
Undone == obj' = cmd.before.obj /\ attr' = cmd.before.attr /\ dfile' \subseteq cmd.before.dfile

\* A CREATE or CREATE COLLECTION whose attributes are refused half way leaves
\* no object, no attribute and no file that was not there before: the removal
\* at out_remove_obj undoes exactly what the command did (cdb.c:678, 716).
FailedCreateUndone ==
    [][Ends /\ cmd'.ret # "OSD_OK" /\ cmd.op # "OSD_CREATE_PARTITION" => Undone]_tvars

\* The same for CREATE PARTITION, as the comment at cdb.c:724 has it: "on
\* failure. no side-effects of create partition remain."
FailedPartitionUndone ==
    [][Ends /\ cmd'.ret # "OSD_OK" /\ cmd.op = "OSD_CREATE_PARTITION" => Undone]_tvars

\* A creating command that reports success has made every object it was asked
\* for, with every attribute it was asked to set, and the current command
\* attributes page still names the last of them (cdb.c:663-674).
CreateDelivers ==
    [][Ends /\ cmd.stage = "finish" =>
        /\ \A o \in cmd.oid .. cmd.oid + cmd.n - 1 :
             /\ obj[cmd.pid][o] = CreatedType(cmd.op)
             /\ cmd.before.obj[cmd.pid][o] = "ILLEGAL_OBJ"
             /\ \A k \in 1 .. Len(cmd.req.set) : <<cmd.pid, o, cmd.req.set[k]>> \in attr
        /\ ccap = [obj_type |-> CreatedType(cmd.op), pid |-> cmd.pid, oid |-> cmd.oid + cmd.n - 1]]_tvars

\* The object a removal in service names.
Named(p, o) == cmd.stage \in {"remove", "undo"} /\ <<p, o>> = <<cmd.pid, cmd.i>>

\* What commands have completed survives every later command and every crash:
\* an object goes only when a removal names it, and an undo names only objects
\* its command made; an attribute goes only with its object, or with the open
\* transaction of the command that was setting it (cdb.c:122-133).
CompletedWorkSurvives ==
    [][\A p \in Pid, o \in Oid :
        /\ obj_ispresent(p, o) /\ ~obj_ispresent(p, o)' =>
             /\ Named(p, o)
             /\ cmd.stage = "undo" => cmd.before.obj[p][o] = "ILLEGAL_OBJ"
        /\ \A a \in Attrs : <<p, o, a>> \in attr \ attr' =>
             Named(p, o) \/ (cmd.stage # "idle" /\ <<p, o, a>> \notin cmd.before.attr)]_tvars

\* What cdb.c:2059 says of every command: it returns "bytes of sense data put
\* into sense[] in case of an error", so an error is never reported with an
\* empty buffer.
ErrorHasSense ==
    cmd.stage = "idle" /\ cmd.ret # "OSD_OK" => cmd.sense_out # "ZEROS"

=============================================================================
