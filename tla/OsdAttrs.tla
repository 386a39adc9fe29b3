------------------------------ MODULE OsdAttrs ------------------------------
(***************************************************************************)
(* The values of attributes, and the commands that read a value and write it  *)
(* back: CAS and FA on the two counters of the User Object Atomics page, GEN  *)
(* CAS and COND SETATTR on any attribute (osd.c:3108-3310, cdb.c:1023-1355).   *)
(*                                                                            *)
(* None of them runs in a transaction, only the attributes that come with a    *)
(* CAS or FA do: every statement is a step of its own, and the process may die *)
(* after each.  The server takes the next command when the one in service has  *)
(* ended.                                                                      *)
(***************************************************************************)
EXTENDS OsdStore, Integers, Sequences

CONSTANTS
    CasAttr,    \* (USER_ATOMICS_PG, UAP_CAS)
    FaAttr,     \* (USER_ATOMICS_PG, UAP_FA)
    Word        \* 2^64

ASSUME AttrAssumption ==
    /\ CasAttr \in Attrs /\ FaAttr \in Attrs
    /\ {CasAttr, FaAttr} \cap {Tmstmp, Atomics} = {}
    /\ Word \in Nat \ {0}

VARIABLES
    val,    \* val[<<pid, oid, attribute>>]: the value column, for rows of attr
    op,     \* the atomic command in service
    reply   \* the last command, what it reported and the value it returned

avars == <<vars, val, op, reply>>

\* A value of length 0, one of more than eight bytes, and the name of a page.
NoVal    == -1
Long     == Word
PageName == 0

Value    == NoVal .. Long
Counters == {CasAttr, FaAttr}
Plain    == Attrs \ {CasAttr, FaAttr, Tmstmp, Atomics}

\* An entry of an attribute list.
Entry(a, v) == [name |-> a, value |-> v]

NoOp     == [pc |-> "idle"]
Nothing  == [cmd |-> "NAMESPACE"]

-----------------------------------------------------------------------------
(* Table attr with its values *)

\* A row that is missing and one with an empty value are both "not found".
attr_get_val(k) == IF k \in attr THEN val[k] ELSE NoVal

\* Which rows there are and what they hold, once row k holds v.
attr_set_attr(k, v) ==
    /\ attr' = attr \cup {k}
    /\ val' = [r \in attr \cup {k} |-> IF r = k THEN v ELSE val[r]]

attr_delete_attr(k) ==
    /\ attr' = attr \ {k}
    /\ val' = [r \in attr \ {k} |-> val[r]]

\* Rows that a command removes lose their value, rows that lazy_init_attr adds
\* hold the name of their page.
vals_kept == val' = [r \in attr' |-> IF r \in attr THEN val[r] ELSE PageName]

\* SET ATTRIBUTES of one attribute, in a CDB: a value of length 0 is refused.
set_value(p, o, a, v, embedded) ==
    /\ osd_set_attributes(p, o, a, IF v = NoVal THEN "MISFIT" ELSE "VALUE", embedded)
    /\ val' = [r \in attr' |-> IF r = <<p, o, a>> /\ sense' = "OSD_OK" THEN v
                               ELSE IF r \in attr THEN val[r] ELSE PageName]

-----------------------------------------------------------------------------
(* Steps of the command in service *)

answer(req, ret, out) ==
    /\ op' = NoOp
    /\ reply' = [req |-> req, ret |-> ret, out |-> out]

\* The command ends with an error; what its earlier statements did stays.
give_up(req, ret) ==
    /\ answer(req, ret, NoVal)
    /\ sense' = ret
    /\ UNCHANGED <<tables, disk, root, ic, ccap, val>>

statement_only == sense' = "OSD_OK" /\ UNCHANGED <<obj, coll, disk, root, ic, ccap, reply>>

not_userobject(p, o) == ~obj_ispresent(p, o) \/ get_obj_type(p, o) # "USEROBJECT"

row(r) == <<r.obj[1], r.obj[2], r.name>>

\* Goes on with the statement pc, outside of any transaction.
goto(pc, r, old, todo) == op' = [pc |-> pc, req |-> r, old |-> old, todo |-> todo, saved |-> {}]

\* The checks, and the first statement: the value as it is now.
read_value(r, buflen, first) ==
    LET got == attr_get_val(row(r))
    IN  \/ (not_userobject(r.obj[1], r.obj[2]) \/ DbMayFail) /\ give_up(r, "ILLEGAL_REQUEST")
        \/ /\ ~not_userobject(r.obj[1], r.obj[2])
           /\ (got = Long /\ buflen = 8) \/ DbMayFail
           /\ give_up(r, "HARDWARE_ERROR")
        \/ /\ ~not_userobject(r.obj[1], r.obj[2])
           /\ ~(got = Long /\ buflen = 8)
           /\ goto(first[got = NoVal], r, got, r.rest)
           /\ statement_only /\ UNCHANGED <<attr, val>>

\* A request with too little data, or no buffers, is refused.
cdb_counter(r) ==
    /\ op.pc = "idle"
    /\ \/ r.len < 8 /\ give_up(r, "ILLEGAL_REQUEST")
       \/ r.len >= 8 /\ read_value(r, 8, [missing \in BOOLEAN |-> IF missing THEN "init" ELSE "swap"])

\* The atomics page is initialised when it is first used.
zero_counter(r) == attr_set_attr(row(r), 0)

init_counter ==
    /\ op.pc = "init"
    /\ \/ /\ zero_counter(op.req)
          /\ goto("swap", op.req, 0, op.todo)
          /\ statement_only
       \/ DbMayFail /\ give_up(op.req, "HARDWARE_ERROR")

\* osd_cas writes when the values agree.
osd_cas(r, old) ==
    IF old = r.cmp THEN attr_set_attr(row(r), r.swap) ELSE UNCHANGED <<attr, val>>

MutNoWrap(r, old) == attr_set_attr(row(r), old + r.add)

\* osd_fa always writes; the sum wraps.
osd_fa(r, old) == attr_set_attr(row(r), (old + r.add) % Word)

swap_counter ==
    /\ op.pc = "swap"
    /\ \/ /\ IF op.req.cmd = "CAS" THEN osd_cas(op.req, op.old) ELSE osd_fa(op.req, op.old)
          /\ goto("set", op.req, op.old, op.todo)
          /\ statement_only
       \/ /\ DbMayFail /\ (op.req.cmd = "CAS" => op.old = op.req.cmp)
          /\ give_up(op.req, "HARDWARE_ERROR")

-----------------------------------------------------------------------------
(* GEN CAS and COND SETATTR *)

\* Without a proper list the handler frees a pointer nobody has set: it
\* answers, or the process is gone.
cdb_gen_cas(r) ==
    /\ op.pc = "idle"
    /\ \/ r.len < 8 /\ give_up(r, "ILLEGAL_REQUEST")
       \/ r.len < 8 /\ osd_open /\ vals_kept /\ answer(r, "DIED", NoVal)
       \/ r.len >= 8 /\ read_value(r, 65534, [missing \in BOOLEAN |-> "gswap"])

MutInsertAlways(r, old) == r.swap # NoVal

\* The new value goes in when the old one agrees, or when there is none.
gen_cas_sets(r, old) == r.swap # NoVal /\ (old = NoVal \/ old = r.cmp)

gen_cas_deletes(r, old) == r.swap = NoVal /\ old = r.cmp

osd_gen_cas(r, old) ==
    CASE gen_cas_sets(r, old)    -> attr_set_attr(row(r), r.swap)
      [] gen_cas_deletes(r, old) -> attr_delete_attr(row(r))
      [] OTHER                   -> UNCHANGED <<attr, val>>

\* COND SETATTR skips the other attributes unless the comparison held, which
\* it does not when the new value was put where there was none.
others_to_set(r, old) == IF r.cmd = "COND_SETATTR" /\ old # r.cmp THEN <<>> ELSE r.rest

exec_gen_cas ==
    /\ op.pc = "gswap"
    /\ \/ /\ osd_gen_cas(op.req, op.old)
          /\ goto("set", op.req, op.old, others_to_set(op.req, op.old))
          /\ statement_only
       \/ /\ DbMayFail /\ (gen_cas_sets(op.req, op.old) \/ gen_cas_deletes(op.req, op.old))
          /\ give_up(op.req, "HARDWARE_ERROR")

-----------------------------------------------------------------------------
(* The other attributes of the command, and its end *)

\* CAS and FA: one after the other, from BEGIN before the first to END after the
\* last, or after the first that is refused: those before it stay.
set_attr_list ==
    LET a == Head(op.todo)
        begun == IF op.saved = {} THEN {[attr |-> attr, val |-> val]} ELSE op.saved
    IN  /\ op.pc = "set" /\ op.todo # <<>> /\ op.req.cmd \in {"CAS", "FA"}
        /\ set_value(op.req.obj[1], op.req.obj[2], a.name, a.value, TRUE)
        /\ IF sense' # "OSD_OK" THEN answer(op.req, sense', NoVal)
           ELSE /\ op' = [op EXCEPT !.todo  = Tail(@),
                                    !.saved = IF Tail(op.todo) = <<>> THEN {} ELSE begun]
                /\ UNCHANGED reply

\* The others: no transaction; the first that is refused ends the command.
exec_cas_setattr ==
    LET a == Head(op.todo)
    IN  /\ op.pc = "set" /\ op.todo # <<>> /\ op.req.cmd \notin {"CAS", "FA"}
        /\ set_value(op.req.obj[1], op.req.obj[2], a.name, a.value, TRUE)
        /\ IF sense' = "OSD_OK"
           THEN goto("set", op.req, op.old, Tail(op.todo)) /\ UNCHANGED reply
           ELSE answer(op.req, sense', NoVal)

\* The attributes to retrieve may be refused, or find no room, after all has
\* been done; a request for all of them initialises those of the object.
exec_getattr ==
    /\ op.pc = "set" /\ op.todo = <<>>
    /\ \/ /\ op.req.get = "fits"
          /\ answer(op.req, "OSD_OK", op.old)
          /\ sense' = "OSD_OK" /\ UNCHANGED <<tables, disk, root, ic, ccap, val>>
       \/ /\ op.req.get = "refused" \/ DbMayFail
          /\ give_up(op.req, IF op.req.name \in Counters THEN "PARAM_LIST" ELSE "ILLEGAL_REQUEST")
       \/ /\ op.req.get = "all"
          /\ osd_getattr_list(op.req.obj[1], op.req.obj[2], "GETALLATTR_PG", TRUE)
          /\ vals_kept
          /\ answer(op.req, sense', IF sense' = "OSD_OK" THEN op.old ELSE NoVal)

\* The open transaction is lost when the process is.
rolled_back ==
    \E s \in op.saved :
        /\ attr' = s.attr /\ val' = s.val
        /\ root' = "set" /\ ic' = NoCache /\ ccap' = NoCcap /\ sense' = "OSD_OK"
        /\ UNCHANGED <<obj, coll, disk>>

\* Between two statements; what has been committed is on disk.
die ==
    /\ op.pc # "idle"
    /\ \/ op.saved = {} /\ osd_open /\ vals_kept
       \/ rolled_back
    /\ answer(op.req, "DIED", NoVal)

-----------------------------------------------------------------------------
AInit ==
    /\ Init
    /\ val = <<>>
    /\ op = NoOp
    /\ reply = [req |-> Nothing, ret |-> "OSD_OK", out |-> NoVal]

\* A step of the object store that carries no values of its own.
StoreStep(A) ==
    /\ op.pc = "idle"
    /\ A
    /\ vals_kept
    /\ op' = op /\ reply' = [req |-> Nothing, ret |-> sense', out |-> NoVal]

\* SET ATTRIBUTES as a command.  The counters are left to the atomic commands,
\* but may be given a value that is too long for them.
SetValue(p, o, a, v) ==
    /\ op.pc = "idle"
    /\ set_value(p, o, a, v, FALSE)
    /\ op' = op
    /\ reply' = [req |-> [cmd |-> "SET", objs |-> {<<p, o>>}, list |-> <<Entry(a, v)>>],
                 ret |-> sense', out |-> NoVal]

InService ==
    \/ init_counter \/ swap_counter \/ exec_gen_cas
    \/ set_attr_list \/ exec_cas_setattr \/ exec_getattr \/ die

-----------------------------------------------------------------------------
(* Properties *)

\* Every row has a value, and a counter in service has been read as a number.
AttrTypeOK ==
    /\ DOMAIN val = attr
    /\ \A k \in attr : val[k] \in Value
    /\ op.pc \in {"idle", "init", "swap", "gswap", "set"}
    /\ op.pc \in {"init", "swap"} => op.old \in NoVal .. Word - 1
    /\ op.pc # "idle" /\ op.saved # {} => op.pc = "set" /\ op.todo # <<>>

Status(ret) == IF ret = "OSD_OK" THEN "done" ELSE "failed"

\* The registers of user objects and collections, as they have been committed;
\* a counter without a row counts as 0.
Objects == (IdLB .. MaxPid) \X (IdLB .. MaxOid)

Registers == Objects \X (Counters \cup Plain)

committed ==
    IF op.pc = "idle" \/ op.saved = {} THEN [attr |-> attr, val |-> val]
    ELSE CHOOSE s \in op.saved : TRUE

register(k) ==
    LET row_k == <<k[1][1], k[1][2], k[2]>>
        v == IF row_k \in committed.attr THEN committed.val[row_k] ELSE NoVal
    IN  IF v = NoVal /\ k[2] \in Counters THEN 0 ELSE v

\* The abstract state: the objects there are, their registers, the command in
\* service (with the attributes that it has not committed), and its outcome.
present == {k \in Objects : obj_ispresent(k[1], k[2])}

registers == [k \in Registers |-> register(k)]

in_service ==
    IF op.pc = "idle" THEN [phase |-> "none"]
    ELSE IF op.pc # "set" THEN [phase |-> "asked", req |-> op.req]
    ELSE [phase |-> "applied", req |-> op.req, old |-> op.old,
          todo |-> IF op.saved = {} THEN op.todo ELSE op.req.rest]

outcome == [reply EXCEPT !.ret = Status(@)]

Abstract == INSTANCE AttrRegisters WITH
    Key <- Registers, live <- present, reg <- registers, job <- in_service, reply <- outcome

\* Reads, lazy initialisations and writes in separate statements, failures and
\* deaths between any two, and attributes set along the way implement registers
\* that each command reads and writes in one step: a CAS or FA returns the value
\* its own write replaced, no command takes effect twice or after its reply,
\* and counters of a new object start at 0 whatever an earlier object with the
\* same id had (osd.c:3127-3158, 3196-3222, cdb.c:1303-1355).
ImplementsRegisters == Abstract!Spec

=============================================================================
