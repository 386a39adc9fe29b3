------------------------- MODULE OsdRegisterProofs --------------------------
(***************************************************************************)
(* The atomic commands implement registers: the steps of OsdAttrs are steps of *)
(* AttrRegisters, for every value of the constants.                            *)
(***************************************************************************)
EXTENDS OsdMultiProofs, SequenceTheorems

\* Initiators that use the registers of objects.
RegisterSpec == MInit /\ [][RegisterNext(OidInput, Value)]_mvars

-----------------------------------------------------------------------------
(* The invariant of the refinement                                            *)

RowOf(k) == <<k[1][1], k[1][2], k[2]>>

\* The value of register k in a table that has the rows a with the values f.
Holds(a, f, k) ==
    LET v == IF RowOf(k) \in a THEN f[RowOf(k)] ELSE NoVal
    IN  IF v = NoVal /\ k[2] \in Counters THEN 0 ELSE v

InTable(a, f) == [k \in Registers |-> Holds(a, f, k)]

Initially0(k) == IF k[2] \in Counters THEN 0 ELSE NoVal

\* The places among the first n of a list at which register k of an object is set.
Places(k, o, list, n) == {i \in 1 .. n : k[1] = o /\ list[i].name = k[2]}

Latest(places) == CHOOSE i \in places : \A j \in places : j <= i

\* Registers R after the first n entries of a list have been set on object o.
AfterFirst(R, o, list, n) ==
    [k \in Registers |->
        LET v == list[Latest(Places(k, o, list, n))].value
        IN  IF Places(k, o, list, n) = {} THEN R[k] ELSE IF v = NoVal THEN Initially0(k) ELSE v]

\* The first n attributes that came with a CAS or FA have been set since its
\* transaction began; n is the number of those that are done.
Uncommitted(n) ==
    /\ n \in 1 .. Len(op.req.rest) - 1
    /\ op.todo = SubSeq(op.req.rest, n + 1, Len(op.req.rest))
    /\ \A i \in 1 .. n : op.req.rest[i].name \in Counters \cup Plain
    /\ \A s \in op.saved :
        InTable(attr, val) = AfterFirst(InTable(s.attr, s.val), op.req.obj, op.req.rest, n)

\* What the command in service has read is what its row still holds; the object
\* is still there; and a transaction is open only in the middle of the list.
ServiceOK ==
    op.pc # "idle" =>
        /\ op.req.obj \in Objects
        /\ obj[op.req.obj[1]][op.req.obj[2]] = "USEROBJECT"
        /\ op.pc \in {"init", "swap"} => op.req.cmd \in {"CAS", "FA"} /\ op.todo = op.req.rest
        /\ op.pc = "gswap" => op.req.cmd \notin {"CAS", "FA"}
        /\ op.pc = "init" => attr_get_val(row(op.req)) = NoVal
        /\ op.pc = "swap" => attr_get_val(row(op.req)) = op.old /\ op.old # NoVal
        /\ op.pc = "gswap" => attr_get_val(row(op.req)) = op.old
        /\ op.pc = "set" /\ op.req.cmd \in {"CAS", "FA"} /\ op.saved = {} => op.todo \in {<<>>, op.req.rest}
        /\ op.pc = "set" /\ op.req.cmd \notin {"CAS", "FA"} => op.saved = {}
        /\ op.saved # {} => \E s : op.saved = {s}
        /\ op.saved # {} => \E n \in Nat : Uncommitted(n)
        /\ \A i \in DOMAIN op.todo : op.todo[i].name \in Counters \cup Plain \cup {"READ_ONLY"}
        /\ \A s \in op.saved : \A k \in s.attr : k[2] # PARTITION_OID => obj_ispresent(k[1], k[2])

RegisterInv == MultiInv /\ StoreInv /\ dbfile = TRUE /\ ServiceOK

-----------------------------------------------------------------------------
(* Steps of the abstract specification, in terms of the abstract state        *)

Step == Abstract!Next \/ UNCHANGED <<present, registers, in_service, outcome>>

NoJob == [phase |-> "none"]

LEMMA IsFail ==
    ASSUME in_service.phase # "none" => outcome'.req = in_service.req,
           outcome'.ret = "failed", in_service' = NoJob, present' = present, registers' = registers
    PROVE  Step
BY DEF Step, Abstract!Next, Abstract!Fail, Abstract!NoJob, NoJob

LEMMA IsAccept ==
    ASSUME in_service = NoJob, in_service'.phase = "asked",
           present' = present, registers' = registers, outcome' = outcome
    PROVE  Step
BY DEF Step, Abstract!Next, Abstract!Accept, Abstract!NoJob, NoJob

LEMMA IsAnswer ==
    ASSUME in_service.phase = "applied", in_service.todo = <<>>, in_service' = NoJob,
           outcome' = [req |-> in_service.req, ret |-> "done", out |-> in_service.old],
           present' = present, registers' = registers
    PROVE  Step
BY DEF Step, Abstract!Next, Abstract!Answer, Abstract!NoJob, NoJob

LEMMA IsApply ==
    ASSUME in_service.phase = "asked", NEW r, r = in_service.req, NEW old, old = registers[<<r.obj, r.name>>],
           registers' = [registers EXCEPT ![<<r.obj, r.name>>] = Abstract!Effect(r, old)],
           in_service' = [phase |-> "applied", req |-> r, old |-> old, todo |-> Abstract!Remaining(r, old)],
           present' = present, outcome' = outcome
    PROVE  Step
BY DEF Step, Abstract!Next, Abstract!Apply, Abstract!Target

\* The last of some places is one of them.
LEMMA LatestIn ==
    ASSUME NEW n \in Nat, NEW places, places \subseteq 1 .. n, places # {}
    PROVE  Latest(places) \in places /\ \A j \in places : j <= Latest(places)
<1> DEFINE back == {n - j : j \in places}
<1>1. back \subseteq Nat /\ back # {}
  <2>1. ASSUME NEW j \in places PROVE n - j \in Nat
    <3>1. j \in 1 .. n
      OBVIOUS
    <3> QED
      BY <3>1
  <2> QED
    BY <2>1
<1>2. PICK b \in back : \A c \in back : b <= c
  BY <1>1, LeastOf
<1>3. PICK l \in places : b = n - l
  OBVIOUS
<1>4. ASSUME NEW j \in places PROVE j <= l
  <2>1. n - j \in back
    OBVIOUS
  <2>2. n - l <= n - j
    BY <1>2, <1>3, <2>1
  <2>3. j \in Int /\ l \in Int
    OBVIOUS
  <2> HIDE DEF back
  <2> QED
    BY <2>2, <2>3
<1> QED
  BY <1>3, <1>4 DEF Latest

\* What AttrRegisters says of the first entries of a list.
LEMMA AssignedFirst ==
    ASSUME NEW o, NEW list \in Seq(Entries), NEW n \in 0 .. Len(list)
    PROVE  Abstract!Assigned({o}, SubSeq(list, 1, n)) = AfterFirst(registers, o, list, n)
<1> DEFINE first == SubSeq(list, 1, n)
           entries(k) == {i \in 1 .. Len(first) : k[1] \in {o} /\ first[i].name = k[2]}
           last(k) == first[Latest(entries(k))].value
<1>1. n \in Nat /\ Len(first) = n /\ \A i \in 1 .. n : first[i] = list[i]
  OBVIOUS
<1> HIDE DEF first
<1>2. ASSUME NEW k PROVE entries(k) = Places(k, o, list, n)
  BY <1>1 DEF Places
<1>3. ASSUME NEW k, Places(k, o, list, n) # {}
      PROVE  last(k) = list[Latest(Places(k, o, list, n))].value
  <2>1. Places(k, o, list, n) \subseteq 1 .. n
    BY DEF Places
  <2>2. Latest(Places(k, o, list, n)) \in 1 .. n
    BY <1>1, <1>3, <2>1, LatestIn
  <2> QED
    BY <1>1, <1>2, <2>2
<1>4. Abstract!Assigned({o}, first) =
          [k \in Registers |-> IF entries(k) = {} THEN registers[k]
                               ELSE IF last(k) = NoVal THEN Abstract!Initial(k) ELSE last(k)]
  BY DEF Abstract!Assigned, Latest
<1>5. \A k : Abstract!Initial(k) = Initially0(k)
  BY DEF Abstract!Initial, Initially0
<1> HIDE DEF entries, last
<1>6. Abstract!Assigned({o}, first) = AfterFirst(registers, o, list, n)
  BY <1>2, <1>3, <1>4, <1>5 DEF AfterFirst
<1> QED
  BY <1>6 DEF first

LEMMA IsSetSome ==
    ASSUME in_service.phase = "applied", in_service.todo \in Seq(Entries),
           NEW n \in 1 .. Len(in_service.todo),
           \A i \in 1 .. n : <<in_service.req.obj, in_service.todo[i].name>> \in Registers,
           registers' = AfterFirst(registers, in_service.req.obj, in_service.todo, n),
           in_service' = [in_service EXCEPT !.todo = SubSeq(in_service.todo, n + 1, Len(in_service.todo))],
           present' = present, outcome' = outcome
    PROVE  Step
<1>1. Abstract!SetFirst(n)
  BY AssignedFirst DEF Abstract!SetFirst
<1> QED
  BY <1>1 DEF Step, Abstract!Next, Abstract!SetSome

LEMMA IsFailAfter ==
    ASSUME in_service.phase = "applied", in_service.todo \in Seq(Entries),
           NEW n \in 1 .. Len(in_service.todo),
           \A i \in 1 .. n : <<in_service.req.obj, in_service.todo[i].name>> \in Registers,
           registers' = AfterFirst(registers, in_service.req.obj, in_service.todo, n),
           outcome'.req = in_service.req, outcome'.ret = "failed", in_service' = NoJob,
           present' = present
    PROVE  Step
<1>1. Abstract!SetFirst(n)
  BY AssignedFirst DEF Abstract!SetFirst
<1> QED
  BY <1>1 DEF Step, Abstract!Next, Abstract!Fail, Abstract!NoJob, NoJob

LEMMA IsSet ==
    ASSUME in_service = NoJob, in_service' = in_service, present' = present,
           NEW o, NEW list \in Seq(Entries),
           outcome'.req.cmd = "SET", outcome'.req.objs = {o}, outcome'.req.list = list,
           registers' = AfterFirst(registers, o, list, Len(list))
    PROVE  Step
<1>1. SubSeq(list, 1, Len(list)) = list /\ Len(list) \in 0 .. Len(list)
  OBVIOUS
<1>2. registers' = Abstract!Assigned({o}, list)
  BY <1>1, AssignedFirst
<1> QED
  BY <1>2 DEF Step, Abstract!Next, Abstract!Set, Abstract!NoJob, NoJob

LEMMA IsNamespace ==
    ASSUME in_service = NoJob, in_service' = in_service, outcome'.req.cmd = "NAMESPACE",
           \A k \in Registers :
               \/ k[1] \in present \cap present' /\ registers'[k] = registers[k]
               \/ (k[1] \notin present \cap present' \/ outcome'.ret = "failed")
                    /\ registers'[k] = Initially0(k)
    PROVE  Step
<1>1. Abstract!Namespace
  BY DEF Abstract!Namespace, Abstract!NoJob, NoJob, Abstract!Initial, Initially0
<1> QED
  BY <1>1 DEF Step, Abstract!Next

-----------------------------------------------------------------------------
(* Registers and rows                                                         *)

LEMMA RegisterKey ==
    ASSUME NEW k \in Registers
    PROVE  /\ k = <<k[1], k[2]>> /\ k[1] = <<k[1][1], k[1][2]>> /\ k[1] \in Objects
           /\ k[1][1] \in IdLB .. MaxPid /\ k[1][2] \in IdLB .. MaxOid
           /\ k[2] \in Counters \cup Plain
BY DEF Registers, Objects

\* What a name may be: a register, or one of the rows that are made lazily.
LEMMA RegisterNames ==
    /\ Counters \cup Plain \subseteq Attrs
    /\ Tmstmp \notin Counters \cup Plain /\ Atomics \notin Counters \cup Plain
    /\ Counters \cap Plain = {} /\ Counters # {} /\ "READ_ONLY" \notin Counters \cup Plain
BY AttrAssumption, InputAssumption DEF Counters, Plain

LEMMA SameRow ==
    ASSUME NEW k \in Registers, NEW l \in Registers, RowOf(k) = RowOf(l)
    PROVE  k = l
<1>1. k[1][1] = l[1][1] /\ k[1][2] = l[1][2] /\ k[2] = l[2]
  BY DEF RowOf
<1>2. k[1] = l[1]
  BY <1>1, RegisterKey
<1> QED
  BY <1>1, <1>2, RegisterKey

\* Outside a transaction, the registers are what the table holds ...
LEMMA RegistersNow ==
    ASSUME op.pc = "idle" \/ op.saved = {}
    PROVE  registers = InTable(attr, val)
<1>1. committed = [attr |-> attr, val |-> val]
  BY DEF committed
<1>2. committed.attr = attr /\ committed.val = val
  BY <1>1
<1> QED
  BY <1>2 DEF registers, register, InTable, Holds, RowOf

\* ... and inside, what it held at BEGIN.
LEMMA RegistersSaved ==
    ASSUME op.pc # "idle", NEW s, op.saved = {s}
    PROVE  registers = InTable(s.attr, s.val)
<1>1. committed = s
  BY DEF committed
<1> QED
  BY <1>1 DEF registers, register, InTable, Holds, RowOf

\* The same of the next state.
LEMMA RegistersNext ==
    ASSUME op'.pc = "idle" \/ op'.saved = {}
    PROVE  registers' = InTable(attr', val')
<1>1. committed' = [attr |-> attr', val |-> val']
  BY DEF committed
<1>2. committed'.attr = attr' /\ committed'.val = val'
  BY <1>1
<1> QED
  BY <1>2 DEF registers, register, InTable, Holds, RowOf

LEMMA RegistersNextSaved ==
    ASSUME op'.pc # "idle", NEW s, op'.saved = {s}
    PROVE  registers' = InTable(s.attr, s.val)
<1>1. committed' = s
  BY DEF committed
<1> QED
  BY <1>1 DEF registers, register, InTable, Holds, RowOf

\* Rows that are gone hold what they initially did; the others what they held.
LEMMA KeptRegister ==
    ASSUME vals_kept, NEW k \in Registers, RowOf(k) \in attr' => RowOf(k) \in attr
    PROVE  Holds(attr', val', k) = IF RowOf(k) \in attr' THEN Holds(attr, val, k) ELSE Initially0(k)
BY DEF vals_kept, Holds, Initially0

LEMMA RowWritten ==
    ASSUME NEW k \in Registers, NEW v, v # NoVal, attr_set_attr(RowOf(k), v)
    PROVE  InTable(attr', val') = [InTable(attr, val) EXCEPT ![k] = v]
<1>1. Holds(attr', val', k) = v
  BY DEF attr_set_attr, Holds
<1>2. ASSUME NEW l \in Registers, l # k PROVE Holds(attr', val', l) = Holds(attr, val, l)
  <2>1. RowOf(l) # RowOf(k)
    BY <1>2, SameRow
  <2> QED
    BY <2>1 DEF attr_set_attr, Holds
<1> HIDE DEF Holds
<1> QED
  BY <1>1, <1>2 DEF InTable

LEMMA RowErased ==
    ASSUME NEW k \in Registers, attr_delete_attr(RowOf(k))
    PROVE  InTable(attr', val') = [InTable(attr, val) EXCEPT ![k] = Initially0(k)]
<1>1. Holds(attr', val', k) = Initially0(k)
  BY DEF attr_delete_attr, Holds, Initially0
<1>2. ASSUME NEW l \in Registers, l # k PROVE Holds(attr', val', l) = Holds(attr, val, l)
  <2>1. RowOf(l) # RowOf(k)
    BY <1>2, SameRow
  <2> QED
    BY <2>1 DEF attr_delete_attr, Holds
<1> HIDE DEF Holds
<1> QED
  BY <1>1, <1>2 DEF InTable

\* An attribute that is set is one more entry of a list.
LEMMA ValueWritten ==
    ASSUME NEW o \in Pid \X Oid, NEW a \in Attrs, NEW v, NEW e, sense' = "OSD_OK",
           set_value(o[1], o[2], a, v, e)
    PROVE  \A k \in Registers :
               Holds(attr', val', k) =
                   IF k[1] = o /\ k[2] = a THEN IF v = NoVal THEN Initially0(k) ELSE v
                   ELSE Holds(attr, val, k)
<1> DEFINE rw == <<o[1], o[2], a>>
<1>1. /\ attr' = (IF v = NoVal THEN attr \ {rw} ELSE attr \cup {rw})
      /\ val' = [r \in attr' |-> IF r = rw THEN v ELSE IF r \in attr THEN val[r] ELSE PageName]
  BY DEF set_value, osd_set_attributes, Rejected
<1>2. ASSUME NEW k \in Registers PROVE (RowOf(k) = rw) <=> (k[1] = o /\ k[2] = a)
  <2>1. o = <<o[1], o[2]>>
    OBVIOUS
  <2> QED
    BY <2>1, RegisterKey DEF RowOf
<1> HIDE DEF rw
<1> SUFFICES ASSUME NEW k \in Registers
             PROVE  Holds(attr', val', k) =
                        IF k[1] = o /\ k[2] = a THEN IF v = NoVal THEN Initially0(k) ELSE v
                        ELSE Holds(attr, val, k)
  OBVIOUS
<1>3. CASE RowOf(k) = rw /\ v = NoVal
  BY <1>1, <1>2, <1>3 DEF Holds, Initially0
<1>4. CASE RowOf(k) = rw /\ v # NoVal
  BY <1>1, <1>2, <1>4 DEF Holds
<1>5. CASE RowOf(k) # rw
  BY <1>1, <1>2, <1>5 DEF Holds
<1> QED
  BY <1>3, <1>4, <1>5

LEMMA NothingWritten ==
    ASSUME NEW p, NEW o, NEW a, NEW v, NEW e, sense' # "OSD_OK", ValOK, set_value(p, o, a, v, e)
    PROVE  attr' = attr /\ val' = val
<1>1. attr' = attr
  BY DEF set_value, osd_set_attributes, attr_reply, Rejected, tables
<1> QED
  BY <1>1 DEF set_value, ValOK

LEMMA AfterNone ==
    ASSUME NEW a, NEW f, NEW o, NEW list
    PROVE  AfterFirst(InTable(a, f), o, list, 0) = InTable(a, f)
<1>1. \A k : Places(k, o, list, 0) = {}
  BY DEF Places
<1>2. \A k \in Registers : InTable(a, f)[k] = Holds(a, f, k)
  BY DEF InTable
<1> QED
  BY <1>1, <1>2 DEF AfterFirst, InTable

\* The last of a set of numbers is unique.
LEMMA LatestIs ==
    ASSUME NEW n \in Nat, NEW places, places \subseteq 1 .. n, NEW l \in places, \A j \in places : j <= l
    PROVE  Latest(places) = l
<1>1. Latest(places) \in places /\ \A j \in places : j <= Latest(places)
  BY LatestIn
<1>2. Latest(places) <= l /\ l <= Latest(places)
  BY <1>1
<1>3. Latest(places) \in 1 .. n /\ l \in 1 .. n
  BY <1>1
<1> QED
  BY <1>2, <1>3

\* One more entry.
LEMMA AfterOneMore ==
    ASSUME NEW R, NEW o, NEW list, NEW n \in Nat, NEW T,
           T = [k \in Registers |->
                   IF k[1] = o /\ k[2] = list[n + 1].name
                   THEN IF list[n + 1].value = NoVal THEN Initially0(k) ELSE list[n + 1].value
                   ELSE AfterFirst(R, o, list, n)[k]]
    PROVE  T = AfterFirst(R, o, list, n + 1)
<1> DEFINE before(k) == Places(k, o, list, n)
           now(k) == Places(k, o, list, n + 1)
<1>0. 1 .. n + 1 = (1 .. n) \cup {n + 1} /\ n + 1 \notin 1 .. n /\ n + 1 \in Nat
  OBVIOUS
<1>1. ASSUME NEW k \in Registers
      PROVE  now(k) = before(k) \cup (IF k[1] = o /\ k[2] = list[n + 1].name THEN {n + 1} ELSE {})
  BY <1>0 DEF Places
<1>2. ASSUME NEW k \in Registers, k[1] = o, k[2] = list[n + 1].name
      PROVE  now(k) # {} /\ Latest(now(k)) = n + 1
  <2>1. now(k) \subseteq 1 .. n + 1 /\ n + 1 \in now(k)
    BY <1>0, <1>2 DEF Places
  <2>2. \A j \in now(k) : j <= n + 1
    <3> SUFFICES ASSUME NEW j \in 1 .. n + 1 PROVE j <= n + 1
      BY <2>1
    <3> QED
      OBVIOUS
  <2> HIDE DEF now
  <2> QED
    BY <1>0, <2>1, <2>2, LatestIs
<1>3. ASSUME NEW k \in Registers, ~(k[1] = o /\ k[2] = list[n + 1].name)
      PROVE  now(k) = before(k)
  BY <1>1, <1>3
<1> HIDE DEF before, now
<1>4. ASSUME NEW k \in Registers PROVE T[k] = AfterFirst(R, o, list, n + 1)[k]
  <2>1. CASE k[1] = o /\ k[2] = list[n + 1].name
    BY <1>2, <2>1 DEF AfterFirst, now
  <2>2. CASE ~(k[1] = o /\ k[2] = list[n + 1].name)
    BY <1>3, <2>2 DEF AfterFirst, now, before
  <2> QED
    BY <2>1, <2>2
<1>5. AfterFirst(R, o, list, n + 1) = [k \in Registers |-> AfterFirst(R, o, list, n + 1)[k]]
  BY DEF AfterFirst
<1> QED
  BY <1>4, <1>5

\* Entry n + 1 of a list is set on o, after the first n.
LEMMA EntryWritten ==
    ASSUME NEW R, NEW o \in Pid \X Oid, NEW list, NEW n \in Nat, NEW e, list[n + 1].name \in Attrs,
           InTable(attr, val) = AfterFirst(R, o, list, n),
           set_value(o[1], o[2], list[n + 1].name, list[n + 1].value, e), sense' = "OSD_OK"
    PROVE  InTable(attr', val') = AfterFirst(R, o, list, n + 1)
<1> DEFINE a == list[n + 1].name
           v == list[n + 1].value
<1>0. a \in Attrs /\ set_value(o[1], o[2], a, v, e)
  OBVIOUS
<1> HIDE DEF a, v
<1>1. \A k \in Registers :
          Holds(attr', val', k) =
              IF k[1] = o /\ k[2] = a THEN IF v = NoVal THEN Initially0(k) ELSE v
              ELSE Holds(attr, val, k)
  BY <1>0, ValueWritten
<1>2. \A k \in Registers : Holds(attr, val, k) = AfterFirst(R, o, list, n)[k]
  BY DEF InTable
<1>3. InTable(attr', val') =
          [k \in Registers |->
                   IF k[1] = o /\ k[2] = list[n + 1].name
                   THEN IF list[n + 1].value = NoVal THEN Initially0(k) ELSE list[n + 1].value
                   ELSE AfterFirst(R, o, list, n)[k]]
  BY <1>1, <1>2 DEF InTable, a, v
<1> QED
  BY <1>3, AfterOneMore

-----------------------------------------------------------------------------
(* Commands of the object store                                               *)

\* A row that is not made lazily appears only when it is set, and one of an
\* object that stays disappears only in a command that fails.
RowsStay ==
    \A k \in Registers :
        /\ RowOf(k) \in attr' => RowOf(k) \in attr
        /\ RowOf(k) \in attr /\ RowOf(k) \notin attr' /\ k[1] \in present' => sense' # "OSD_OK"

LEMMA SameRows == ASSUME attr' = attr PROVE RowsStay
BY DEF RowsStay

LEMMA RemovedRows ==
    ASSUME TypeOK, NEW p \in Pid, NEW o \in Oid,
           attr' \in {attr, attr_delete_all(p, o)},
           obj' = obj_delete(p, o) \/ sense' # "OSD_OK" \/ o = PARTITION_OID
    PROVE  RowsStay
<1> SUFFICES ASSUME NEW k \in Registers, attr' = attr_delete_all(p, o),
                    RowOf(k) \in attr, RowOf(k) \notin attr', k[1] \in present'
             PROVE  sense' # "OSD_OK"
  BY DEF RowsStay, attr_delete_all
<1>1. RowOf(k)[1] = p /\ RowOf(k)[2] = o
  BY DEF attr_delete_all
<1>2. k[1] = <<p, o>> /\ o \in IdLB .. MaxOid
  BY <1>1, RegisterKey DEF RowOf
<1>3. o # PARTITION_OID
  BY <1>2, IdAssumption DEF PARTITION_OID
<1>4. obj'[p][o] # "ILLEGAL_OBJ"
  BY <1>2 DEF present, obj_ispresent
<1> QED
  BY <1>3, <1>4, DeleteRow DEF TypeOK

LEMMA LazyRowsStay ==
    ASSUME NEW p, NEW o, NEW k, attr' = lazy_init_attr(p, o, k) PROVE RowsStay
<1> SUFFICES ASSUME NEW l \in Registers PROVE RowOf(l) \in attr' <=> RowOf(l) \in attr
  BY DEF RowsStay
<1>1. l[2] # Tmstmp /\ l[2] # Atomics
  BY RegisterKey, RegisterNames
<1>2. RowOf(l)[3] = l[2]
  BY DEF RowOf
<1>3. \A x \in attr' : x \in attr \/ x[3] \in {Tmstmp, Atomics}
  BY DEF lazy_init_attr
<1>4. attr \subseteq attr'
  BY DEF lazy_init_attr
<1> QED
  BY <1>1, <1>2, <1>3, <1>4

LEMMA GetAttrRows ==
    ASSUME NEW p, NEW o, NEW page, NEW e, osd_getattr_list(p, o, page, e)
    PROVE  RowsStay /\ UNCHANGED <<obj, disk>>
<1>1. CASE get_refused(p, o, page)
  BY <1>1, SameRows DEF get_refused, Rejected, tables
<1>2. CASE (\E k \in {0, 1, 2} : attr' = lazy_init_attr(p, o, k) \/ attr' = attr) /\ UNCHANGED <<obj, disk>>
  BY <1>2, SameRows, LazyRowsStay
<1> QED
  BY <1>1, <1>2 DEF osd_getattr_list

LEMMA NamespaceRows ==
    ASSUME TypeOK, dbfile = TRUE, Namespace PROVE RowsStay /\ dbfile' = TRUE
<1>1. ASSUME NEW p \in Pid, NEW o \in Oid, osd_create(p, o, 1) PROVE RowsStay /\ dbfile' = TRUE
  <2>1. CASE attr' = attr /\ dbfile' = dbfile
    BY <2>1, SameRows
  <2>2. CASE attr' \subseteq attr /\ sense' = "HARDWARE_ERROR" /\ dbfile' = dbfile
    BY <2>2 DEF RowsStay
  <2>3. ASSUME NEW oid \in Oid, create_objects(p, o, oid, 1) PROVE RowsStay /\ dbfile' = TRUE
    BY <2>1, <2>3 DEF create_objects
  <2>4. ASSUME NEW oid \in Oid, oid + 1 - 1 \in Oid, NEW bad \in oid .. oid + 1 - 1,
               create_undone(p, oid, 1, bad)
        PROVE  RowsStay /\ dbfile' = TRUE
    BY <2>2, <2>4, UndoneEffect
  <2> QED
    BY <1>1, <2>1, <2>3, <2>4 DEF osd_create, Rejected, nextoid_failed, tables, disk
<1>2. ASSUME NEW p \in Pid, NEW o \in Oid, osd_create_collection(p, o) PROVE RowsStay /\ dbfile' = TRUE
  BY <1>2, SameRows
  DEF osd_create_collection, insert_collection, Rejected, nextoid_failed, tables, disk
<1>3. ASSUME NEW p \in Pid, NEW o \in Oid, osd_remove(p, o) PROVE RowsStay /\ dbfile' = TRUE
  <2>1. CASE Rejected("ILLEGAL_REQUEST")
    BY <2>1, SameRows DEF Rejected, tables, disk
  <2>2. ASSUME NEW done \in Completed(3),
               attr' = IF done >= 1 THEN attr_delete_all(p, o) ELSE attr,
               obj'  = IF done >= 3 THEN obj_delete(p, o) ELSE obj,
               removal_reply(done, 3, "USEROBJECT", p, o)
        PROVE  RowsStay
    <3>1. obj' = obj_delete(p, o) \/ sense' # "OSD_OK"
      BY <2>2 DEF removal_reply, Completed
    <3> QED
      BY <2>2, <3>1, RemovedRows
  <2> QED
    BY <1>3, <2>1, <2>2 DEF osd_remove
<1>4. ASSUME NEW p \in Pid, NEW o \in Oid, osd_remove_collection(p, o, 1) PROVE RowsStay /\ dbfile' = TRUE
  <2>1. CASE attr' = attr /\ dbfile' = dbfile
    BY <2>1, SameRows
  <2>2. ASSUME NEW done \in Completed(3),
               attr' = IF done >= 2 THEN attr_delete_all(p, o) ELSE attr,
               obj'  = IF done >= 3 THEN obj_delete(p, o) ELSE obj,
               removal_reply(done, 3, "COLLECTION", p, o)
        PROVE  RowsStay
    <3>1. obj' = obj_delete(p, o) \/ sense' # "OSD_OK"
      BY <2>2 DEF removal_reply, Completed
    <3> QED
      BY <2>2, <3>1, RemovedRows
  <2> QED
    BY <1>4, <2>1, <2>2 DEF osd_remove_collection, Rejected, tables, disk
<1>5. ASSUME NEW p \in Pid, osd_remove_partition(p) PROVE RowsStay /\ dbfile' = TRUE
  <2>1. CASE attr' = attr /\ dbfile' = dbfile
    BY <2>1, SameRows
  <2>2. CASE attr' = attr_delete_all(p, PARTITION_OID) /\ dbfile' = dbfile
    BY <2>2, RemovedRows, Inputs DEF PARTITION_OID
  <2> QED
    BY <1>5, <2>1, <2>2 DEF osd_remove_partition, Rejected, tables, disk
<1>6. ASSUME NEW p \in Pid, osd_create_partition(p) PROVE RowsStay /\ dbfile' = TRUE
  BY <1>6, SameRows DEF osd_create_partition, Rejected, tables, disk
<1>7. ASSUME NEW p \in Pid, NEW o \in Oid, NEW c \in Oid, NEW n, NEW len, set_cap(p, o, n, c, len, FALSE)
      PROVE  RowsStay /\ dbfile' = TRUE
  BY <1>7, SameRows DEF set_cap, Rejected, tables, disk
<1>8. ASSUME osd_open PROVE RowsStay /\ dbfile' = TRUE
  BY <1>8, SameRows DEF osd_open, restarted, tables
<1> QED
  BY <1>1, <1>2, <1>3, <1>4, <1>5, <1>6, <1>7, <1>8, GetAttrRows DEF Namespace, disk

LEMMA NamespaceSafe == ASSUME TypeOK, StoreInv, Namespace PROVE StoreInv'
BY CreateKeeps, CreateCollectionKeeps, RemoveKeeps, RemoveCollectionKeeps, GetAttrKeeps,
   CreatePartitionKeeps, RemovePartitionKeeps, SetCapKeeps, OpenKeeps DEF Namespace

-----------------------------------------------------------------------------
(* Steps of the commands                                                      *)

Good == ServiceOK' /\ StoreInv' /\ dbfile' = TRUE /\ Step

LEMMA OutcomeIs ==
    ASSUME NEW r, NEW ret, NEW out, reply' = [req |-> r, ret |-> ret, out |-> out]
    PROVE  outcome' = [req |-> r, ret |-> Status(ret), out |-> out]
BY DEF outcome

LEMMA SameOutcome == ASSUME reply' = reply PROVE outcome' = outcome
BY DEF outcome

LEMMA SamePresent == ASSUME obj' = obj PROVE present' = present
BY DEF present, obj_ispresent

LEMMA Idle == ASSUME op.pc = "idle" PROVE in_service = NoJob
BY DEF in_service, NoJob

LEMMA IdleNext == ASSUME op'.pc = "idle" PROVE in_service' = NoJob /\ ServiceOK'
BY DEF in_service, NoJob, ServiceOK

LEMMA Ended ==
    ASSUME NEW r, NEW ret, NEW out, answer(r, ret, out)
    PROVE  /\ op'.pc = "idle" /\ in_service' = NoJob /\ ServiceOK'
           /\ outcome' = [req |-> r, ret |-> Status(ret), out |-> out]
           /\ registers' = InTable(attr', val')
<1>1. op'.pc = "idle"
  BY DEF answer, NoOp
<1>2. outcome' = [req |-> r, ret |-> Status(ret), out |-> out]
  BY OutcomeIs DEF answer
<1> QED
  BY <1>1, <1>2, IdleNext, RegistersNext

\* The request of the command in service.
LEMMA ServiceRequest ==
    ASSUME op.pc # "idle"
    PROVE  /\ in_service.req = op.req
           /\ op.pc # "set" => in_service = [phase |-> "asked", req |-> op.req]
           /\ op.pc = "set" => in_service = [phase |-> "applied", req |-> op.req, old |-> op.old,
                                             todo |-> IF op.saved = {} THEN op.todo ELSE op.req.rest]
BY DEF in_service

\* A command fails, and the registers stay as they are.
LEMMA FailStep ==
    ASSUME NEW r, NEW ret, NEW out, op.pc # "idle" => r = op.req, ret # "OSD_OK", answer(r, ret, out),
           obj' = obj, InTable(attr', val') = registers
    PROVE  Step
<1>1. in_service.phase # "none" => op.pc # "idle"
  BY Idle DEF NoJob
<1>2. outcome'.req = r /\ outcome'.ret = "failed"
  BY Ended DEF Status
<1>3. in_service' = NoJob /\ registers' = registers
  BY Ended
<1> QED
  BY <1>1, <1>2, <1>3, ServiceRequest, SamePresent, IsFail

\* What a statement on table attr means for the invariant of the store.
LEMMA AttrsInStore ==
    ASSUME StoreInv, obj' = obj, ic' = ic \/ ic' = NoCache,
           \A k \in attr' : k \in attr \/ (k[2] # PARTITION_OID => obj_ispresent(k[1], k[2]))
    PROVE  StoreInv'
BY DEF StoreInv, IdCacheSound, Contained, AttrsOwned, obj_ispresent, NoCache

LEMMA GiveUpStep ==
    ASSUME RegisterInv, NEW r, NEW ret, op.pc # "idle" => r = op.req, ret # "OSD_OK",
           op.pc = "idle" \/ op.saved = {}, give_up(r, ret)
    PROVE  Good
<1>1. answer(r, ret, NoVal) /\ UNCHANGED <<obj, attr, val, ic, dbfile>>
  BY DEF give_up, tables, disk
<1>2. registers = InTable(attr', val')
  BY <1>1, RegistersNow
<1>3. Step
  BY <1>1, <1>2, FailStep
<1>4. StoreInv'
  BY <1>1, AttrsInStore DEF RegisterInv
<1> QED
  BY <1>1, <1>3, <1>4, Ended DEF Good, RegisterInv

\* The process is opened again.
LEMMA OpenStep ==
    ASSUME RegisterInv, NEW r, op.pc # "idle" => r = op.req, op.pc = "idle" \/ op.saved = {},
           osd_open, vals_kept, answer(r, "DIED", NoVal)
    PROVE  Good
<1>1. UNCHANGED <<obj, attr>> /\ dbfile' = TRUE
  BY DEF osd_open, restarted, tables, RegisterInv
<1>2. val' = val
  BY <1>1 DEF vals_kept, RegisterInv, MultiInv, ValOK
<1>3. registers = InTable(attr', val')
  BY <1>1, <1>2, RegistersNow
<1>4. Step
  BY <1>1, <1>3, FailStep
<1>5. StoreInv'
  BY OpenKeeps DEF RegisterInv
<1> QED
  BY <1>1, <1>4, <1>5, Ended DEF Good

\* A command in service, outside a transaction, after a statement.
LEMMA GotoService ==
    ASSUME NEW pc, NEW r, NEW old, NEW todo, goto(pc, r, old, todo)
    PROVE  /\ op'.pc = pc /\ op'.req = r /\ op'.old = old /\ op'.todo = todo /\ op'.saved = {}
           /\ registers' = InTable(attr', val')
           /\ pc # "idle" /\ pc # "set" => in_service' = [phase |-> "asked", req |-> r]
           /\ pc = "set" => in_service' = [phase |-> "applied", req |-> r, old |-> old, todo |-> todo]
<1>1. /\ op'.pc = pc /\ op'.req = r /\ op'.old = old /\ op'.todo = todo /\ op'.saved = {}
  BY DEF goto
<1>2. registers' = InTable(attr', val')
  BY <1>1, RegistersNext
<1>3. /\ pc # "idle" /\ pc # "set" => in_service' = [phase |-> "asked", req |-> r]
      /\ pc = "set" => in_service' = [phase |-> "applied", req |-> r, old |-> old, todo |-> todo]
  BY <1>1 DEF in_service
<1> QED
  BY <1>1, <1>2, <1>3

\* The names of a list that came with a request.
LEMMA RestNames ==
    ASSUME NEW r \in Requests
    PROVE  \A i \in DOMAIN r.rest : r.rest[i].name \in Counters \cup Plain \cup {"READ_ONLY"}
BY InitiatorAssumption

\* The checks and the first statement.
LEMMA ReadStep ==
    ASSUME RegisterInv, op.pc = "idle", NEW r \in Requests, NEW buflen, NEW first, read_value(r, buflen, first),
           \/ r.cmd \in {"CAS", "FA"} /\ first = [missing \in BOOLEAN |-> IF missing THEN "init" ELSE "swap"]
           \/ r.cmd \notin {"CAS", "FA"} /\ first = [missing \in BOOLEAN |-> "gswap"]
    PROVE  Good
<1> DEFINE got == attr_get_val(row(r))
<1>1. CASE give_up(r, "ILLEGAL_REQUEST") \/ give_up(r, "HARDWARE_ERROR")
  BY <1>1, GiveUpStep
<1>2. CASE /\ ~not_userobject(r.obj[1], r.obj[2])
           /\ goto(first[got = NoVal], r, got, r.rest)
           /\ statement_only /\ UNCHANGED <<attr, val>>
  <2>1. (got = NoVal) \in BOOLEAN /\ got = attr_get_val(row(r))'
    BY <1>2 DEF attr_get_val
  <2> HIDE DEF got
  <2> DEFINE pc == first[got = NoVal]
  <2>2. /\ r.cmd \in {"CAS", "FA"} => pc = IF got = NoVal THEN "init" ELSE "swap"
        /\ r.cmd \notin {"CAS", "FA"} => pc = "gswap"
    BY <2>1
  <2>3. pc \in {"init", "swap", "gswap"}
    BY <2>2
  <2> HIDE DEF pc
  <2>4. goto(pc, r, got, r.rest)
    BY <1>2 DEF pc
  <2>5. UNCHANGED <<obj, ic, dbfile, reply, attr, val>>
    BY <1>2 DEF statement_only, disk
  <2>6. in_service' = [phase |-> "asked", req |-> r] /\ registers' = registers
    BY <2>3, <2>4, <2>5, GotoService, RegistersNow
  <2>7. Step
    BY <2>5, <2>6, Idle, SamePresent, SameOutcome, IsAccept
  <2>8. StoreInv' /\ dbfile' = TRUE
    BY <2>5, AttrsInStore DEF RegisterInv
  <2>9. r.obj \in Objects /\ obj'[r.obj[1]][r.obj[2]] = "USEROBJECT"
    <3>1. r.obj \in Pid \X Oid
      BY RequestAssumption
    <3>2. r.obj[1] \in Pid /\ r.obj[2] \in Oid
      BY <3>1
    <3>3. get_obj_type(r.obj[1], r.obj[2]) = "USEROBJECT"
      BY <1>2 DEF not_userobject
    <3>4. r.obj[1] >= IdLB /\ r.obj[2] >= IdLB /\ obj[r.obj[1]][r.obj[2]] = "USEROBJECT"
      BY <3>2, <3>3, Inputs DEF get_obj_type
    <3>5. r.obj[1] \in IdLB .. MaxPid /\ r.obj[2] \in IdLB .. MaxOid
      BY <3>2, <3>4, IdAssumption DEF Pid, Oid
    <3> QED
      BY <2>5, <3>1, <3>4, <3>5 DEF Objects
  <2>10. ServiceOK'
    <3>1. op'.pc = pc /\ op'.req = r /\ op'.old = got /\ op'.todo = r.rest /\ op'.saved = {}
      BY <2>4, GotoService
    <3>2. attr_get_val(row(op.req))' = got
      BY <2>1, <3>1 DEF attr_get_val, row
    <3>3. \A i \in DOMAIN r.rest : r.rest[i].name \in Counters \cup Plain \cup {"READ_ONLY"}
      BY RestNames
    <3> QED
      BY <2>2, <2>9, <3>1, <3>2, <3>3 DEF ServiceOK
  <2> QED
    BY <2>7, <2>8, <2>10 DEF Good
<1> QED
  BY <1>1, <1>2 DEF read_value

LEMMA AtomicStep == ASSUME RegisterInv, Atomic PROVE Good
<1>1. PICK r \in Requests : \/ r.cmd \in {"CAS", "FA"} /\ cdb_counter(r)
                            \/ r.cmd \in {"GEN_CAS", "COND_SETATTR"} /\ cdb_gen_cas(r)
  BY DEF Atomic, Other
<1>2. op.pc = "idle"
  BY <1>1 DEF cdb_counter, cdb_gen_cas
<1>3. CASE give_up(r, "ILLEGAL_REQUEST")
  BY <1>2, <1>3, GiveUpStep
<1>4. CASE osd_open /\ vals_kept /\ answer(r, "DIED", NoVal)
  BY <1>2, <1>4, OpenStep
<1>5. CASE r.cmd \in {"CAS", "FA"}
           /\ read_value(r, 8, [missing \in BOOLEAN |-> IF missing THEN "init" ELSE "swap"])
  BY <1>2, <1>5, ReadStep
<1>6. CASE r.cmd \in {"GEN_CAS", "COND_SETATTR"} /\ read_value(r, 65534, [missing \in BOOLEAN |-> "gswap"])
  BY <1>2, <1>6, ReadStep
<1> QED
  BY <1>1, <1>3, <1>4, <1>5, <1>6 DEF cdb_counter, cdb_gen_cas

\* The register of the command in service.
LEMMA OwnRegister ==
    ASSUME RegisterInv, op.pc \in {"init", "swap", "gswap"}, NEW k, k = <<op.req.obj, op.req.name>>
    PROVE  /\ op.req \in Requests /\ op.saved = {} /\ k \in Registers /\ RowOf(k) = row(op.req)
           /\ op.pc \in {"init", "swap"} => k[2] \in Counters
           /\ op.pc = "gswap" => k[2] \in Plain
           /\ registers[k] = Holds(attr, val, k)
           /\ registers = InTable(attr, val)
<1>1. op.req \in Requests /\ op.saved = {}
  BY InServiceOp DEF RegisterInv, MultiInv
<1>2. op.req.obj \in Objects
  BY DEF RegisterInv, ServiceOK
<1>3. /\ op.pc \in {"init", "swap"} => op.req.name \in Counters
      /\ op.pc = "gswap" => op.req.name \in Plain
  BY <1>1, RequestAssumption, InitiatorAssumption DEF RegisterInv, ServiceOK, Counters
<1>4. k \in Registers
  BY <1>2, <1>3 DEF Registers
<1>5. registers = InTable(attr, val)
  BY <1>1, RegistersNow
<1> QED
  BY <1>1, <1>3, <1>4, <1>5 DEF RowOf, row, InTable

\* A statement that writes the row of the command's object.
LEMMA OwnRowKeeps ==
    ASSUME RegisterInv, op.pc # "idle", UNCHANGED <<obj, ic, dbfile>>,
           \A k \in attr' : k \in attr \/ k = row(op.req)
    PROVE  StoreInv' /\ dbfile' = TRUE
<1>1. obj_ispresent(op.req.obj[1], op.req.obj[2])
  BY DEF RegisterInv, ServiceOK, obj_ispresent
<1>2. row(op.req)[1] = op.req.obj[1] /\ row(op.req)[2] = op.req.obj[2]
  BY DEF row
<1> QED
  BY <1>1, <1>2, AttrsInStore DEF RegisterInv

LEMMA InitCounterStep == ASSUME RegisterInv, init_counter PROVE Good
<1>0. op.pc = "init"
  BY DEF init_counter
<1> DEFINE k == <<op.req.obj, op.req.name>>
<1>1. /\ op.req \in Requests /\ op.saved = {} /\ k \in Registers /\ RowOf(k) = row(op.req)
      /\ k[2] \in Counters /\ registers[k] = Holds(attr, val, k) /\ registers = InTable(attr, val)
  BY <1>0, OwnRegister
<1> HIDE DEF k
<1>2. CASE give_up(op.req, "HARDWARE_ERROR")
  BY <1>1, <1>2, GiveUpStep
<1>3. CASE attr_set_attr(row(op.req), 0) /\ goto("swap", op.req, 0, op.todo) /\ statement_only
  <2>1. UNCHANGED <<obj, ic, dbfile, reply>>
    BY <1>3 DEF statement_only, disk
  <2>2. Holds(attr, val, k) = 0
    BY <1>0, <1>1 DEF RegisterInv, ServiceOK, attr_get_val, Holds
  <2>3. InTable(attr', val') = [InTable(attr, val) EXCEPT ![k] = 0]
    <3>1. 0 # NoVal
      BY Values
    <3> QED
      BY <1>1, <1>3, <3>1, RowWritten
  <2>4. InTable(attr', val') = InTable(attr, val)
    BY <1>1, <2>2, <2>3 DEF InTable
  <2>5. /\ op'.pc = "swap" /\ op'.req = op.req /\ op'.old = 0 /\ op'.todo = op.todo /\ op'.saved = {}
        /\ registers' = InTable(attr', val') /\ in_service' = [phase |-> "asked", req |-> op.req]
    BY <1>3, GotoService
  <2>6. in_service = [phase |-> "asked", req |-> op.req]
    BY <1>0, ServiceRequest
  <2>7. Step
    BY <1>1, <2>1, <2>4, <2>5, <2>6, SamePresent, SameOutcome DEF Step
  <2>8. StoreInv' /\ dbfile' = TRUE
    BY <1>0, <1>3, <2>1, OwnRowKeeps DEF attr_set_attr
  <2>9. attr_get_val(row(op.req))' = 0
    <3>1. row(op.req)' = row(op.req)
      BY <2>5 DEF row
    <3> QED
      BY <1>3, <3>1 DEF attr_set_attr, attr_get_val
  <2>10. ServiceOK'
    BY <1>0, <2>1, <2>5, <2>9, Values DEF RegisterInv, ServiceOK
  <2> QED
    BY <2>7, <2>8, <2>10 DEF Good
<1> QED
  BY <1>2, <1>3 DEF init_counter, zero_counter

\* The statement that writes the register.
LEMMA ApplyStep ==
    ASSUME RegisterInv, op.pc \in {"swap", "gswap"}, statement_only,
           NEW todo, goto("set", op.req, op.old, todo), todo = Abstract!Remaining(op.req, op.old),
           NEW k, k = <<op.req.obj, op.req.name>>, registers[k] = op.old,
           \A l \in attr' : l \in attr \/ l = row(op.req),
           InTable(attr', val') = [registers EXCEPT ![k] = Abstract!Effect(op.req, op.old)],
           todo \in {<<>>, op.req.rest}
    PROVE  Good
<1>1. UNCHANGED <<obj, ic, dbfile, reply>>
  BY DEF statement_only, disk
<1>2. /\ op'.pc = "set" /\ op'.req = op.req /\ op'.old = op.old /\ op'.todo = todo /\ op'.saved = {}
      /\ registers' = InTable(attr', val')
      /\ in_service' = [phase |-> "applied", req |-> op.req, old |-> op.old, todo |-> todo]
  BY GotoService
<1>3. in_service.phase = "asked" /\ in_service.req = op.req
  BY ServiceRequest
<1>4. Step
  <2> DEFINE r == op.req
             old == op.old
  <2>1. r = in_service.req /\ old = registers[<<r.obj, r.name>>]
    BY <1>3
  <2>2. registers' = [registers EXCEPT ![<<r.obj, r.name>>] = Abstract!Effect(r, old)]
    BY <1>2
  <2>3. in_service' = [phase |-> "applied", req |-> r, old |-> old, todo |-> Abstract!Remaining(r, old)]
    BY <1>2
  <2> HIDE DEF r, old
  <2> QED
    BY <1>1, <1>3, <2>1, <2>2, <2>3, SamePresent, SameOutcome, IsApply
<1>5. StoreInv' /\ dbfile' = TRUE
  BY <1>1, OwnRowKeeps
<1>6. op.req \in Requests
  BY InServiceOp DEF RegisterInv, MultiInv
<1>7. \A i \in DOMAIN todo : todo[i].name \in Counters \cup Plain \cup {"READ_ONLY"}
  BY <1>6, RestNames
<1>8. ServiceOK'
  BY <1>1, <1>2, <1>7 DEF RegisterInv, ServiceOK
<1> QED
  BY <1>4, <1>5, <1>8 DEF Good

LEMMA SwapCounterStep == ASSUME RegisterInv, swap_counter PROVE Good
<1>0. op.pc = "swap"
  BY DEF swap_counter
<1> DEFINE k == <<op.req.obj, op.req.name>>
<1>1. /\ op.req \in Requests /\ op.saved = {} /\ k \in Registers /\ RowOf(k) = row(op.req)
      /\ registers[k] = Holds(attr, val, k) /\ registers = InTable(attr, val)
  BY <1>0, OwnRegister
<1>2. CASE give_up(op.req, "HARDWARE_ERROR")
  BY <1>1, <1>2, GiveUpStep
<1>3. CASE /\ IF op.req.cmd = "CAS" THEN osd_cas(op.req, op.old) ELSE osd_fa(op.req, op.old)
           /\ goto("set", op.req, op.old, op.todo)
           /\ statement_only
  <2>1. op.req.cmd \in {"CAS", "FA"} /\ op.todo = op.req.rest
    BY <1>0 DEF RegisterInv, ServiceOK
  <2>2. op.todo = Abstract!Remaining(op.req, op.old)
    BY <2>1 DEF Abstract!Remaining
  <2>3. Holds(attr, val, k) = op.old
    BY <1>0, <1>1 DEF RegisterInv, ServiceOK, attr_get_val, Holds
  <2> HIDE DEF k
  <2>4. \/ UNCHANGED <<attr, val>> /\ Abstract!Effect(op.req, op.old) = op.old
        \/ /\ attr_set_attr(row(op.req), Abstract!Effect(op.req, op.old))
           /\ Abstract!Effect(op.req, op.old) # NoVal
    <3>1. CASE op.req.cmd = "CAS"
      <4>1. Abstract!Effect(op.req, op.old) = IF op.old = op.req.cmp THEN op.req.swap ELSE op.old
        BY <3>1 DEF Abstract!Effect
      <4>2. op.req.swap \in 0 .. Word - 1
        BY <1>1, <3>1, RequestAssumption
      <4>3. op.req.swap # NoVal
        BY <4>2, Values
      <4> QED
        BY <1>3, <3>1, <4>1, <4>3 DEF osd_cas
    <3>2. CASE op.req.cmd = "FA"
      <4>1. Abstract!Effect(op.req, op.old) = (op.old + op.req.add) % Word
        BY <3>2 DEF Abstract!Effect
      <4>2. op.req.add \in 0 .. Word - 1 /\ op.old \in NoVal .. Word - 1
        BY <1>0, <1>1, RequestAssumption, InServiceOp DEF RegisterInv, MultiInv
      <4>3. (op.old + op.req.add) % Word \in Nat
        BY <4>2, Values
      <4>4. (op.old + op.req.add) % Word # NoVal
        BY <4>3, Values
      <4> QED
        BY <1>3, <3>2, <4>1, <4>4 DEF osd_fa
    <3> QED
      BY <2>1, <3>1, <3>2
  <2>5. InTable(attr', val') = [registers EXCEPT ![k] = Abstract!Effect(op.req, op.old)]
    <3>1. CASE UNCHANGED <<attr, val>> /\ Abstract!Effect(op.req, op.old) = op.old
      BY <1>1, <2>3, <3>1 DEF InTable
    <3>2. ASSUME NEW v, v = Abstract!Effect(op.req, op.old), attr_set_attr(row(op.req), v), v # NoVal
          PROVE  InTable(attr', val') = [registers EXCEPT ![k] = v]
      BY <1>1, <3>2, RowWritten
    <3> QED
      BY <2>4, <3>1, <3>2
  <2>6. \A l \in attr' : l \in attr \/ l = row(op.req)
    BY <2>4 DEF attr_set_attr
  <2> DEFINE todo == op.todo
  <2>7. todo = op.todo
    OBVIOUS
  <2> HIDE DEF todo
  <2> QED
    BY <1>0, <1>1, <1>3, <2>1, <2>2, <2>3, <2>5, <2>6, <2>7, ApplyStep DEF k
<1> QED
  BY <1>2, <1>3 DEF swap_counter

LEMMA GenCasStep == ASSUME RegisterInv, exec_gen_cas PROVE Good
<1>0. op.pc = "gswap"
  BY DEF exec_gen_cas
<1> DEFINE k == <<op.req.obj, op.req.name>>
<1>1. /\ op.req \in Requests /\ op.saved = {} /\ k \in Registers /\ RowOf(k) = row(op.req)
      /\ k[2] \in Plain /\ registers[k] = Holds(attr, val, k) /\ registers = InTable(attr, val)
  BY <1>0, OwnRegister
<1>2. CASE give_up(op.req, "HARDWARE_ERROR")
  BY <1>1, <1>2, GiveUpStep
<1>3. CASE /\ osd_gen_cas(op.req, op.old)
           /\ goto("set", op.req, op.old, others_to_set(op.req, op.old))
           /\ statement_only
  <2> DEFINE todo == others_to_set(op.req, op.old)
  <2>1. op.req.cmd \notin {"CAS", "FA"}
    BY <1>0 DEF RegisterInv, ServiceOK
  <2>2. todo = Abstract!Remaining(op.req, op.old) /\ todo \in {<<>>, op.req.rest}
    BY DEF Abstract!Remaining, others_to_set
  <2>3. k[2] \notin Counters
    BY <1>1, RegisterNames
  <2>4. Holds(attr, val, k) = op.old
    BY <1>0, <1>1, <2>3 DEF RegisterInv, ServiceOK, attr_get_val, Holds
  <2> HIDE DEF k, todo
  <2> DEFINE effect == Abstract!Effect(op.req, op.old)
  <2>5. effect = IF op.old = op.req.cmp \/ (op.old = NoVal /\ op.req.swap # NoVal)
                 THEN op.req.swap ELSE op.old
    BY <2>1 DEF Abstract!Effect
  <2> HIDE DEF effect
  <2>6. \/ UNCHANGED <<attr, val>> /\ effect = op.old
        \/ attr_set_attr(row(op.req), effect) /\ effect # NoVal
        \/ attr_delete_attr(row(op.req)) /\ effect = NoVal
    <3>1. CASE gen_cas_sets(op.req, op.old)
      BY <1>3, <2>5, <3>1 DEF osd_gen_cas, gen_cas_sets, gen_cas_deletes
    <3>2. CASE gen_cas_deletes(op.req, op.old)
      BY <1>3, <2>5, <3>2 DEF osd_gen_cas, gen_cas_sets, gen_cas_deletes
    <3>3. CASE ~gen_cas_sets(op.req, op.old) /\ ~gen_cas_deletes(op.req, op.old)
      <4>1. UNCHANGED <<attr, val>>
        BY <1>3, <3>3 DEF osd_gen_cas
      <4> QED
        BY <2>5, <3>3, <4>1 DEF gen_cas_sets, gen_cas_deletes
    <3> QED
      BY <3>1, <3>2, <3>3
  <2>7. InTable(attr', val') = [registers EXCEPT ![k] = effect]
    <3>1. CASE UNCHANGED <<attr, val>> /\ effect = op.old
      BY <1>1, <2>4, <3>1 DEF InTable
    <3>2. CASE attr_set_attr(row(op.req), effect) /\ effect # NoVal
      BY <1>1, <3>2, RowWritten
    <3>3. CASE attr_delete_attr(row(op.req)) /\ effect = NoVal
      BY <1>1, <2>3, <3>3, RowErased DEF Initially0
    <3> QED
      BY <2>6, <3>1, <3>2, <3>3
  <2>8. \A l \in attr' : l \in attr \/ l = row(op.req)
    BY <2>6 DEF attr_set_attr, attr_delete_attr
  <2>9. goto("set", op.req, op.old, todo)
    BY <1>3 DEF todo
  <2> QED
    BY <1>0, <1>1, <1>3, <2>2, <2>4, <2>7, <2>8, <2>9, ApplyStep DEF k, effect
<1> QED
  BY <1>2, <1>3 DEF exec_gen_cas

-----------------------------------------------------------------------------
(* The other attributes of a command                                          *)

\* Setting an attribute of the object in service, or failing to.
LEMMA SetValueKeeps ==
    ASSUME RegisterInv, NEW p \in Pid, NEW o \in Oid, NEW a, NEW v, NEW e, set_value(p, o, a, v, e)
    PROVE  StoreInv' /\ dbfile' = TRUE /\ obj' = obj
<1>1. osd_set_attributes(p, o, a, IF v = NoVal THEN "MISFIT" ELSE "VALUE", e)
  BY DEF set_value
<1>2. UNCHANGED <<obj, dbfile>>
  BY <1>1 DEF osd_set_attributes, Rejected, tables, disk
<1>3. StoreInv'
  <2> DEFINE len == IF v = NoVal THEN "MISFIT" ELSE "VALUE"
  <2>1. osd_set_attributes(p, o, a, len, e)
    BY <1>1
  <2> HIDE DEF len
  <2> QED
    BY <2>1, SetAttributesKeeps DEF RegisterInv
<1> QED
  BY <1>2, <1>3 DEF RegisterInv

\* The object in service, and the entry that is next.
LEMMA ListInService ==
    ASSUME RegisterInv, op.pc = "set", op.todo # <<>>, NEW a, a = Head(op.todo)
    PROVE  /\ op.req \in Requests /\ op.req.obj \in Pid \X Oid /\ op.req.obj[1] \in Pid /\ op.req.obj[2] \in Oid
           /\ op.req.obj \in Objects /\ op.req.rest \in Seq(Entries) /\ op.todo \in Seq(Entries)
           /\ a = op.todo[1] /\ Len(op.todo) \in Nat /\ Len(op.todo) >= 1
           /\ a.name \in Counters \cup Plain \cup {"READ_ONLY"}
           /\ op = [pc |-> op.pc, req |-> op.req, old |-> op.old, todo |-> op.todo, saved |-> op.saved]
<1>1. op.req \in Requests /\ op.todo \in Seq(Entries)
      /\ op = [pc |-> op.pc, req |-> op.req, old |-> op.old, todo |-> op.todo, saved |-> op.saved]
  BY InServiceOp DEF RegisterInv, MultiInv
<1>2. op.req.obj \in Pid \X Oid /\ op.req.rest \in Seq(Entries)
  BY <1>1, RequestAssumption
<1>3. op.req.obj \in Objects
      /\ \A i \in DOMAIN op.todo : op.todo[i].name \in Counters \cup Plain \cup {"READ_ONLY"}
  BY DEF RegisterInv, ServiceOK
<1>4. a = op.todo[1] /\ Len(op.todo) \in Nat /\ Len(op.todo) >= 1 /\ 1 \in DOMAIN op.todo
  BY <1>1
<1> QED
  BY <1>1, <1>2, <1>3, <1>4

\* A read-only attribute is refused.
LEMMA SetOnlyAttrs ==
    ASSUME NEW p, NEW o, NEW a, NEW v, NEW e, set_value(p, o, a, v, e), sense' = "OSD_OK",
           a \in Counters \cup Plain \cup {"READ_ONLY"}
    PROVE  a \in Attrs /\ a \in Counters \cup Plain
<1>1. a \in Attrs
  BY DEF set_value, osd_set_attributes, Rejected
<1> QED
  BY <1>1, InputAssumption

LEMMA CasSetattrStep == ASSUME RegisterInv, exec_cas_setattr PROVE Good
<1> DEFINE a == Head(op.todo)
<1>1. op.pc = "set" /\ op.todo # <<>> /\ op.req.cmd \notin {"CAS", "FA"}
  BY DEF exec_cas_setattr
<1>2. /\ op.req \in Requests /\ op.req.obj \in Pid \X Oid /\ op.req.obj[1] \in Pid /\ op.req.obj[2] \in Oid
      /\ op.req.obj \in Objects /\ op.todo \in Seq(Entries)
      /\ a = op.todo[1] /\ Len(op.todo) \in Nat /\ Len(op.todo) >= 1
      /\ a.name \in Counters \cup Plain \cup {"READ_ONLY"}
  BY <1>1, ListInService
<1>3. op.saved = {} /\ registers = InTable(attr, val)
  BY <1>1, RegistersNow DEF RegisterInv, ServiceOK
<1>4. set_value(op.req.obj[1], op.req.obj[2], a.name, a.value, TRUE)
  BY DEF exec_cas_setattr
<1> HIDE DEF a
<1> DEFINE name == a.name
           value == a.value
<1>5. set_value(op.req.obj[1], op.req.obj[2], name, value, TRUE)
  BY <1>4
<1> HIDE DEF name, value
<1>6. StoreInv' /\ dbfile' = TRUE /\ obj' = obj
  BY <1>2, <1>5, SetValueKeeps
<1>7. CASE sense' # "OSD_OK"
  <2>1. answer(op.req, sense', NoVal)
    BY <1>7 DEF exec_cas_setattr
  <2>2. attr' = attr /\ val' = val
    BY <1>5, <1>7, NothingWritten DEF RegisterInv, MultiInv
  <2> DEFINE ret == sense'
  <2>3. answer(op.req, ret, NoVal) /\ ret # "OSD_OK"
    BY <1>7, <2>1
  <2> HIDE DEF ret
  <2>4. Step
    BY <1>3, <1>6, <2>2, <2>3, FailStep
  <2>5. ServiceOK'
    BY <2>3, Ended
  <2> QED
    BY <1>6, <2>4, <2>5 DEF Good
<1>8. CASE sense' = "OSD_OK"
  <2> DEFINE todo == Tail(op.todo)
  <2>1. goto("set", op.req, op.old, todo) /\ reply' = reply
    BY <1>8 DEF exec_cas_setattr
  <2>2. name \in Attrs /\ name \in Counters \cup Plain
    <3>1. name \in Counters \cup Plain \cup {"READ_ONLY"}
      BY <1>2 DEF name
    <3> QED
      BY <1>5, <1>8, <3>1, SetOnlyAttrs
  <2>3. InTable(attr, val) = AfterFirst(registers, op.req.obj, op.todo, 0)
    BY <1>3, AfterNone
  <2>4. InTable(attr', val') = AfterFirst(registers, op.req.obj, op.todo, 1)
    <3> DEFINE n == 0
               o == op.req.obj
               list == op.todo
    <3>1. n \in Nat /\ n + 1 = 1 /\ list[n + 1] = a /\ o \in Pid \X Oid
      BY <1>2
    <3>2. list[n + 1].name \in Attrs /\ set_value(o[1], o[2], list[n + 1].name, list[n + 1].value, TRUE)
      BY <1>4, <2>2, <3>1 DEF name
    <3>3. InTable(attr, val) = AfterFirst(registers, o, list, n)
      BY <2>3
    <3> HIDE DEF n, o, list
    <3>4. InTable(attr', val') = AfterFirst(registers, o, list, n + 1)
      BY <1>8, <3>1, <3>2, <3>3, EntryWritten
    <3> QED
      BY <3>1, <3>4 DEF o, list
  <2>5. todo = SubSeq(op.todo, 2, Len(op.todo)) /\ todo \in Seq(Entries)
        /\ \A i \in DOMAIN todo : i + 1 \in DOMAIN op.todo /\ todo[i] = op.todo[i + 1]
    <3>1. todo \in Seq(Entries) /\ Len(todo) = Len(op.todo) - 1
          /\ \A i \in 1 .. Len(op.todo) - 1 : todo[i] = op.todo[i + 1]
      BY <1>1, <1>2
    <3>2. DOMAIN todo = 1 .. Len(todo) /\ DOMAIN op.todo = 1 .. Len(op.todo)
      BY <1>2, <3>1
    <3>3. todo = SubSeq(op.todo, 2, Len(op.todo))
      BY <1>1, <1>2
    <3> HIDE DEF todo
    <3> QED
      BY <1>2, <3>1, <3>2, <3>3
  <2> HIDE DEF todo
  <2>6. /\ op'.pc = "set" /\ op'.req = op.req /\ op'.old = op.old /\ op'.todo = todo /\ op'.saved = {}
        /\ registers' = InTable(attr', val')
        /\ in_service' = [phase |-> "applied", req |-> op.req, old |-> op.old, todo |-> todo]
    BY <2>1, GotoService
  <2>7. in_service = [phase |-> "applied", req |-> op.req, old |-> op.old, todo |-> op.todo]
    BY <1>1, <1>3, ServiceRequest
  <2>8. Step
    <3>1. in_service.phase = "applied" /\ in_service.todo = op.todo /\ in_service.req = op.req
      BY <2>7
    <3>2. PICK n \in 1 .. Len(in_service.todo) : n = 1
      BY <1>2, <3>1
    <3>3. in_service' = [in_service EXCEPT !.todo = SubSeq(in_service.todo, n + 1, Len(in_service.todo))]
      <4>1. todo = SubSeq(in_service.todo, n + 1, Len(in_service.todo))
        <5>1. n + 1 = 2
          BY <3>2
        <5> QED
          BY <2>5, <3>1, <5>1
      <4> DEFINE t == SubSeq(in_service.todo, n + 1, Len(in_service.todo))
      <4>2. t = todo
        BY <4>1
      <4> HIDE DEF t
      <4>3. in_service' = [in_service EXCEPT !.todo = t]
        BY <2>6, <2>7, <4>2
      <4> QED
        BY <4>3 DEF t
    <3>4. \A i \in 1 .. n : <<in_service.req.obj, in_service.todo[i].name>> \in Registers
      BY <1>2, <2>2, <3>1, <3>2 DEF Registers, name
    <3>5. registers' = AfterFirst(registers, in_service.req.obj, in_service.todo, n)
      BY <2>4, <2>6, <3>1, <3>2
    <3>6. in_service.todo \in Seq(Entries) /\ present' = present /\ outcome' = outcome
      BY <1>2, <1>6, <2>1, <3>1, SamePresent, SameOutcome
    <3> QED
      BY <3>1, <3>3, <3>4, <3>5, <3>6, IsSetSome
  <2>9. ServiceOK'
    <3>1. \A i \in DOMAIN op.todo : op.todo[i].name \in Counters \cup Plain \cup {"READ_ONLY"}
      BY <1>1 DEF RegisterInv, ServiceOK
    <3>2. \A i \in DOMAIN todo : todo[i].name \in Counters \cup Plain \cup {"READ_ONLY"}
      BY <2>5, <3>1
    <3> QED
      BY <1>1, <1>6, <2>6, <3>2 DEF RegisterInv, ServiceOK
  <2> QED
    BY <1>6, <2>8, <2>9 DEF Good
<1> QED
  BY <1>7, <1>8

\* The attributes that have been set when the next one comes: the first n.
LEMMA DoneSoFar ==
    ASSUME RegisterInv, op.pc = "set", op.todo # <<>>, op.req.cmd \in {"CAS", "FA"}
    PROVE  \E n \in Nat :
               /\ n < Len(op.req.rest)
               /\ op.todo = SubSeq(op.req.rest, n + 1, Len(op.req.rest))
               /\ \A i \in 1 .. n : op.req.rest[i].name \in Counters \cup Plain
               /\ InTable(attr, val) = AfterFirst(registers, op.req.obj, op.req.rest, n)
               /\ op.saved = {} => n = 0
               /\ op.saved # {} => n >= 1
<1>1. op.req.rest \in Seq(Entries)
  BY ListInService
<1>2. CASE op.saved = {}
  <2>1. op.todo = op.req.rest
    BY <1>2 DEF RegisterInv, ServiceOK
  <2>2. registers = InTable(attr, val)
    BY <1>2, RegistersNow
  <2>3. InTable(attr, val) = AfterFirst(registers, op.req.obj, op.req.rest, 0)
    BY <2>2, AfterNone
  <2>4. Len(op.req.rest) \in Nat /\ 0 < Len(op.req.rest)
    BY <1>1, <2>1
  <2>5. op.req.rest = SubSeq(op.req.rest, 0 + 1, Len(op.req.rest))
    BY <1>1
  <2>6. \A i \in 1 .. 0 : op.req.rest[i].name \in Counters \cup Plain
    OBVIOUS
  <2> QED
    BY <1>2, <2>1, <2>3, <2>4, <2>5, <2>6
<1>3. CASE op.saved # {}
  <2>1. PICK s : op.saved = {s}
    BY <1>3 DEF RegisterInv, ServiceOK
  <2>2. PICK n \in Nat : Uncommitted(n)
    BY <1>3 DEF RegisterInv, ServiceOK
  <2>3. registers = InTable(s.attr, s.val)
    BY <2>1, RegistersSaved
  <2>4. InTable(attr, val) = AfterFirst(registers, op.req.obj, op.req.rest, n)
    BY <2>1, <2>2, <2>3 DEF Uncommitted
  <2>5. Len(op.req.rest) \in Nat /\ n \in 1 .. Len(op.req.rest) - 1
    BY <1>1, <2>2 DEF Uncommitted
  <2>6. n < Len(op.req.rest) /\ n >= 1
    BY <2>5
  <2> QED
    BY <1>3, <2>2, <2>4, <2>6 DEF Uncommitted
<1> QED
  BY <1>2, <1>3

LEMMA NotEmpty == ASSUME NEW s, Len(s) >= 1 PROVE s # <<>>
<1> SUFFICES ASSUME s = <<>> PROVE FALSE
  OBVIOUS
<1>1. Len(s) = 0
  BY EmptySeq
<1> QED
  BY <1>1

\* The entry that is next, in the list as it came.
LEMMA NextOfRest ==
    ASSUME NEW rest \in Seq(Entries), NEW n \in Nat, n < Len(rest), NEW todo,
           todo = SubSeq(rest, n + 1, Len(rest))
    PROVE  /\ todo # <<>> /\ Head(todo) = rest[n + 1]
           /\ Tail(todo) = SubSeq(rest, n + 2, Len(rest))
           /\ (Tail(todo) = <<>>) <=> (n + 1 = Len(rest))
           /\ n + 1 \in DOMAIN rest
<1> DEFINE m == n + 1
           l == Len(rest)
<1>1. l \in Nat /\ m \in 1 .. l /\ l \in m .. l /\ DOMAIN rest = 1 .. l /\ m + 1 = n + 2 /\ m = n + 1
  OBVIOUS
<1>2. todo = SubSeq(rest, m, l) /\ \A i \in m .. l : rest[i] \in Entries
  OBVIOUS
<1>0. l = Len(rest) /\ m \in Int /\ l \in Int
  OBVIOUS
<1> HIDE DEF m, l
<1>3. Head(todo) = rest[m] /\ Tail(todo) = SubSeq(rest, m + 1, l)
  BY <1>0, <1>1, <1>2, HeadTailOfSubSeq
<1>4. todo \in Seq(Entries) /\ Len(todo) = IF m <= l THEN l - m + 1 ELSE 0
  BY <1>0, <1>2, SubSeqProperties
<1>5. Len(todo) = l - m + 1 /\ Len(todo) >= 1
  BY <1>1, <1>4
<1>6. todo # <<>>
  BY <1>5, NotEmpty
<1>7. Tail(todo) \in Seq(Entries) /\ Len(Tail(todo)) = Len(todo) - 1
  BY <1>4, <1>6, HeadTailProperties
<1>8. (Tail(todo) = <<>>) <=> (Len(Tail(todo)) = 0)
  BY <1>7, EmptySeq
<1>9. (Tail(todo) = <<>>) <=> (m = l)
  BY <1>1, <1>5, <1>7, <1>8
<1> QED
  BY <1>0, <1>1, <1>3, <1>6, <1>9 DEF m

LEMMA SetAttrListStep == ASSUME RegisterInv, set_attr_list PROVE Good
<1> DEFINE a == Head(op.todo)
           rest == op.req.rest
           o == op.req.obj
<1>1. op.pc = "set" /\ op.todo # <<>> /\ op.req.cmd \in {"CAS", "FA"}
  BY DEF set_attr_list
<1>2. /\ op.req \in Requests /\ o \in Pid \X Oid /\ o[1] \in Pid /\ o[2] \in Oid /\ o \in Objects
      /\ rest \in Seq(Entries) /\ a.name \in Counters \cup Plain \cup {"READ_ONLY"}
      /\ op = [pc |-> op.pc, req |-> op.req, old |-> op.old, todo |-> op.todo, saved |-> op.saved]
  BY <1>1, ListInService
<1>3. PICK n \in Nat :
          /\ n < Len(rest)
          /\ op.todo = SubSeq(rest, n + 1, Len(rest))
          /\ \A i \in 1 .. n : rest[i].name \in Counters \cup Plain
          /\ InTable(attr, val) = AfterFirst(registers, o, rest, n)
          /\ op.saved = {} => n = 0
          /\ op.saved # {} => n >= 1
  BY <1>1, DoneSoFar
<1>4. /\ a = rest[n + 1] /\ Tail(op.todo) = SubSeq(rest, n + 2, Len(rest))
      /\ (Tail(op.todo) = <<>>) <=> (n + 1 = Len(rest))
  BY <1>2, <1>3, NextOfRest, ZenonT(30)
<1>5. Len(rest) \in Nat
  BY <1>2
<1>6. set_value(o[1], o[2], a.name, a.value, TRUE)
  BY DEF set_attr_list
<1>7. in_service = [phase |-> "applied", req |-> op.req, old |-> op.old, todo |-> rest]
  <2>1. op.saved = {} => op.todo = rest
    <3>1. n = 0 => SubSeq(rest, n + 1, Len(rest)) = rest
      BY <1>2
    <3> QED
      BY <1>3, <3>1
  <2> QED
    BY <1>1, <2>1, ServiceRequest
<1>8. in_service.phase = "applied" /\ in_service.req = op.req /\ in_service.todo = rest
  BY <1>7
<1> HIDE DEF a, rest, o
<1> DEFINE name == a.name
           value == a.value
<1>9. set_value(o[1], o[2], name, value, TRUE)
  BY <1>6
<1> HIDE DEF name, value
<1>10. StoreInv' /\ dbfile' = TRUE /\ obj' = obj
  BY <1>2, <1>9, SetValueKeeps
<1>11. CASE sense' # "OSD_OK"
  <2> DEFINE ret == sense'
  <2>1. answer(op.req, ret, NoVal) /\ ret # "OSD_OK"
    BY <1>11 DEF set_attr_list
  <2>2. attr' = attr /\ val' = val
    BY <1>9, <1>11, NothingWritten DEF RegisterInv, MultiInv
  <2> HIDE DEF ret
  <2>3. ServiceOK' /\ in_service' = NoJob /\ registers' = InTable(attr', val')
        /\ outcome' = [req |-> op.req, ret |-> Status(ret), out |-> NoVal]
    BY <2>1, Ended
  <2>4. CASE n = 0
    <3>1. registers = InTable(attr, val)
      <4>1. op.saved = {}
        BY <1>3, <2>4
      <4> QED
        BY <4>1, RegistersNow
    <3>2. Step
      BY <1>10, <2>1, <2>2, <3>1, FailStep
    <3> QED
      BY <1>10, <2>3, <3>2 DEF Good
  <2>5. CASE n # 0
    <3>1. n \in 1 .. Len(in_service.todo)
      BY <1>3, <1>5, <1>8, <2>5
    <3>2. \A i \in 1 .. n : <<in_service.req.obj, in_service.todo[i].name>> \in Registers
      BY <1>2, <1>3, <1>8 DEF Registers, o
    <3>3. registers' = AfterFirst(registers, in_service.req.obj, in_service.todo, n)
      BY <1>3, <1>8, <2>2, <2>3 DEF o
    <3>4. outcome'.req = in_service.req /\ outcome'.ret = "failed"
      BY <1>8, <2>1, <2>3 DEF Status
    <3>5. present' = present /\ in_service.todo \in Seq(Entries)
      BY <1>2, <1>8, <1>10, SamePresent
    <3>6. Step
      BY <1>8, <2>3, <3>1, <3>2, <3>3, <3>4, <3>5, IsFailAfter
    <3> QED
      BY <1>10, <2>3, <3>6 DEF Good
  <2> QED
    BY <2>4, <2>5
<1>12. CASE sense' = "OSD_OK"
  <2> DEFINE begun == IF op.saved = {} THEN {[attr |-> attr, val |-> val]} ELSE op.saved
             saved == IF Tail(op.todo) = <<>> THEN {} ELSE begun
             todo == Tail(op.todo)
  <2>1. op' = [op EXCEPT !.todo = todo, !.saved = saved] /\ reply' = reply
    BY <1>12 DEF set_attr_list
  <2>2. name \in Attrs /\ name \in Counters \cup Plain
    <3>1. name \in Counters \cup Plain \cup {"READ_ONLY"}
      BY <1>2 DEF name
    <3> QED
      BY <1>9, <1>12, <3>1, SetOnlyAttrs
  <2>3. InTable(attr', val') = AfterFirst(registers, o, rest, n + 1)
    <3>1. rest[n + 1].name \in Attrs /\ set_value(o[1], o[2], rest[n + 1].name, rest[n + 1].value, TRUE)
      BY <1>4, <1>6, <2>2 DEF name
    <3> QED
      BY <1>2, <1>3, <1>12, <3>1, EntryWritten
  <2>4. \A i \in 1 .. n + 1 : rest[i].name \in Counters \cup Plain
    <3>1. 1 .. n + 1 = (1 .. n) \cup {n + 1}
      OBVIOUS
    <3> QED
      BY <1>3, <1>4, <2>2, <3>1 DEF name
  <2>5. present' = present /\ outcome' = outcome
    BY <1>10, <2>1, SamePresent, SameOutcome
  <2> HIDE DEF saved, todo
  <2>6. op'.pc = "set" /\ op'.req = op.req /\ op'.old = op.old /\ op'.todo = todo /\ op'.saved = saved
    <3>1. op' = [pc |-> op.pc, req |-> op.req, old |-> op.old, todo |-> todo, saved |-> saved]
      BY <1>2, <2>1
    <3> QED
      BY <1>1, <3>1
  <2>7. in_service' = [phase |-> "applied", req |-> op.req, old |-> op.old,
                       todo |-> IF saved = {} THEN todo ELSE rest]
    BY <2>6 DEF in_service, rest
  <2>8. CASE n + 1 = Len(rest)
    <3>1. todo = <<>> /\ saved = {}
      BY <1>4, <2>8 DEF todo, saved
    <3>2. registers' = AfterFirst(registers, in_service.req.obj, in_service.todo, n + 1)
      BY <1>8, <2>3, <2>6, <3>1, RegistersNext DEF o
    <3>3. n + 1 \in 1 .. Len(in_service.todo)
      BY <1>5, <1>8, <2>8
    <3>4. \A i \in 1 .. n + 1 : <<in_service.req.obj, in_service.todo[i].name>> \in Registers
      BY <1>2, <1>8, <2>4 DEF Registers, o
    <3>5. in_service' = [in_service EXCEPT !.todo = SubSeq(in_service.todo, (n + 1) + 1, Len(in_service.todo))]
      <4> DEFINE t == SubSeq(in_service.todo, (n + 1) + 1, Len(in_service.todo))
      <4>1. t = <<>>
        BY <1>2, <1>5, <1>8, <2>8
      <4> HIDE DEF t
      <4>2. in_service' = [in_service EXCEPT !.todo = t]
        BY <1>7, <2>7, <3>1, <4>1
      <4> QED
        BY <4>2 DEF t
    <3>6. in_service.todo \in Seq(Entries)
      BY <1>2, <1>8
    <3>7. Step
      <4> DEFINE m == n + 1
      <4>1. /\ m \in 1 .. Len(in_service.todo)
            /\ \A i \in 1 .. m : <<in_service.req.obj, in_service.todo[i].name>> \in Registers
            /\ registers' = AfterFirst(registers, in_service.req.obj, in_service.todo, m)
            /\ in_service' = [in_service EXCEPT !.todo = SubSeq(in_service.todo, m + 1, Len(in_service.todo))]
        BY <3>2, <3>3, <3>4, <3>5
      <4> HIDE DEF m
      <4> QED
        BY <1>8, <2>5, <3>6, <4>1, IsSetSome
    <3>8. ServiceOK'
      BY <1>1, <1>10, <2>6, <3>1 DEF RegisterInv, ServiceOK
    <3> QED
      BY <1>10, <3>7, <3>8 DEF Good
  <2>9. CASE n + 1 # Len(rest)
    <3>1. todo # <<>> /\ saved = begun
      BY <1>4, <2>9 DEF todo, saved
    <3>2. PICK s : saved = {s} /\ registers = InTable(s.attr, s.val)
                   /\ \A k \in s.attr : k[2] # PARTITION_OID => obj_ispresent(k[1], k[2])
      <4>1. CASE op.saved = {}
        <5> DEFINE s == [attr |-> attr, val |-> val]
        <5>1. saved = {s} /\ s.attr = attr /\ s.val = val
          BY <3>1, <4>1
        <5>2. registers = InTable(s.attr, s.val)
          BY <4>1, <5>1, RegistersNow
        <5>3. \A k \in s.attr : k[2] # PARTITION_OID => obj_ispresent(k[1], k[2])
          BY <5>1 DEF RegisterInv, StoreInv, AttrsOwned
        <5> HIDE DEF s
        <5> QED
          BY <5>1, <5>2, <5>3
      <4>2. CASE op.saved # {}
        <5>1. PICK s : op.saved = {s}
          BY <1>1, <4>2 DEF RegisterInv, ServiceOK
        <5>2. registers = InTable(s.attr, s.val)
          BY <1>1, <5>1, RegistersSaved
        <5>3. \A k \in s.attr : k[2] # PARTITION_OID => obj_ispresent(k[1], k[2])
          BY <1>1, <5>1 DEF RegisterInv, ServiceOK
        <5> QED
          BY <3>1, <4>2, <5>1, <5>2, <5>3
      <4> QED
        BY <4>1, <4>2
    <3>3. registers' = registers
      BY <2>6, <3>2, RegistersNextSaved
    <3>4. in_service' = in_service
      BY <1>7, <2>7, <3>2
    <3>5. Step
      BY <2>5, <3>3, <3>4 DEF Step
    <3>6. Uncommitted(n + 1)'
      <4>1. n + 1 \in 1 .. Len(rest) - 1
        BY <1>3, <1>5, <2>9
      <4>2. todo = SubSeq(rest, (n + 1) + 1, Len(rest))
        <5>1. (n + 1) + 1 = n + 2
          OBVIOUS
        <5> QED
          BY <1>4, <5>1 DEF todo
      <4>3. InTable(attr', val') = AfterFirst(InTable(s.attr, s.val), o, rest, n + 1)
        BY <2>3, <3>2
      <4> DEFINE m == n + 1
      <4>4. m' = m
        OBVIOUS
      <4>5. /\ m \in 1 .. Len(rest) - 1 /\ todo = SubSeq(rest, m + 1, Len(rest))
            /\ \A i \in 1 .. m : rest[i].name \in Counters \cup Plain
            /\ InTable(attr', val') = AfterFirst(InTable(s.attr, s.val), o, rest, m)
        BY <2>4, <4>1, <4>2, <4>3
      <4>6. op'.req.rest = rest /\ op'.req.obj = o
        BY <2>6 DEF rest, o
      <4>7. \A x \in op'.saved : x = s
        BY <2>6, <3>2
      <4> HIDE DEF m
      <4>8. /\ m \in 1 .. Len(op'.req.rest) - 1
            /\ op'.todo = SubSeq(op'.req.rest, m + 1, Len(op'.req.rest))
            /\ \A i \in 1 .. m : op'.req.rest[i].name \in Counters \cup Plain
            /\ \A x \in op'.saved :
                 InTable(attr', val') = AfterFirst(InTable(x.attr, x.val), op'.req.obj, op'.req.rest, m)
        BY <2>6, <4>5, <4>6, <4>7
      <4> QED
        BY <4>8 DEF Uncommitted, m
    <3>7. \A i \in DOMAIN op'.todo : op'.todo[i].name \in Counters \cup Plain \cup {"READ_ONLY"}
      <4>1. op.todo \in Seq(Entries)
        BY <1>1, ListInService
      <4>2. \A i \in DOMAIN todo : i + 1 \in DOMAIN op.todo /\ todo[i] = op.todo[i + 1]
        BY <1>1, <4>1 DEF todo
      <4>3. \A i \in DOMAIN op.todo : op.todo[i].name \in Counters \cup Plain \cup {"READ_ONLY"}
        BY <1>1 DEF RegisterInv, ServiceOK
      <4> QED
        BY <2>6, <4>2, <4>3
    <3>8. ServiceOK'
      <4>1. n + 1 \in Nat
        OBVIOUS
      <4>2. \E m \in Nat : Uncommitted(m)'
        BY <3>6, <4>1
      <4>3. op'.saved = {s} /\ op'.saved # {}
        BY <2>6, <3>2
      <4>4. \A x \in op'.saved : \A k \in x.attr : k[2] # PARTITION_OID => obj_ispresent(k[1], k[2])'
        BY <1>10, <3>2, <4>3 DEF obj_ispresent
      <4> QED
        BY <1>1, <1>10, <2>6, <3>7, <4>2, <4>3, <4>4 DEF RegisterInv, ServiceOK
    <3> QED
      BY <1>10, <3>5, <3>8 DEF Good
  <2> QED
    BY <2>8, <2>9
<1> QED
  BY <1>11, <1>12

-----------------------------------------------------------------------------
(* The end of a command, commands of the store, and the theorem               *)

LEMMA GetAttrStep == ASSUME RegisterInv, exec_getattr PROVE Good
<1>1. op.pc = "set" /\ op.todo = <<>>
  BY DEF exec_getattr
<1>2. op.saved = {} /\ op.req \in Requests
  BY <1>1, InServiceOp DEF RegisterInv, MultiInv
<1>3. registers = InTable(attr, val)
  BY <1>2, RegistersNow
<1>4. in_service = [phase |-> "applied", req |-> op.req, old |-> op.old, todo |-> <<>>]
  BY <1>1, <1>2, ServiceRequest
<1>5. ASSUME answer(op.req, "OSD_OK", op.old), obj' = obj, InTable(attr', val') = registers PROVE Step
  <2> DEFINE r == op.req
             old == op.old
             ok == "OSD_OK"
  <2>1. answer(r, ok, old) /\ Status(ok) = "done"
    BY <1>5 DEF Status
  <2> HIDE DEF r, old, ok
  <2>2. in_service' = NoJob /\ registers' = InTable(attr', val')
        /\ outcome' = [req |-> r, ret |-> Status(ok), out |-> old]
    BY <2>1, Ended
  <2>3. outcome' = [req |-> in_service.req, ret |-> "done", out |-> in_service.old]
    BY <1>4, <2>1, <2>2 DEF r, old
  <2>4. in_service.phase = "applied" /\ in_service.todo = <<>>
    BY <1>4
  <2> QED
    BY <1>5, <2>2, <2>3, <2>4, SamePresent, IsAnswer
<1>6. CASE /\ answer(op.req, "OSD_OK", op.old)
           /\ sense' = "OSD_OK" /\ UNCHANGED <<tables, disk, root, ic, ccap, val>>
  <2>1. UNCHANGED <<obj, attr, val, ic, dbfile>>
    BY <1>6 DEF tables, disk
  <2>2. Step
    BY <1>3, <1>5, <1>6, <2>1
  <2>3. StoreInv'
    BY <2>1, AttrsInStore DEF RegisterInv
  <2>4. ServiceOK'
    <3>1. op'.pc = "idle"
      BY <1>6 DEF answer, NoOp
    <3> QED
      BY <3>1, IdleNext
  <2> QED
    BY <2>1, <2>2, <2>3, <2>4 DEF Good, RegisterInv
<1>7. CASE give_up(op.req, "PARAM_LIST") \/ give_up(op.req, "ILLEGAL_REQUEST")
  BY <1>2, <1>7, GiveUpStep
<1>8. CASE /\ osd_getattr_list(op.req.obj[1], op.req.obj[2], "GETALLATTR_PG", TRUE)
           /\ vals_kept
           /\ answer(op.req, sense', IF sense' = "OSD_OK" THEN op.old ELSE NoVal)
  <2>1. op.req.obj[1] \in Pid /\ op.req.obj[2] \in Oid
    BY <1>2, RequestRow
  <2>2. StoreInv'
    BY <1>8, <2>1, GetAttrKeeps DEF RegisterInv, MultiInv
  <2>3. RowsStay /\ UNCHANGED <<obj, disk>>
    BY <1>8, GetAttrRows
  <2>4. attr \subseteq attr'
    BY <1>8 DEF osd_getattr_list, get_refused, Rejected, tables, lazy_init_attr
  <2>5. InTable(attr', val') = registers
    <3>1. ASSUME NEW k \in Registers PROVE Holds(attr', val', k) = Holds(attr, val, k)
      <4>1. RowOf(k) \in attr' <=> RowOf(k) \in attr
        BY <2>3, <2>4 DEF RowsStay
      <4> QED
        BY <1>8, <4>1 DEF Holds, vals_kept
    <3> QED
      BY <1>3, <3>1 DEF InTable
  <2>6. Step
    <3>1. CASE sense' = "OSD_OK"
      BY <1>5, <1>8, <2>3, <2>5, <3>1
    <3>2. CASE sense' # "OSD_OK"
      <4> DEFINE ret == sense'
      <4>1. answer(op.req, ret, NoVal) /\ ret # "OSD_OK"
        BY <1>8, <3>2
      <4> HIDE DEF ret
      <4> QED
        BY <2>3, <2>5, <4>1, FailStep
    <3> QED
      BY <3>1, <3>2
  <2>7. ServiceOK'
    <3>1. op'.pc = "idle"
      BY <1>8 DEF answer, NoOp
    <3> QED
      BY <3>1, IdleNext
  <2> QED
    BY <2>2, <2>3, <2>6, <2>7 DEF Good, RegisterInv, disk
<1> QED
  BY <1>6, <1>7, <1>8 DEF exec_getattr

\* A transaction that is lost leaves the registers as they have been committed.
LEMMA DieStep == ASSUME RegisterInv, die PROVE Good
<1>1. op.pc # "idle" /\ answer(op.req, "DIED", NoVal)
  BY DEF die
<1>2. CASE op.saved = {} /\ osd_open /\ vals_kept
  BY <1>1, <1>2, OpenStep
<1>3. CASE rolled_back
  <2>1. PICK s \in op.saved : attr' = s.attr /\ val' = s.val /\ ic' = NoCache /\ UNCHANGED <<obj, dbfile>>
    BY <1>3 DEF rolled_back, disk
  <2>2. op.saved = {s}
    BY <1>1, <2>1 DEF RegisterInv, ServiceOK
  <2>3. registers = InTable(attr', val')
    BY <1>1, <2>1, <2>2, RegistersSaved
  <2>4. Step
    BY <1>1, <2>1, <2>3, FailStep
  <2>5. StoreInv'
    <3>1. \A k \in attr' : k[2] # PARTITION_OID => obj_ispresent(k[1], k[2])
      BY <1>1, <2>1 DEF RegisterInv, ServiceOK
    <3> QED
      BY <2>1, <3>1, AttrsInStore DEF RegisterInv
  <2> QED
    BY <1>1, <2>1, <2>4, <2>5, Ended DEF Good, RegisterInv
<1> QED
  BY <1>2, <1>3 DEF die

\* Objects come and go.
LEMMA NamespaceStep ==
    ASSUME RegisterInv, op.pc = "idle", Namespace, vals_kept, op' = op,
           reply' = [req |-> Nothing, ret |-> sense', out |-> NoVal]
    PROVE  Good
<1>1. RowsStay /\ dbfile' = TRUE
  BY NamespaceRows DEF RegisterInv, MultiInv
<1>2. StoreInv'
  BY NamespaceSafe DEF RegisterInv, MultiInv
<1>3. in_service = NoJob /\ in_service' = NoJob /\ ServiceOK'
  BY Idle, IdleNext
<1>4. registers = InTable(attr, val) /\ registers' = InTable(attr', val')
  BY RegistersNow, RegistersNext
<1>5. outcome'.req.cmd = "NAMESPACE" /\ outcome'.ret = Status(sense')
  BY DEF outcome, Nothing
<1>6. ASSUME NEW k \in Registers
      PROVE  \/ k[1] \in present \cap present' /\ registers'[k] = registers[k]
             \/ (k[1] \notin present \cap present' \/ outcome'.ret = "failed")
                  /\ registers'[k] = Initially0(k)
  <2>1. registers[k] = Holds(attr, val, k) /\ registers'[k] = Holds(attr', val', k)
    BY <1>4 DEF InTable
  <2>2. RowOf(k) \in attr' => RowOf(k) \in attr
    BY <1>1 DEF RowsStay
  <2>3. registers'[k] = IF RowOf(k) \in attr' THEN registers[k] ELSE Initially0(k)
    BY <2>1, <2>2, KeptRegister
  <2>4. RowOf(k) \notin attr => registers[k] = Initially0(k)
    BY <2>1 DEF Holds, Initially0
  <2>5. CASE RowOf(k) \in attr'
    <3>1. RowOf(k)[1] = k[1][1] /\ RowOf(k)[2] = k[1][2] /\ k[1][2] # PARTITION_OID /\ k[1] \in Objects
      BY RegisterKey, IdAssumption DEF RowOf, PARTITION_OID
    <3>2. obj_ispresent(k[1][1], k[1][2])
      BY <2>2, <2>5, <3>1 DEF RegisterInv, StoreInv, AttrsOwned
    <3>3. obj_ispresent(k[1][1], k[1][2])'
      BY <1>2, <2>5, <3>1 DEF StoreInv, AttrsOwned
    <3>4. k[1] \in present /\ k[1] \in present'
      BY <3>1, <3>2, <3>3 DEF present
    <3> QED
      BY <2>3, <2>5, <3>4
  <2>6. CASE RowOf(k) \notin attr' /\ RowOf(k) \notin attr
    BY <2>3, <2>4, <2>6
  <2>7. CASE RowOf(k) \notin attr' /\ RowOf(k) \in attr
    <3>1. k[1] \in present' => outcome'.ret = "failed"
      BY <1>1, <1>5, <2>7 DEF RowsStay, Status
    <3> QED
      BY <2>3, <2>7, <3>1
  <2> QED
    BY <2>5, <2>6, <2>7
<1>7. Step
  BY <1>3, <1>5, <1>6, IsNamespace
<1> QED
  BY <1>1, <1>2, <1>3, <1>7 DEF Good

LEMMA SetValueStep ==
    ASSUME RegisterInv, NEW p \in Pid, NEW o \in Oid, NEW a \in Counters \cup Plain, NEW v \in Value,
           SetValue(p, o, a, v)
    PROVE  Good
<1>1. op.pc = "idle" /\ set_value(p, o, a, v, FALSE) /\ op' = op
      /\ reply' = [req |-> [cmd |-> "SET", objs |-> {<<p, o>>}, list |-> <<Entry(a, v)>>],
                   ret |-> sense', out |-> NoVal]
  BY DEF SetValue
<1>2. StoreInv' /\ dbfile' = TRUE /\ obj' = obj
  BY <1>1, SetValueKeeps
<1>3. in_service = NoJob /\ in_service' = NoJob /\ ServiceOK'
  BY <1>1, Idle, IdleNext
<1>4. registers = InTable(attr, val) /\ registers' = InTable(attr', val')
  BY <1>1, RegistersNow, RegistersNext
<1> DEFINE list == <<Entry(a, v)>>
           x == <<p, o>>
<1>5. outcome'.req.cmd = "SET" /\ outcome'.req.objs = {x} /\ outcome'.req.list = list
      /\ outcome'.ret = Status(sense')
  BY <1>1 DEF outcome
<1>6. list \in Seq(Entries) /\ Len(list) = 1 /\ list[1].name = a /\ list[1].value = v
      /\ x \in Pid \X Oid /\ x[1] = p /\ x[2] = o /\ a \in Attrs
  BY RegisterNames DEF Entry, Entries
<1> HIDE DEF list, x
<1>7. CASE sense' # "OSD_OK"
  <2>1. attr' = attr /\ val' = val
    BY <1>1, <1>7, NothingWritten DEF RegisterInv, MultiInv
  <2>2. outcome'.ret = "failed" /\ in_service.phase = "none"
    BY <1>3, <1>5, <1>7 DEF Status, NoJob
  <2>3. Step
    BY <1>2, <1>3, <1>4, <2>1, <2>2, SamePresent, IsFail
  <2> QED
    BY <1>2, <1>3, <2>3 DEF Good
<1>8. CASE sense' = "OSD_OK"
  <2>1. InTable(attr, val) = AfterFirst(registers, x, list, 0)
    BY <1>4, AfterNone
  <2>2. PICK n \in Nat : n = 0
    OBVIOUS
  <2> DEFINE no == FALSE
  <2>3. set_value(p, o, a, v, no)
    BY <1>1
  <2> HIDE DEF no
  <2>4. n + 1 = 1
    BY <2>2
  <2>5. list[n + 1].name = a /\ list[n + 1].value = v
    BY <1>6, <2>4
  <2>6. set_value(x[1], x[2], list[n + 1].name, list[n + 1].value, no)
    BY <1>6, <2>3, <2>5
  <2>7. InTable(attr', val') = AfterFirst(registers, x, list, n + 1)
    <3>1. list[n + 1].name \in Attrs /\ InTable(attr, val) = AfterFirst(registers, x, list, n)
      BY <1>6, <2>1, <2>2, <2>5
    <3> QED
      BY <1>6, <1>8, <2>6, <3>1, EntryWritten
  <2>8. registers' = AfterFirst(registers, x, list, Len(list))
    BY <1>4, <1>6, <2>4, <2>7
  <2>9. Step
    BY <1>2, <1>3, <1>5, <1>6, <2>8, SamePresent, IsSet
  <2> QED
    BY <1>2, <1>3, <2>9 DEF Good
<1> QED
  BY <1>7, <1>8

LEMMA StoreCommandStep ==
    ASSUME RegisterInv,
           CreateOrRemove(OidInput, OidInput) \/ Partitions \/ Restart \/ InitialiseAttrs(OidInput)
    PROVE  Good
<1>1. Namespace /\ vals_kept /\ op.pc = "idle" /\ op' = op
      /\ reply' = [req |-> Nothing, ret |-> sense', out |-> NoVal]
  <2>1. CASE CreateOrRemove(OidInput, OidInput)
    BY <2>1, PidsUsed, Inputs DEF CreateOrRemove, Other, StoreStep, Namespace
  <2>2. CASE Partitions
    BY <2>2, PidsUsed DEF Partitions, Other, StoreStep, Namespace
  <2>3. CASE Restart
    BY <2>3 DEF Restart, Other, StoreStep, Namespace
  <2>4. CASE InitialiseAttrs(OidInput)
    BY <2>4, PidsUsed, Inputs DEF InitialiseAttrs, Other, StoreStep, Namespace
  <2> QED
    BY <2>1, <2>2, <2>3, <2>4
<1> QED
  BY <1>1, NamespaceStep

\* Every step of the program is one of the registers, or none.
LEMMA RegisterStep ==
    ASSUME RegisterInv, [RegisterNext(OidInput, Value)]_mvars
    PROVE  RegisterInv' /\ Step
<1>1. MultiInv'
  BY MNextKeeps DEF RegisterInv, MNext
<1>2. CASE UNCHANGED mvars
  <2>1. UNCHANGED <<obj, attr, ic, dbfile, val, op, reply>>
    BY <1>2 DEF mvars, avars, vars
  <2>2. UNCHANGED <<present, registers, in_service, outcome>>
    BY <2>1 DEF present, obj_ispresent, registers, register, committed, in_service, outcome
  <2>3. StoreInv' /\ dbfile' = TRUE
    BY <2>1, AttrsInStore DEF RegisterInv
  <2>4. ServiceOK'
    BY <2>1 DEF RegisterInv, ServiceOK, Uncommitted, attr_get_val, row, obj_ispresent
  <2> QED
    BY <1>1, <2>2, <2>3, <2>4 DEF Step, RegisterInv
<1>3. CASE SetAttributes(OidInput, Counters \cup Plain, Value)
  <2>1. PICK p \in DataPids, o \in OidInput, a \in Counters \cup Plain, v \in Value : SetValue(p, o, a, v)
    BY <1>3 DEF SetAttributes, Other
  <2>2. Good
    BY <2>1, PidsUsed, Inputs, SetValueStep
  <2> QED
    BY <1>1, <2>2 DEF Good, RegisterInv
<1>4. CASE Served
  <2>1. Good
    BY <1>4, InitCounterStep, SwapCounterStep, GenCasStep, SetAttrListStep, CasSetattrStep, GetAttrStep, DieStep
    DEF Served, Other, InService
  <2> QED
    BY <1>1, <2>1 DEF Good, RegisterInv
<1>5. CASE Atomic
  BY <1>1, <1>5, AtomicStep DEF Good, RegisterInv
<1>6. CASE CreateOrRemove(OidInput, OidInput) \/ Partitions \/ Restart \/ InitialiseAttrs(OidInput)
  BY <1>1, <1>6, StoreCommandStep DEF Good, RegisterInv
<1> QED
  BY <1>2, <1>3, <1>4, <1>5, <1>6 DEF RegisterNext

LEMMA RegistersInitially == ASSUME MInit PROVE RegisterInv /\ Abstract!Init
<1>1. obj = InitialObj /\ attr = {} /\ dbfile = TRUE /\ op.pc = "idle"
      /\ reply = [req |-> Nothing, ret |-> "OSD_OK", out |-> NoVal]
  BY DEF MInit, AInit, Init, NoOp
<1>2. RegisterInv
  BY <1>1, Initially, InitSafe DEF RegisterInv, ServiceOK, MInit, AInit
<1>3. present = {}
  <2>1. ASSUME NEW k \in Objects PROVE ~obj_ispresent(k[1], k[2])
    <3>1. k[1] \in IdLB .. MaxPid /\ k[2] \in IdLB .. MaxOid
      BY DEF Objects
    <3>2. k[1] \in Pid /\ k[2] \in Oid /\ k[1] # 0
      BY <3>1, IdAssumption DEF Pid, Oid
    <3> QED
      BY <1>1, <3>2, FreshRows DEF obj_ispresent
  <2> QED
    BY <2>1 DEF present
<1>4. registers = [k \in Registers |-> Abstract!Initial(k)]
  BY <1>1, RegistersNow DEF InTable, Holds, Abstract!Initial
<1>5. in_service = Abstract!NoJob
  BY <1>1, Idle DEF NoJob, Abstract!NoJob
<1>6. outcome = [req |-> [cmd |-> "NAMESPACE"], ret |-> "done", out |-> NoVal]
  BY <1>1 DEF outcome, Status, Nothing
<1> QED
  BY <1>2, <1>3, <1>4, <1>5, <1>6 DEF Abstract!Init

(* Reads, lazy initialisations, writes and attributes set along the way in     *)
(* separate statements, failures and deaths between any two, a transaction that *)
(* is committed even when it fails and lost when the process dies: whatever the *)
(* requests, the sizes and the interleaving with creations and removals, every  *)
(* atomic command reads and writes its register in one step, at most once,      *)
(* between request and reply (osd.c:3127-3158, 3196-3222, cdb.c:1303-1355).     *)
THEOREM RegistersImplemented == RegisterSpec => ImplementsRegisters
<1>1. MInit => RegisterInv /\ Abstract!Init
  BY RegistersInitially
<1>2. RegisterInv /\ [RegisterNext(OidInput, Value)]_mvars => RegisterInv' /\ [Abstract!Next]_(Abstract!rvars)
  <2> SUFFICES ASSUME RegisterInv, [RegisterNext(OidInput, Value)]_mvars
               PROVE  RegisterInv' /\ [Abstract!Next]_(Abstract!rvars)
    OBVIOUS
  <2> QED
    BY RegisterStep DEF Step, Abstract!rvars
<1> QED
  BY <1>1, <1>2, PTL DEF RegisterSpec, ImplementsRegisters, Abstract!Spec

=============================================================================
