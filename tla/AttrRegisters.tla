--------------------------- MODULE AttrRegisters ----------------------------
(***************************************************************************)
(* What the atomic commands of the target promise, without tables or          *)
(* statements: every attribute of an object is a register.  A command reads   *)
(* its register and writes it in one step, at most once, between the request   *)
(* and the reply.  One that reports an error, or that the process does not     *)
(* survive, may have taken that step or not, and may have set the first of the  *)
(* attributes that came with it; one that succeeds has done all of it.          *)
(***************************************************************************)
EXTENDS Integers, Sequences

CONSTANTS
    Key,        \* the registers: <<object, name>>
    Counters,   \* the names of those that start at 0 and not without a value
    Word,       \* 2^64: sums wrap
    NoVal       \* no value

VARIABLES
    live,   \* the objects there are
    reg,    \* reg[k]: the value of register k
    job,    \* the atomic command in service
    reply   \* the last command and its outcome

rvars == <<live, reg, job, reply>>

NoJob == [phase |-> "none"]

Initial(k) == IF k[2] \in Counters THEN 0 ELSE NoVal

\* The register a request is about, and what it holds afterwards.
Target(r) == <<r.obj, r.name>>

Effect(r, old) ==
    CASE r.cmd = "CAS" -> IF old = r.cmp THEN r.swap ELSE old
      [] r.cmd = "FA"  -> (old + r.add) % Word
      [] OTHER         -> IF old = r.cmp \/ (old = NoVal /\ r.swap # NoVal) THEN r.swap ELSE old

\* COND SETATTR goes on to the other attributes only when the comparison held.
Remaining(r, old) == IF r.cmd = "COND_SETATTR" /\ old # r.cmp THEN <<>> ELSE r.rest

\* The registers after the attributes of a list have been set on some objects.
\* Where a name repeats, the last one counts.
Assigned(objs, list) ==
    [k \in Key |->
        LET entries == {i \in 1 .. Len(list) : k[1] \in objs /\ list[i].name = k[2]}
            last == list[CHOOSE i \in entries : \A j \in entries : j <= i].value
        IN  IF entries = {} THEN reg[k] ELSE IF last = NoVal THEN Initial(k) ELSE last]

-----------------------------------------------------------------------------
Init ==
    /\ live \in SUBSET {k[1] : k \in Key}
    /\ reg = [k \in Key |-> Initial(k)]
    /\ job = NoJob
    /\ reply = [req |-> [cmd |-> "NAMESPACE"], ret |-> "done", out |-> NoVal]

Accept == job = NoJob /\ job'.phase = "asked" /\ UNCHANGED <<live, reg, reply>>

Apply ==
    LET r == job.req
        old == reg[Target(r)]
    IN  /\ job.phase = "asked"
        /\ reg' = [reg EXCEPT ![Target(r)] = Effect(r, old)]
        /\ job' = [phase |-> "applied", req |-> r, old |-> old, todo |-> Remaining(r, old)]
        /\ UNCHANGED <<live, reply>>

\* The first n of the attributes that came with the command.
SetFirst(n) ==
    /\ \A i \in 1 .. n : <<job.req.obj, job.todo[i].name>> \in Key
    /\ reg' = Assigned({job.req.obj}, SubSeq(job.todo, 1, n))

SetSome ==
    /\ job.phase = "applied"
    /\ \E n \in 1 .. Len(job.todo) :
          /\ SetFirst(n)
          /\ job' = [job EXCEPT !.todo = SubSeq(@, n + 1, Len(@))]
    /\ UNCHANGED <<live, reply>>

Answer ==
    /\ job.phase = "applied" /\ job.todo = <<>>
    /\ reply' = [req |-> job.req, ret |-> "done", out |-> job.old]
    /\ job' = NoJob
    /\ UNCHANGED <<live, reg>>

Fail ==
    /\ job.phase # "none" => reply'.req = job.req
    /\ reply'.ret = "failed"
    /\ job' = NoJob
    /\ UNCHANGED live
    /\ \/ UNCHANGED reg
       \/ job.phase = "applied" /\ \E n \in 1 .. Len(job.todo) : SetFirst(n)

\* Commands that set attributes outright: those in their list, of the objects
\* they name, and no others.
Set ==
    /\ job = NoJob /\ UNCHANGED <<live, job>>
    /\ reply'.req.cmd = "SET"
    /\ reg' = Assigned(reply'.req.objs, reply'.req.list)

\* Commands that only look.
Look == job = NoJob /\ UNCHANGED <<live, reg, job>>

\* Objects come and go.  One that is new, or gone, has no values from before;
\* one that stays keeps its own, unless its removal failed half way.
Namespace ==
    /\ job = NoJob /\ UNCHANGED job
    /\ reply'.req.cmd = "NAMESPACE"
    /\ \A k \in Key :
          \/ k[1] \in live \cap live' /\ reg'[k] = reg[k]
          \/ (k[1] \notin live \cap live' \/ reply'.ret = "failed") /\ reg'[k] = Initial(k)

Next == Accept \/ Apply \/ SetSome \/ Answer \/ Fail \/ Set \/ Look \/ Namespace

Spec == Init /\ [][Next]_rvars
=============================================================================
