------------------------------ MODULE OsdData -------------------------------
(***************************************************************************)
(* The contents of data files: the read, write, append, clear, punch, flush  *)
(* and map handlers of osd.c and io.c over the object store, together with    *)
(* the creations and removals that make files come and go.  Once a file is    *)
(* open, any further system call on it may fail, and the process may die      *)
(* between two of them.                                                       *)
(*                                                                            *)
(* A file is a sequence of bytes.  The file system refuses to let it grow     *)
(* past MaxLen: a pwrite across that limit is short, as on a full disk.       *)
(***************************************************************************)
EXTENDS OsdStore, Sequences

CONSTANTS
    Byte,       \* the byte values initiators write
    MaxLen,     \* bound: the largest file the file system can hold
    MaxBuf,     \* bound: the largest buffer of one command
    ULen,       \* 2^16: set_uiap keeps a length in a uint16_t
    ULong,      \* 2^64: sums of offsets and lengths wrap
    Sgls,       \* scatter/gather lists: sequences of [off, len]
    MaxStride,  \* bound: the largest stride and piece of a strided transfer
    DscptrSize  \* dscptr_size of osd_read_map

ASSUME DataAssumption ==
    /\ Byte \subseteq Nat
    /\ MaxLen \in Nat /\ MaxBuf \in Nat
    /\ ULen \in Nat \ {0} /\ ULong \in Nat /\ ULong > MaxLen
    /\ Sgls \subseteq Seq([off : Nat, len : Nat]) /\ <<>> \notin Sgls
    /\ MaxStride \in Nat /\ DscptrSize \in Nat \ {0}

VARIABLES
    data,   \* data[<<pid, oid>>]: the bytes of the file, <<>> if there is none
    call    \* the last command: its request, its result, the data it returned

dvars == <<vars, data, call>>

File == Pid \X Oid
Zero == 0

Least(m, n)    == IF m < n THEN m ELSE n
Greatest(m, n) == IF m < n THEN n ELSE m

Unasked == [op |-> "NAMESPACE"]

-----------------------------------------------------------------------------
(* System calls *)

\* The bytes that are there.
pread(s, off, len) == SubSeq(s, off + 1, Least(off + len, Len(s)))

\* How many bytes fit; fewer than asked for is a short write.
pwritten(off, buf) == IF off >= MaxLen THEN 0 ELSE Least(Len(buf), MaxLen - off)

\* A gap between the end and the first new byte reads as zeros.
pwrite(s, off, buf) ==
    LET n == pwritten(off, buf)
    IN  IF n = 0 THEN s
        ELSE [i \in 1 .. Greatest(Len(s), off + n) |->
                IF i \in off + 1 .. off + n THEN buf[i - off]
                ELSE IF i <= Len(s) THEN s[i] ELSE Zero]

truncate(s, len) == [i \in 1 .. len |-> IF i <= Len(s) THEN s[i] ELSE Zero]

\* open: no such file, or a path built from a freed root.
open_fails(p, o) == p < IdLB \/ o < IdLB \/ <<p, o>> \notin dfile \/ IoMayFail
opens(p, o)      == p >= IdLB /\ o >= IdLB /\ <<p, o>> \in dfile

-----------------------------------------------------------------------------
(* Requests *)

\* All positions a list of [off, len] pairs names, in order.
positions(base, pairs) ==
    LET upto[k \in 0 .. Len(pairs)] ==
          IF k = 0 THEN <<>>
          ELSE upto[k - 1] \o [i \in 1 .. pairs[k].len |-> base + pairs[k].off + i - 1]
    IN  upto[Len(pairs)]

contig_pairs(len) == <<[off |-> 0, len |-> len]>>

\* The pieces of a strided transfer of `bytes` bytes: the last one is clipped.
\* Callers give 0 < length <= bytes; outside of that the loop does not end.
vec_pairs(stride, length, bytes) ==
    [k \in 1 .. (bytes + length - 1) \div length |->
        [off |-> (k - 1) * stride, len |-> Least(length, bytes - (k - 1) * length)]]

total(pairs) == Len(positions(0, pairs))

replied(req, ret, out) ==
    /\ sense' = ret
    /\ call' = [req |-> req, ret |-> ret, out |-> out]

\* Nothing but the reply.
refused(req, ret) ==
    replied(req, ret, <<>>) /\ UNCHANGED <<tables, disk, root, ic, ccap, data>>

\* The process dies inside a command and is started again.
died(req) == osd_open /\ call' = [req |-> req, ret |-> "DIED", out |-> <<>>]

data_only == UNCHANGED <<tables, disk, root, ic>>

-----------------------------------------------------------------------------
(* READ *)

\* The bytes asked for, in order, and the length in the command.
read_req(p, o, at, len) == [op |-> "READ", obj |-> <<p, o>>, at |-> at, len |-> len]

\* A file that is open can fail to be read; a command without room for data
\* comes without a buffer, which the process may not survive.
read_failed(req) ==
    \/ refused(req, "HARDWARE_ERROR")
    \/ req.len = 0 /\ died(req) /\ UNCHANGED data

\* A short read is padded with zeros and reported as a recovered error.
contig_read(p, o, off, len) ==
    LET got == pread(data[<<p, o>>], off, len)
        req == read_req(p, o, positions(off, contig_pairs(len)), len)
    IN  \/ open_fails(p, o) /\ refused(req, "ILLEGAL_REQUEST")
        \/ opens(p, o) /\ read_failed(req)
        \/ /\ opens(p, o)
           /\ replied(req, IF Len(got) < len THEN "READ_PAST_END" ELSE "OSD_OK",
                      [i \in 1 .. len |-> IF i <= Len(got) THEN got[i] ELSE Zero])
           /\ fill_ccap("USEROBJECT", p, o)
           /\ data_only /\ UNCHANGED data

\* What the pieces deliver, each put right behind what was read before it.
gathered(s, base, pairs) ==
    LET upto[k \in 0 .. Len(pairs)] ==
          IF k = 0 THEN <<>>
          ELSE upto[k - 1] \o pread(s, base + pairs[k].off, pairs[k].len)
    IN  upto[Len(pairs)]

\* The next piece overwrites the zeros that filled up a short one.  The list
\* may ask for fewer bytes than the length of the command.
sgl_read(p, o, base, pairs, len) ==
    LET got == gathered(data[<<p, o>>], base, pairs)
        req == read_req(p, o, positions(base, pairs), len)
    IN  \/ open_fails(p, o) /\ refused(req, "ILLEGAL_REQUEST")
        \/ opens(p, o) /\ read_failed(req)
        \/ /\ opens(p, o)
           /\ replied(req, IF Len(got) < len THEN "READ_PAST_END" ELSE "OSD_OK", got)
           /\ fill_ccap("USEROBJECT", p, o)
           /\ data_only /\ UNCHANGED data

\* A piece that is short fails the command.
vec_read(p, o, base, stride, length, bytes) ==
    LET pairs == vec_pairs(stride, length, bytes)
        got == gathered(data[<<p, o>>], base, pairs)
        req == read_req(p, o, positions(base, pairs), bytes)
    IN  \/ open_fails(p, o) /\ refused(req, "ILLEGAL_REQUEST")
        \/ opens(p, o) /\ read_failed(req)
        \/ /\ opens(p, o) /\ Len(got) = bytes
           /\ replied(req, "OSD_OK", got)
           /\ fill_ccap("USEROBJECT", p, o)
           /\ data_only /\ UNCHANGED data

-----------------------------------------------------------------------------
(* WRITE, APPEND, CLEAR *)

\* The buffer is consumed piece by piece.
piece(pairs, buf, k) ==
    LET start[j \in 1 .. Len(pairs)] == IF j = 1 THEN 0 ELSE start[j - 1] + pairs[j - 1].len
    IN  SubSeq(buf, start[k] + 1, start[k] + pairs[k].len)

fits(base, pairs, buf, k) ==
    pwritten(base + pairs[k].off, piece(pairs, buf, k)) = pairs[k].len

\* The file after n pieces; the first that is short is the last that is written.
scattered(s, base, pairs, buf, n) ==
    LET upto[k \in 0 .. n] ==
          IF k = 0 THEN s
          ELSE IF \E j \in 1 .. k - 1 : ~fits(base, pairs, buf, j) THEN upto[k - 1]
          ELSE pwrite(upto[k - 1], base + pairs[k].off, piece(pairs, buf, k))
    IN  upto[n]

all_fit(base, pairs, buf) == \A k \in 1 .. Len(pairs) : fits(base, pairs, buf, k)

\* What a transfer that breaks off may leave: the pieces before some piece and
\* the first bytes of that one, from nothing to everything.
begun(s, base, pairs, buf) ==
    UNION {{pwrite(scattered(s, base, pairs, buf, k - 1), base + pairs[k].off,
                   SubSeq(piece(pairs, buf, k), 1, n)) : n \in 0 .. pairs[k].len} :
           k \in {j \in 1 .. Len(pairs) : \A i \in 1 .. j - 1 : fits(base, pairs, buf, i)}}

\* What contig_write, sgl_write and vec_write, and the three appends, share.
write_pairs(req, p, o, base, pairs, buf, out) ==
    \/ open_fails(p, o) /\ refused(req, "ILLEGAL_REQUEST")
    \/ /\ opens(p, o) /\ all_fit(base, pairs, buf)
       /\ data' = [data EXCEPT ![<<p, o>>] = scattered(@, base, pairs, buf, Len(pairs))]
       /\ replied(req, "OSD_OK", out)
       /\ fill_ccap("USEROBJECT", p, o)
       /\ data_only
    \/ /\ opens(p, o)
       /\ \E s \in begun(data[<<p, o>>], base, pairs, buf) : data' = [data EXCEPT ![<<p, o>>] = s]
       /\ replied(req, "HARDWARE_ERROR", <<>>)
       /\ data_only /\ UNCHANGED ccap

write_req(p, o, base, pairs, buf) ==
    [op |-> "WRITE", obj |-> <<p, o>>, at |-> positions(base, pairs), buf |-> buf]

osd_write(p, o, base, pairs, buf) ==
    write_pairs(write_req(p, o, base, pairs, buf), p, o, base, pairs, buf, <<>>)

append_req(p, o, pairs, buf) ==
    [op |-> "APPEND", obj |-> <<p, o>>, at |-> positions(0, pairs), buf |-> buf]

\* lseek to the end.
append_off(p, o) == Len(data[<<p, o>>])

\* The offset goes into the current command attributes page.
osd_append(p, o, pairs, buf) ==
    write_pairs(append_req(p, o, pairs, buf), p, o, append_off(p, o), pairs, buf,
                <<append_off(p, o)>>)

osd_clear(p, o, off, len) == osd_write(p, o, off, contig_pairs(len), [i \in 1 .. len |-> Zero])

-----------------------------------------------------------------------------
(* CREATE AND WRITE *)

\* Files that are created start empty, files that are gone lose their bytes.
kept == [f \in File |-> IF f \in dfile \cap dfile' THEN data[f] ELSE <<>>]

\* osd_create(p, requested, 1) up to its reply.
one_created(p, requested, oid) ==
    /\ ~bad_target(p, requested)
    /\ chosen_id(p, requested, oid)
    /\ creatable(p, oid)
    /\ obj' = obj_insert(p, oid, 1, "USEROBJECT")
    /\ dfile' = osd_create_datafile(p, oid, 1)
    /\ UNCHANGED <<attr, coll, dbfile, root>>

MutNotRemoved(p, requested, s) ==
    /\ one_created(p, requested, requested)
    /\ ic' = NoCache
    /\ fill_ccap("USEROBJECT", p, requested)
    /\ data' = [kept EXCEPT ![<<p, requested>>] = s]

\* What osd_remove leaves of the object that could not be written, or of which
\* s had been written.
created_removed(p, requested, s) ==
    /\ ~bad_target(p, requested) /\ creatable(p, requested)
    /\ ic' = NoCache
    /\ \/ UNCHANGED dfile /\ data' = kept
       \/ /\ IoMayFail /\ dfile' = osd_create_datafile(p, requested, 1)
          /\ data' = [kept EXCEPT ![<<p, requested>>] = s]
    /\ \E done \in Completed(3) :
         /\ attr' = IF done >= 1 THEN attr_delete_all(p, requested) ELSE attr
         /\ coll' = IF done >= 2 THEN coll_delete_oid(p, requested) ELSE coll
         /\ obj'  = IF done >= 3 THEN obj ELSE obj_insert(p, requested, 1, "USEROBJECT")
         /\ IF done = 3 THEN fill_ccap("USEROBJECT", p, requested) ELSE UNCHANGED ccap
    /\ UNCHANGED <<dbfile, root>>

create_and_write_req(p, requested, base, pairs, buf) ==
    [op |-> "CREATE_AND_WRITE", obj |-> <<p, requested>>, at |-> positions(base, pairs), buf |-> buf]

\* The write and the removal name the requested id, not the created one: with
\* id 0 both are refused and the object stays.
osd_create_and_write(p, requested, base, pairs, buf) ==
    LET f == <<p, requested>>
        req == create_and_write_req(p, requested, base, pairs, buf)
    IN  \/ /\ osd_create(p, requested, 1)
           /\ sense' # "OSD_OK"
           /\ replied(req, sense', <<>>)
           /\ data' = kept
        \/ /\ requested # 0 /\ all_fit(base, pairs, buf)
           /\ one_created(p, requested, requested)
           /\ ic' = ic_after(p, requested, requested, 1)
           /\ fill_ccap("USEROBJECT", p, requested)
           /\ data' = [kept EXCEPT ![f] = scattered(<<>>, base, pairs, buf, Len(pairs))]
           /\ replied(req, "OSD_OK", <<>>)
        \/ /\ requested # 0
           /\ \E s \in begun(<<>>, base, pairs, buf) : created_removed(p, requested, s)
           /\ replied(req, "HARDWARE_ERROR", <<>>)
        \/ /\ requested # 0 /\ IoMayFail
           /\ created_removed(p, requested, <<>>)
           /\ replied(req, "ILLEGAL_REQUEST", <<>>)
        \/ /\ requested = 0
           /\ \E oid \in Oid :
                /\ one_created(p, 0, oid)
                /\ ic' = ic_after(p, 0, oid, 1)
                /\ fill_ccap("USEROBJECT", p, oid)
           /\ data' = kept
           /\ replied(req, "ILLEGAL_REQUEST", <<>>)

-----------------------------------------------------------------------------
(* PUNCH, FLUSH, READ MAP, logical length *)

\* What lies behind the removed bytes.
tail(s, new_offset) == SubSeq(s, new_offset + 1, Len(s))

MutCutWrongWay(s, off, new_offset) ==
    IF new_offset > Len(s) THEN truncate(s, off)
    ELSE truncate(pwrite(s, off, tail(s, new_offset)), Len(s) + new_offset - off)

MutTailNotCut(s, off, new_offset) ==
    IF new_offset > Len(s) THEN truncate(s, off) ELSE pwrite(s, off, tail(s, new_offset))

\* The tail moves down and the rest is cut off.
punched(s, off, new_offset) ==
    IF new_offset > Len(s) THEN truncate(s, off)
    ELSE truncate(pwrite(s, off, tail(s, new_offset)), off + Len(s) - new_offset)

\* Only a wrapped sum moves the tail up, where it may not fit.
tail_fits(s, off, new_offset) ==
    new_offset <= Len(s) => pwritten(off, tail(s, new_offset)) = Len(s) - new_offset

\* What a PUNCH that breaks off may leave: the first bytes of the tail have
\* moved, all of them, or the file has been cut as well.
punch_leaves(s, off, new_offset) ==
    {s} \cup {pwrite(s, off, SubSeq(s, new_offset + 1, n)) : n \in new_offset + 1 .. Len(s)}
        \cup {t \in {punched(s, off, new_offset)} : tail_fits(s, off, new_offset)}

punch_req(p, o, off, len) == [op |-> "PUNCH", obj |-> <<p, o>>, off |-> off, len |-> len]

\* Does not touch the current command attributes page.
osd_punch(p, o, off, len) ==
    LET s == data[<<p, o>>]
        new_offset == (len + off) % ULong
        req == punch_req(p, o, off, len)
    IN  \/ open_fails(p, o) /\ refused(req, "ILLEGAL_REQUEST")
        \/ opens(p, o) /\ refused(req, "OSD_ERROR")
        \/ opens(p, o) /\ off > Len(s) /\ refused(req, "ILLEGAL_REQUEST")
        \/ /\ opens(p, o) /\ off <= Len(s)
           /\ \/ /\ tail_fits(s, off, new_offset)
                 /\ data' = [data EXCEPT ![<<p, o>>] = punched(@, off, new_offset)]
                 /\ replied(req, "OSD_OK", <<>>)
              \/ /\ \E t \in punch_leaves(s, off, new_offset) : data' = [data EXCEPT ![<<p, o>>] = t]
                 /\ replied(req, "HARDWARE_ERROR", <<>>)
           /\ data_only /\ UNCHANGED ccap

\* Attributes only (scope 1), or anything but 0 and 2, is not implemented; a
\* range that is cut at the end of the file leaves the page alone.
osd_flush(p, o, off, len, scope) ==
    LET size == Len(data[<<p, o>>])
        req == [op |-> "FLUSH", obj |-> <<p, o>>]
        illegal == scope \notin {0, 2} \/ (scope = 2 /\ off > size)
    IN  \/ open_fails(p, o) /\ refused(req, "ILLEGAL_REQUEST")
        \/ opens(p, o) /\ illegal /\ refused(req, "ILLEGAL_REQUEST")
        \/ opens(p, o) /\ scope = 2 /\ refused(req, "OSD_ERROR")
        \/ opens(p, o) /\ scope \in {0, 2} /\ refused(req, "HARDWARE_ERROR")
        \/ /\ opens(p, o) /\ ~illegal
           /\ replied(req, "OSD_OK", <<>>)
           /\ IF scope = 2 /\ len > size - off THEN UNCHANGED ccap
              ELSE fill_ccap("USEROBJECT", p, o)
           /\ data_only /\ UNCHANGED data

\* The data lengths of the descriptors: full ones, then the rest.
dscptrs(size, off) ==
    [k \in 1 .. (size - off + DscptrSize - 1) \div DscptrSize |->
        Least(DscptrSize, size - off - (k - 1) * DscptrSize)]

\* Only WRITTEN_DATA is implemented.  A command may come without a buffer,
\* which the process does not survive.
osd_read_map(p, o, alloc, off, map_type) ==
    LET s == data[<<p, o>>]
        req == [op |-> "READ_MAP", obj |-> <<p, o>>, off |-> off, alloc |-> alloc]
    IN  \/ alloc = 0 /\ refused(req, "OSD_OK")
        \/ alloc \in 1 .. 23 /\ refused(req, "ILLEGAL_REQUEST")
        \/ alloc >= 24 /\ open_fails(p, o) /\ refused(req, "ILLEGAL_REQUEST")
        \/ /\ alloc >= 24 /\ opens(p, o)
           /\ off > Len(s) \/ map_type # "WRITTEN_DATA"
           /\ refused(req, "ILLEGAL_REQUEST")
        \/ /\ alloc >= 24 /\ opens(p, o)
           /\ refused(req, "OSD_ERROR") \/ refused(req, "HARDWARE_ERROR")
        \/ died(req) /\ UNCHANGED data
        \/ /\ alloc >= 24 /\ opens(p, o) /\ off <= Len(s) /\ map_type = "WRITTEN_DATA"
           /\ replied(req, "OSD_OK", dscptrs(Len(s), off))
           /\ data_only /\ UNCHANGED <<ccap, data>>

\* set_uiap: the 64-bit length is narrowed before the file is truncated.
uiap_truncated(s, v) == truncate(s, v % ULen)

set_length_req(p, o, v) == [op |-> "SET_LENGTH", obj |-> <<p, o>>, len |-> v]

\* SET ATTRIBUTES of (USER_INFO_PG, UIAP_LOGICAL_LEN); truncate may fail.
set_uiap(p, o, v, embedded) ==
    LET f == <<p, o>>
        req == set_length_req(p, o, v)
    IN  \/ (absent_object(p, o) \/ DbMayFail) /\ refused(req, "ILLEGAL_REQUEST")
        \/ /\ ~absent_object(p, o) /\ get_obj_type(p, o) # "USEROBJECT"
           /\ refused(req, "PARAM_LIST")
        \/ /\ ~absent_object(p, o) /\ get_obj_type(p, o) = "USEROBJECT"
           /\ \/ refused(req, "ILLEGAL_REQUEST")
              \/ /\ f \in dfile /\ v % ULen <= MaxLen
                 /\ data' = [data EXCEPT ![f] = uiap_truncated(@, v)]
                 /\ replied(req, "OSD_OK", <<>>)
                 /\ IF embedded THEN UNCHANGED ccap ELSE fill_ccap("USEROBJECT", p, o)
                 /\ data_only

\* GET ATTRIBUTES of the same number: the size of the file.
get_logical_len(p, o, embedded) ==
    LET f == <<p, o>>
        type == get_obj_type(p, o)
        req == [op |-> "GET_LENGTH", obj |-> f]
    IN  \/ /\ type = "ILLEGAL_OBJ" \/ (o # PARTITION_OID /\ DbMayFail)
           /\ refused(req, "ILLEGAL_REQUEST")
        \/ /\ type # "ILLEGAL_OBJ"
           /\ type # "USEROBJECT" \/ f \notin dfile \/ IoMayFail
           /\ refused(req, "PARAM_LIST")
        \/ /\ type = "USEROBJECT" /\ f \in dfile
           /\ replied(req, "OSD_OK", <<Len(data[f])>>)
           /\ IF embedded THEN UNCHANGED ccap ELSE fill_ccap("USEROBJECT", p, o)
           /\ data_only /\ UNCHANGED data

-----------------------------------------------------------------------------
(* The process dies inside a command and is started again *)

\* Within or behind the transfer of a WRITE, a CLEAR or an APPEND.
die_in_transfer(req, p, o, base, pairs, buf) ==
    /\ opens(p, o)
    /\ \E s \in begun(data[<<p, o>>], base, pairs, buf) : data' = [data EXCEPT ![<<p, o>>] = s]
    /\ died(req)

die_in_punch(p, o, off, len) ==
    LET s == data[<<p, o>>]
    IN  /\ opens(p, o) /\ off <= Len(s)
        /\ \E t \in punch_leaves(s, off, (len + off) % ULong) : data' = [data EXCEPT ![<<p, o>>] = t]
        /\ died(punch_req(p, o, off, len))

\* Behind the truncation.
die_in_set_length(p, o, v) ==
    /\ opens(p, o) /\ get_obj_type(p, o) = "USEROBJECT" /\ v % ULen <= MaxLen
    /\ data' = [data EXCEPT ![<<p, o>>] = uiap_truncated(@, v)]
    /\ died(set_length_req(p, o, v))

\* CREATE AND WRITE runs without a transaction.  The row is there, and perhaps
\* the file with what has been written; or the write has failed and its removal
\* has come to its unlink and to the next `undone` statements.
die_in_create_and_write(p, requested, oid, base, pairs, buf) ==
    LET f == <<p, oid>>
    IN  /\ ~bad_target(p, requested) /\ chosen_id(p, requested, oid) /\ ~obj_ispresent(p, oid)
        /\ \E file \in BOOLEAN, undone \in 0 .. 3 :
             /\ file \/ undone > 0 => f \notin dfile
             /\ undone > 0 => requested # 0 /\ (file => IoMayFail)
             /\ dfile' = IF file THEN osd_create_datafile(p, oid, 1) ELSE dfile
             /\ IF file /\ requested # 0
                THEN \E s \in begun(<<>>, base, pairs, buf) : data' = [data EXCEPT ![f] = s]
                ELSE UNCHANGED data
             /\ IF dbfile
                THEN /\ attr' = IF undone >= 1 THEN attr_delete_all(p, oid) ELSE attr
                     /\ coll' = IF undone >= 2 THEN coll_delete_oid(p, oid) ELSE coll
                     /\ obj'  = IF undone = 3 THEN obj ELSE obj_insert(p, oid, 1, "USEROBJECT")
                ELSE fresh_tables
        /\ restarted
        /\ call' = [req |-> create_and_write_req(p, requested, base, pairs, buf),
                    ret |-> "DIED", out |-> <<>>]

-----------------------------------------------------------------------------
DInit ==
    /\ Init
    /\ data = [f \in File |-> <<>>]
    /\ call = [req |-> Unasked, ret |-> "OSD_OK", out |-> <<>>]

\* The other commands: some of them make and remove data files.
Namespace ==
    /\ Next
    /\ data' = kept
    /\ call' = [req |-> Unasked, ret |-> sense', out |-> <<>>]

\* Every user object, and ids no object can have.
Targets == ((IdLB .. MaxPid) \X ({0} \cup IdLB .. MaxOid)) \cup {<<0, IdLB>>}

Offset  == 0 .. MaxLen
Buffers == UNION {[1 .. n -> Byte] : n \in 0 .. MaxBuf}

\* The pairs of a strided transfer, as vec_write and vec_append take them.
Strides  == {v \in [stride : 1 .. MaxStride, length : 1 .. MaxStride, bytes : 1 .. MaxBuf] :
                v.length <= v.bytes}
VecPairs == {vec_pairs(v.stride, v.length, v.bytes) : v \in Strides}

\* What a WRITE or an APPEND may carry: one run, a list, or strides.
Transfers(buf) ==
    {contig_pairs(Len(buf))} \cup {g \in Sgls \cup VecPairs : total(g) = Len(buf)}

Read ==
    \E t \in Targets, off \in Offset :
        \/ \E len \in 0 .. MaxBuf : contig_read(t[1], t[2], off, len)
        \/ \E g \in Sgls : \E len \in total(g) .. MaxBuf : sgl_read(t[1], t[2], off, g, len)
        \/ \E v \in Strides : vec_read(t[1], t[2], off, v.stride, v.length, v.bytes)

Write ==
    \E t \in Targets, off \in Offset, buf \in Buffers : \E g \in Transfers(buf) :
        osd_write(t[1], t[2], off, g, buf)

AppendData ==
    \E t \in Targets, buf \in Buffers : \E g \in Transfers(buf) : osd_append(t[1], t[2], g, buf)

Clear == \E t \in Targets, off \in Offset, len \in 0 .. MaxBuf : osd_clear(t[1], t[2], off, len)

CreateAndWrite ==
    \E t \in Targets, off \in Offset, buf \in Buffers : \E g \in Transfers(buf) :
        osd_create_and_write(t[1], t[2], off, g, buf)

\* Lengths up to the size and past it, and those with which the sum wraps.
Lengths == (0 .. MaxLen + 1) \cup (ULong - MaxLen .. ULong - 1)

Punch ==
    \E t \in Targets, off \in Offset, len \in Lengths : osd_punch(t[1], t[2], off, len)

Flush ==
    \E t \in Targets, off \in {0, MaxLen}, len \in {0, MaxLen}, scope \in 0 .. 2 :
        osd_flush(t[1], t[2], off, len, scope)

ReadMap ==
    \E t \in Targets, off \in Offset, alloc \in {0, 8, 24}, map_type \in {"WRITTEN_DATA", "DATA_HOLE"} :
        osd_read_map(t[1], t[2], alloc, off, map_type)

SetLength == \E t \in Targets, v \in 0 .. ULen + 1, e \in BOOLEAN : set_uiap(t[1], t[2], v, e)

GetLength == \E t \in Targets, e \in BOOLEAN : get_logical_len(t[1], t[2], e)

Die ==
    \E t \in Targets :
        \/ \E off \in Offset, buf \in Buffers : \E g \in Transfers(buf) :
             \/ die_in_transfer(write_req(t[1], t[2], off, g, buf), t[1], t[2], off, g, buf)
             \/ \E oid \in Oid : die_in_create_and_write(t[1], t[2], oid, off, g, buf)
        \/ \E buf \in Buffers : \E g \in Transfers(buf) :
             die_in_transfer(append_req(t[1], t[2], g, buf), t[1], t[2], append_off(t[1], t[2]), g, buf)
        \/ \E off \in Offset, len \in Lengths : die_in_punch(t[1], t[2], off, len)
        \/ \E v \in 0 .. ULen + 1 : die_in_set_length(t[1], t[2], v)

DNext ==
    \/ Namespace \/ Read \/ Write \/ AppendData \/ Clear \/ CreateAndWrite
    \/ Punch \/ Flush \/ ReadMap \/ SetLength \/ GetLength \/ Die

DSpec == DInit /\ [][DNext]_dvars

-----------------------------------------------------------------------------
(* Properties *)

\* Files hold bytes, only files hold bytes, and none is larger than MaxLen.
DataTypeOK ==
    /\ DOMAIN data = File
    /\ \A f \in File :
         /\ data[f] \in Seq(Byte \cup {Zero}) /\ Len(data[f]) <= MaxLen
         /\ f \notin dfile => data[f] = <<>>

Status(ret) == CASE ret = "OSD_OK"        -> "done"
                 [] ret = "READ_PAST_END" -> "short"
                 [] ret = "DIED"          -> "lost"
                 [] OTHER                 -> "failed"

Abstract == INSTANCE ByteStore WITH
    Object   <- File,
    ExactLen <- ULen,
    Wrap     <- ULong,
    live     <- dfile,
    size     <- [f \in File |-> Len(data[f])],
    byte     <- [f \in File |-> [i \in 0 .. MaxLen - 1 |->
                    IF i < Len(data[f]) THEN data[f][i + 1] ELSE Zero]],
    call     <- [call EXCEPT !.ret = Status(@)]

\* Files, loops over scatter/gather lists, strides, short transfers, the move
\* of a punched tail, narrowed lengths, system calls that fail and deaths in
\* the middle implement an array of bytes with a size per object: a read
\* returns what the writes since the object was created left, never what an
\* earlier object with its id or a longer version of it held (io.c:32-446,
\* osd.c:842-1168, 1384-1388, 2253-2340).
ImplementsByteStore == Abstract!Spec

CleanedUp ==
    /\ UNCHANGED <<obj, dfile, data, attr>>
    /\ coll' \subseteq coll
    /\ \A r \in coll \ coll' : <<r[1], r[3]>> = call'.req.obj

\* While the file system and the database do their part, a CREATE AND WRITE of
\* a requested id that reports a failure, also half way through its write, has
\* left no object, no file, no bytes and no attribute; it may only have removed
\* memberships that an earlier object of that id left behind (osd.c:1384-1388).
FailedCreateAndWriteUndone ==
    [][root = "set" /\ call'.req.op = "CREATE_AND_WRITE"
            /\ call'.req.obj[2] # 0 /\ call'.ret \notin {"OSD_OK", "DIED"}
        => CleanedUp]_dvars

=============================================================================
