----------------------------- MODULE ByteStore ------------------------------
(***************************************************************************)
(* What the data commands of the target promise, without files, buffers or   *)
(* loops: an object is an array of bytes with a size, and every byte at or    *)
(* beyond the size reads as zero.  A command that succeeds has its whole      *)
(* effect on the object it names; one that fails, or that the process does    *)
(* not survive, has an initial part of it, or all; no other object changes.   *)
(***************************************************************************)
EXTENDS Naturals, Sequences

CONSTANTS
    Object,     \* names of objects
    MaxLen,     \* bound: no object grows past this size
    ExactLen,   \* lengths from here on are not set exactly
    Wrap        \* ends of punched ranges from here on are not exact

VARIABLES
    live,   \* the objects that have data
    size,   \* size[o]
    byte,   \* byte[o][i], for every position up to MaxLen
    call    \* the last command: what it asked, how it ended, what it returned

bvars == <<live, size, byte, call>>

Position == 0 .. MaxLen - 1
Blank    == [i \in Position |-> 0]
Idle     == [req |-> [op |-> "NAMESPACE"], ret |-> "done", out |-> <<>>]

At(o, i) == IF i \in Position THEN byte[o][i] ELSE 0

Maximum(S) == CHOOSE n \in S : \A m \in S : m <= n

\* An object of size s and content b after the first n bytes of buf went to the
\* positions at[1], at[2], ...: where positions repeat, the last one counts.
PutBytes(b, at, buf, n) ==
    [i \in Position |->
        LET hits == {k \in 1 .. n : at[k] = i}
        IN  IF hits = {} THEN b[i] ELSE buf[Maximum(hits)]]

PutSize(s, at, n) == Maximum({s} \cup {at[k] + 1 : k \in 1 .. n})

Put(o, at, buf, n) ==
    /\ \A k \in 1 .. n : at[k] \in Position
    /\ byte' = [byte EXCEPT ![o] = PutBytes(@, at, buf, n)]
    /\ size' = [size EXCEPT ![o] = PutSize(@, at, n)]

\* The bytes at those of the positions that lie below the size, in order.
There(o, at) ==
    LET upto[k \in 0 .. Len(at)] ==
          IF k = 0 THEN <<>>
          ELSE IF at[k] < size[o] THEN Append(upto[k - 1], At(o, at[k])) ELSE upto[k - 1]
    IN  upto[Len(at)]

\* The sum of a sequence of lengths.
Total(lens) ==
    LET upto[k \in 0 .. Len(lens)] == IF k = 0 THEN 0 ELSE upto[k - 1] + lens[k]
    IN  upto[Len(lens)]

Untouched == UNCHANGED <<live, size, byte>>

-----------------------------------------------------------------------------
(* One action per command; call' is the request together with its reply.     *)

Done   == call'.ret = "done"
Broken == call'.ret \in {"failed", "lost"}

\* Objects come, empty, and go; those that stay keep their bytes.
Namespace(r) ==
    /\ r.op = "NAMESPACE"
    /\ size' = [o \in Object |-> IF o \in live \cap live' THEN size[o] ELSE 0]
    /\ byte' = [o \in Object |-> IF o \in live \cap live' THEN byte[o] ELSE Blank]

Write(r) ==
    /\ r.op = "WRITE"
    /\ \/ Done /\ r.obj \in live /\ Put(r.obj, r.at, r.buf, Len(r.buf))
       \/ Broken /\ r.obj \in live /\ \E n \in 0 .. Len(r.buf) : Put(r.obj, r.at, r.buf, n)
       \/ Broken /\ UNCHANGED <<size, byte>>
    /\ UNCHANGED live

\* The place of the appended bytes is reported.
AppendBytes(r) ==
    /\ r.op = "APPEND"
    /\ \/ /\ r.obj \in live
          /\ LET at == [k \in 1 .. Len(r.at) |-> size[r.obj] + r.at[k]]
             IN  \/ /\ Done /\ Put(r.obj, at, r.buf, Len(r.buf))
                    /\ call'.out = <<size[r.obj]>>
                 \/ Broken /\ \E n \in 0 .. Len(r.buf) : Put(r.obj, at, r.buf, n)
       \/ Broken /\ UNCHANGED <<size, byte>>
    /\ UNCHANGED live

\* Success makes a new object with everything that was to be written.  If the
\* command breaks off, an object may be there that is new: empty, or, if it is
\* the one that was asked for, with the first bytes that were to be written.
CreateAndWrite(r) ==
    /\ r.op = "CREATE_AND_WRITE"
    /\ \/ /\ Done /\ r.obj \notin live
          /\ live' = live \cup {r.obj}
          /\ Put(r.obj, r.at, r.buf, Len(r.buf))
       \/ /\ Broken /\ live \subseteq live'
          /\ \/ UNCHANGED <<size, byte>>
             \/ r.obj \in live' \ live /\ \E n \in 0 .. Len(r.buf) : Put(r.obj, r.at, r.buf, n)

\* The bytes behind the r.len removed ones move down to r.off.
Removed(r) ==
    /\ byte' = [byte EXCEPT ![r.obj] =
          [i \in Position |-> IF i < r.off THEN @[i] ELSE At(r.obj, i + r.len)]]
    /\ size' = [size EXCEPT ![r.obj] = IF r.off + r.len > @ THEN r.off ELSE @ - r.len]

\* The first n of those bytes have moved, and the size is what it was.
Moved(r, n) ==
    /\ byte' = [byte EXCEPT ![r.obj] =
          [i \in Position |-> IF i \in r.off .. r.off + n - 1 THEN At(r.obj, i + r.len) ELSE @[i]]]
    /\ UNCHANGED size

\* Of a range whose end wraps only the start is respected: the bytes before
\* r.off, and the other objects.
BeforeKept(r) ==
    /\ \A o \in Object : o # r.obj => size'[o] = size[o] /\ byte'[o] = byte[o]
    /\ \A i \in Position : i < r.off => byte'[r.obj][i] = byte[r.obj][i]
    /\ size'[r.obj] >= r.off

Punch(r) ==
    /\ r.op = "PUNCH"
    /\ \/ /\ r.obj \in live /\ r.off <= size[r.obj]
          /\ IF r.off + r.len < Wrap
             THEN \/ (Done \/ Broken) /\ Removed(r)
                  \/ Broken /\ \E n \in 0 .. MaxLen : r.off + r.len + n <= size[r.obj] /\ Moved(r, n)
             ELSE (Done \/ Broken) /\ BeforeKept(r)
       \/ Broken /\ UNCHANGED <<size, byte>>
    /\ UNCHANGED live

\* Shrinking forgets the bytes beyond the new size.
SetLength(r) ==
    /\ r.op = "SET_LENGTH"
    /\ \/ /\ Done \/ call'.ret = "lost"
          /\ r.obj \in live
          /\ r.len < ExactLen => size'[r.obj] = r.len
          /\ size' = [size EXCEPT ![r.obj] = size'[r.obj]]
          /\ byte' = [byte EXCEPT ![r.obj] =
                [i \in Position |-> IF i < size'[r.obj] THEN @[i] ELSE 0]]
       \/ Broken /\ UNCHANGED <<size, byte>>
    /\ UNCHANGED live

GetLength(r) ==
    /\ r.op = "GET_LENGTH"
    /\ Done => r.obj \in live /\ call'.out = <<size[r.obj]>>
    /\ Untouched

\* All bytes asked for, in order.  A read past the end, or of fewer bytes than
\* the length says, reports that, and returns either zeros in the place of the
\* missing bytes or only the others.
Read(r) ==
    /\ r.op = "READ"
    /\ LET all == [k \in 1 .. Len(r.at) |-> At(r.obj, r.at[k])]
       IN  \/ /\ Done /\ r.obj \in live /\ call'.out = all
              /\ r.len = Len(r.at)
              /\ \A k \in 1 .. Len(r.at) : r.at[k] < size[r.obj]
           \/ /\ call'.ret = "short" /\ r.obj \in live
              /\ r.len > Len(r.at) \/ \E k \in 1 .. Len(r.at) : r.at[k] >= size[r.obj]
              /\ call'.out = all \/ call'.out = There(r.obj, r.at)
           \/ Broken
    /\ Untouched

\* A map of the bytes from r.off on: non-empty stretches that add up to them.
ReadMap(r) ==
    /\ r.op = "READ_MAP"
    /\ Done /\ r.alloc # 0 =>
         /\ r.obj \in live /\ r.off <= size[r.obj]
         /\ \A k \in 1 .. Len(call'.out) : call'.out[k] > 0
         /\ Total(call'.out) = size[r.obj] - r.off
    /\ Untouched

Flush(r) == r.op = "FLUSH" /\ Untouched

-----------------------------------------------------------------------------
Init ==
    /\ live = {}
    /\ size = [o \in Object |-> 0]
    /\ byte = [o \in Object |-> Blank]
    /\ call = Idle

Serve(r) ==
    \/ Namespace(r) \/ Write(r) \/ AppendBytes(r) \/ CreateAndWrite(r)
    \/ Punch(r) \/ SetLength(r) \/ GetLength(r) \/ Read(r) \/ ReadMap(r) \/ Flush(r)

Next == \E r \in {call'.req} : Serve(r)

Spec == Init /\ [][Next]_bvars
=============================================================================
