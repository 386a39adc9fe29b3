----------------------------- MODULE MCOsdData ------------------------------
(* Data files on small instances. *)
EXTENDS OsdData

Pair(off, len) == [off |-> off, len |-> len]

\* Pieces in order, out of order and overlapping; one that starts beyond the
\* end of a short file; an empty one.
SmallSgls == {<<Pair(0, 1), Pair(2, 1)>>, <<Pair(2, 1), Pair(0, 1)>>, <<Pair(1, 1), Pair(1, 1)>>,
              <<Pair(0, 0), Pair(1, 2)>>}

\* Replies, the current command attributes page and the last call are written
\* and never read by the commands.
DataView == <<obj, attr, coll, dfile, dbfile, root, ic, data>>
=============================================================================
