----------------------------- MODULE MCOsdStore -----------------------------
(* The store on small instances.  No action reads ccap or sense, so states   *)
(* that differ only in them have the same successors: the view leaves them    *)
(* out.                                                                       *)
EXTENDS OsdStore

StoreView == <<obj, attr, coll, dfile, dbfile, root, ic>>
=============================================================================
