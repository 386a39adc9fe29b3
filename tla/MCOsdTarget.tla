---------------------------- MODULE MCOsdTarget -----------------------------
(* The command layer on small instances. *)
EXTENDS OsdTarget

CONSTANT a1

Req(fmt, set, get) == [fmt |-> fmt, set |-> set, get |-> get]

\* Every format; nothing to set, something, and a list that fails after its
\* first element; nothing to get, something, everything, and lists that fail at
\* once or after their first element.
AllRequests ==
    {Req("GETLIST_SETLIST", <<>>, <<>>),
     Req("GETLIST_SETLIST", <<a1>>, <<"GETALLATTR_PG", "UNGETTABLE">>),
     Req("GETLIST_SETLIST", <<a1, "READ_ONLY">>, <<>>),
     Req("GETLIST_SETLIST", <<a1>>, MALFORMED),
     Req("GETPAGE_SETVALUE", <<a1>>, <<"CUR_CMD_ATTR_PG">>),
     Req("GETPAGE_SETVALUE", <<>>, <<"USER_TMSTMP_PG">>),
     Req("GETFIELD_SETVALUE", <<a1>>, <<>>),
     Req("GETFIELD_SETVALUE", MALFORMED, <<>>)}

\* A list command that goes through every stage, and one that fails in the
\* middle of its list; with faults, every call may fail.
ListRequests ==
    {Req("GETLIST_SETLIST", <<a1>>, <<"GETALLATTR_PG">>),
     Req("GETLIST_SETLIST", <<a1, "READ_ONLY">>, <<>>)}

\* The commands read the current command attributes page only while they run,
\* and never the sense of the previous one.
TargetView == <<obj, attr, coll, dfile, dbfile, root, ic, cmd, txn,
                IF cmd.stage = "idle" THEN NoCcap ELSE ccap>>
=============================================================================
