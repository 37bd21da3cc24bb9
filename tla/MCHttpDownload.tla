---------------------------- MODULE MCHttpDownload ----------------------------
(***************************************************************************)
(* Servers for HttpDownload: two hosts with two paths each.  In the first  *)
(* instance they redirect to each other in every way that needs no         *)
(* network-path reference, in the second one with all that the code and    *)
(* the standard for urls read differently.                                 *)
(***************************************************************************)
EXTENDS HttpDownload

Path(p) == [form |-> "/path", path |-> p]
BarePath(p) == [form |-> "path", path |-> p]
NetPath(h, p) == [form |-> "//host/path", host |-> h, path |-> p]
Url(h, p) == [form |-> "http://host/path", host |-> h, path |-> p]

Marked == [ok |-> TRUE, length |-> 4, framing |-> "length"]
Error == [ok |-> FALSE, length |-> 0, framing |-> "length"]
MCBodies ==
    [ok : {TRUE}, length : {0, 4}, framing : {"length", "chunked", "close"}]
        \cup {Error}

\* The resources have bodies of one kind, or are all errors; nothing is behind
\* a path that is the text of a network-path reference.
Servers(location, kind) ==
    [u \in Places |->
        IF u \in Urls
        THEN [location |-> location[u], ok |-> kind.ok,
              length |-> kind.length, framing |-> kind.framing]
        ELSE [location |-> None, ok |-> Error.ok,
              length |-> Error.length, framing |-> Error.framing]]

\* Every redirect with one kind of body, and every kind of body with a few.
AnyRedirect ==
    {None, BarePath("2")} \cup { Path(p) : p \in Paths }
        \cup { Url(h, p) : h \in Hosts, p \in Paths }
FewRedirects == {None, Path("2"), Url("b", "1")}

MCRemotes ==
    { Servers(location, Marked) : location \in [Urls -> AnyRedirect] }
        \cup { Servers(location, kind) :
                 location \in [Urls -> FewRedirects], kind \in MCBodies }

MCRedirects ==
    { Servers(location, Marked) :
        location \in [Urls -> {None, BarePath("2"), NetPath("b", "1"), Url("b", "1")}] }
=============================================================================
