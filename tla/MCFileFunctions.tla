-------------------------- MODULE MCFileFunctions --------------------------
(***************************************************************************)
(* A small instance of FileFunctions: file systems with a subdirectory, a  *)
(* link back to the top, a directory that cannot be read and a file whose  *)
(* owner has no name; settings of tsi.acl as in the manual and one more.   *)
(***************************************************************************)
EXTENDS FileFunctions

MCFileSystems ==
    {[in |-> ("top" :> {"a", "sub"}) @@ ("sub" :> {"b", "c"}),
      links |-> {}, readable |-> {"top", "sub"}, named |-> {"top", "sub", "a", "b"}],
     [in |-> ("top" :> {"a", "sub"}) @@ ("sub" :> {"b", "link"}),
      links |-> {"link"}, readable |-> {"top", "sub"}, named |-> {"top", "sub", "a", "b"}],
     [in |-> ("top" :> {"a", "sub", "lost"}) @@ ("sub" :> {"b"}) @@ ("lost" :> {"c"}),
      links |-> {}, readable |-> {"top", "sub"}, named |-> {"top", "sub", "lost", "a", "b", "c"}]}

Entry(path, support) == [path |-> path, support |-> support]
Home == <<"/", "home">>
Apps == <<"/", "mnt", "/", "apps">>
External == Apps \o <<"/", "external">>

MCAclSettings ==
    {<<>>,
     <<Entry(<<"/">>, "NONE"), Entry(Home, "POSIX"), Entry(Apps, "POSIX"),
       Entry(External, "NONE")>>,
     <<Entry(External, "NFS"), Entry(Apps, "POSIX")>>}

AclRequest(operation, path, command, spec) ==
    [operation |-> operation, path |-> path, command |-> command, spec |-> spec]

\* every path with the operations that need nothing else, and every form of
\* SETFACL for a path of each kind of support
MCAclRequests ==
    {AclRequest(operation, path, Missing, NoSpec) :
        operation \in {"CHECK_SUPPORT", "GETFACL", "other"},
        path \in {Home, Home \o <<"2">>, Home \o <<"/", "alice">>, Apps \o <<"/", "bin">>,
                  External, Home \o <<"/", "..", "/", "mnt">>, <<"/", "usr">>}}
    \cup {AclRequest("SETFACL", path, command, spec) :
             path \in {Apps, External \o <<"/", "x">>},
             command \in AclCommands \cup {Missing}, spec \in Specs \cup {NoSpec}}
=============================================================================
