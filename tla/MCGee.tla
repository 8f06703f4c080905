------------------------------- MODULE MCGee -------------------------------
(***************************************************************************)
(* An instance of Gee.                                                     *)
(***************************************************************************)
EXTENDS WebDays

\* v is a prefix of groups, and vx begins with it; :x and *f are wildcards.
MCPart == {"v", "vx", "b", ":x", "*f"}
MCParam == {":x"}
MCStar == {"*f"}
MCPattern == {<< >>, <<"v", "b">>, <<"v", ":x">>, <<"v", "*f">>, <<":x", "b">>, <<"v">>}
MCPath == {<< >>, <<"v">>, <<"v", "b">>, <<"v", "v">>, <<"vx", "b">>, <<"v", "b", "v">>}
MCPrefix == {<<"v">>}
MCStarts == {<<p, p>> : p \in MCPart} \cup {<<"v", "vx">>}
=============================================================================
