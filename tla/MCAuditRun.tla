----------------------------- MODULE MCAuditRun -----------------------------
(* Four sites in three files, with manifests that come and go.            *)
EXTENDS AuditRun

Doc == <<"docs", "/", "a">>
Other == <<"docs", "2", "/", "a">>
Top == <<"src">>

MCSites == 1 .. 4
MCPathOf == <<Doc, Doc, Other, Top>>
MCModuleOf == <<"rust", "python", "python", "rust lint">>
MCHintOf == [s \in MCSites |-> "hint"]
MCCapOf == [m \in Modules |-> IF m = "rust" THEN 4 ELSE 1]

BuiltIn == <<Entry(<<"docs", "/">>, "standard")>>

\* Keys in the order of the map.
AllKeys == <<Entry(<<".", "/", "docs">>, "dotted"), Entry(<<"/", "docs">>, "rooted"),
             Entry(<<"docs">>, "bare"), Entry(<<"docs", "/">>, "directory"),
             Entry(<<"docs", "/", "a">>, "file"), Entry(<<"docs", "2", "/">>, "second"),
             Entry(<<"src", "/">>, "top")>>
Only(keys) == SelectSeq(AllKeys, LAMBDA entry : entry.owner \in keys)
Whole(keys) == [state |-> "whole", entries |-> Only(keys)]
MCOwnerFiles == {Whole(keys) : keys \in {{"dotted", "rooted"}, {"bare", "file"}, {"directory", "file"},
                                         {"second", "top"}}}
    \cup {[state |-> "torn", entries |-> <<>>],
          [state |-> "repeated", entries |-> Only({"directory"})]}
Zones(zones) == [state |-> "whole", zones |-> zones]
MCZoneFiles == {[state |-> "torn", zones |-> {}],
    Zones({Zone(<<"docs", "/">>, "generated_output", FALSE), Zone(Top, "reviewed_manual", FALSE)}),
    Zones({Zone(<<"docs", "2">>, "lockfile", FALSE), Zone(Top, "generated_output", TRUE)})}
=============================================================================
