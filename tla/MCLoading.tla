------------------------------ MODULE MCLoading ------------------------------
(***************************************************************************)
(* A root template with two includes, one that sets a variable and one     *)
(* that sets none; the first includes a third template.  Stages of every   *)
(* kind, and the ways to configure them wrongly.                           *)
(***************************************************************************)
EXTENDS Loading

Plain(n, plugin, config) ==
    [name |-> n, plugin |-> plugin, config |-> config, path |-> "", file |-> "",
     section |-> "none", own |-> {}, steps |-> <<>>]
Incl(n, f, section, own) ==
    [Plain(n, "include", "map") EXCEPT !.file = f, !.section = section, !.own = own]

\* The stages of templates/tests/include_test.yml, one of them deeper and one
\* without variables, among other plugins.
Nested ==
    [root |-> {Incl("one", "first", "map", {"x", "y"}), Incl("two", "second", "none", {}),
               Plain("out", "output", "none"), [Plain("own", "katana", "map") EXCEPT !.path = "bin"]},
     first |-> {Incl("three", "second", "map", {"y"}), Plain("files", "fileinput", "other")},
     second |-> {Plain("get", "rawinput", "map"), Plain("cut", "split", "map")}]

\* Templates that do not load: each wrong in its own way.
Wrong ==
    [root |-> {Incl("one", "first", "map", {"x"}),
               [Plain("steps", "pipe", "other") EXCEPT !.steps = <<"distinct", "split", "shell">>],
               Plain("get", "rawinput", "none")},
     first |-> {Incl("bad", "second", "invalid", {}), Incl("gone", "nowhere", "none", {}),
                Incl("none", "", "none", {}), Incl("broken", "torn", "none", {}),
                Plain("cut", "split", "none"), Plain("fine", "forward", "none")}]

TemplatesMC == {Nested, Wrong}
NestedOnly == {Nested}
=============================================================================
