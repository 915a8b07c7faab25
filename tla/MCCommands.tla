----------------------------- MODULE MCCommands -----------------------------
(* Commands for TLC: two pages, and the commands and menus of the source   *)
(* whose clauses differ.                                                   *)
EXTENDS Commands

CONSTANTS p1, p2

Press(k, m) == [key |-> k, mods |-> m]
MCDefaults ==
    <<Bind("file.copy", Press("C", {"mod"})), Bind("file.delete", Press("Delete", {})),
      Bind("file.delete", Press("Backspace", {}))>>
MCClearing == {Press("Delete", {}), Press("Backspace", {})}
MCEvents == {Press("C", {"ctrl"}), Press("F5", {})} \cup MCClearing

Quota(m, a, b) == [menu |-> m, keys |-> (p1 :> a) @@ (p2 :> b)]
MCQuotas ==
    {Quota(0, 2, 0), Quota(0, 0, 2), Quota(0, 1, 1), Quota(4, 0, 0), Quota(1, 1, 0), Quota(1, 0, 1)}
PageSymmetry == Permutations({p1, p2})

MCAreas == [global |-> Str(1), terminal |-> Str(2), host |-> Str(3), file |-> Str(4)]
InArea(a) == Compares("area", "==", MCAreas[a])
Holds(k) == Compares(k, "==", Bool(TRUE))
Count(cmp, n) == Compares("selectedCount", cmp, <<"number", n>>)
Command(when, enablement) == [when |-> when, enablement |-> enablement]

MCMenuCommands ==
    ("terminal.newTab" :> Command(Has("tabExists"), Always))
    @@ ("terminal.copySelected" :> Command(InArea("terminal"), Holds("hasSelection")))
    @@ ("terminal.pasteManual" :> Command(And(InArea("terminal"), Has("isPaired")), Holds("isOnline")))
    @@ ("host.connect" :> Command(InArea("host"), Count("==", 1)))
    @@ ("host.delete" :> Command(InArea("host"), Count(">", 0)))
    @@ ("workbench.openSettings" :> Command(Always, Always))
    @@ ("workbench.openAbout" :> Command(Always, Always))
    @@ ("terminal.disconnect" :> Command(InArea("terminal"), Has("tabExists")))
    @@ ("file.copy" :> Command(InArea("file"), Always))
    @@ ("file.delete" :> Command(InArea("file"), Has("tabExists")))

Entry(m, is, id, group, order, seq) ==
    [menu |-> m, is |-> is, id |-> id, group |-> group, order |-> order, seq |-> seq, when |-> Always]
MCSubmenus == {"terminal.copy", "terminal.paste"}
MCEntries ==
    {Entry("terminal.context", "submenu", "terminal.copy", 0, 20, 1),
     Entry("terminal.context", "submenu", "terminal.paste", 0, 30, 2),
     Entry("terminal.context", "command", "terminal.newTab", 0, 10, 3),
     Entry("terminal.copy", "command", "terminal.copySelected", 0, 10, 4),
     Entry("terminal.paste", "command", "terminal.pasteManual", 0, 20, 5),
     Entry("host.context", "command", "host.delete", 2, 10, 6),
     Entry("host.context", "command", "host.connect", 1, 10, 7),
     Entry("workbench.activity", "command", "workbench.openAbout", 2, 10, 8),
     Entry("workbench.activity", "separator", "rule", 2, 0, 9),
     Entry("workbench.activity", "command", "workbench.openSettings", 1, 10, 10)}

MCAtoms == {Has("panelOpen"), Compares("isPaired", "!=", Bool(TRUE))}
MCClauses ==
    MCAtoms \cup UNION {
        {Not(a), Not(Not(a)), And(a, b), Or(a, b), Not(Or(a, b)), And(Not(a), b), Or(a, And(a, b)),
         Or(And(a, b), a), And(a, Or(a, b)), And(Or(a, b), b), Or(And(a, b), Not(Or(b, a)))} :
        <<a, b>> \in {p \in MCAtoms \X MCAtoms : p[1] # p[2]}}
=============================================================================
