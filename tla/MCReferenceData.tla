--------------------------- MODULE MCReferenceData ---------------------------
(* A small instance of ReferenceData for TLC. *)
EXTENDS ReferenceData, TLC

CONSTANTS finance, FINANCE, works, c1, c2, fin, wks, clerk, r1, r2, r3

MCFolded == [n \in Names |-> IF n = FINANCE THEN finance ELSE n]

Record(table, name, detail) ==
    [table |-> table, name |-> name, detail |-> detail, status |-> "ACTIVE"]

\* Two departments, of which one has a code, and a designation.
MCSeedRow ==
    [s \in Seeds |-> CASE s = fin -> Record("departments", finance, c1)
                       [] s = wks -> Record("departments", works, None)
                       [] s = clerk -> Record("designations", finance, None)]

Create(table, name, detail) ==
    [op |-> "create", table |-> table, name |-> name, detail |-> detail]
Set(table, target, name, detail) ==
    [op |-> "update", table |-> table, target |-> target, name |-> name, detail |-> detail]
SetStatus(op, table, target) == [op |-> op, table |-> table, target |-> target]

\* Departments: a new one with another's code, names swapped, a code given up
\* with a name.
DepartmentPayloads ==
    {Create("departments", FINANCE, c1), Set("departments", fin, works, None),
     Set("departments", wks, finance, None), Set("departments", fin, FINANCE, c2)}

\* Designations whose names differ by case, and a renaming.
DesignationPayloads ==
    {Create("designations", FINANCE, None), Create("designations", works, None),
     Set("designations", clerk, works, None)}

\* Categories, whose descriptions may be the same; the first is changed by
\* whoever sees it.
CategoryPayloads ==
    {Create("categories", works, c1), Create("categories", finance, c1),
     Set("categories", r1, finance, c2)}

\* A department, and a row there was not at the start.
StatusPayloads ==
    {SetStatus(op, "departments", fin) : op \in StatusOps}
    \cup {SetStatus("deactivate", "categories", r1)}

MCPayloads ==
    DepartmentPayloads \cup DesignationPayloads \cup CategoryPayloads \cup StatusPayloads
=============================================================================
