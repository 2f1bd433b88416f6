------------------------------ MODULE OrgSync -------------------------------
(***************************************************************************)
(* The structure read from Bitrix24, the departments that are linked to    *)
(* workspaces, and the memberships that follow from both: the handlers of  *)
(* service/bitrix.go and service/workspace.go.                             *)
(***************************************************************************)
EXTENDS Handlers

CONSTANTS
    Depts, People,   \* departments and users of Bitrix24
    Users,           \* accounts
    Account,         \* the account with the address of a Bitrix user, or Nobody
    Sought,          \* whom the search of the page finds
    Workspaces,
    Structures       \* what Bitrix24 may answer (external)

ASSUME AccountIsOne == Account \in [People -> Users \cup {Nobody}] /\ Nobody \notin Users \cup Depts
ASSUME DeptsAreFinite == IsFiniteSet(Depts) /\ IsFiniteSet(Users)

\* The departments with their parents and heads; who is in which of them, and active.
\* A parent may be a department that was not listed.
IsStructure(s) == /\ s = [parent |-> s.parent, head |-> s.head, in |-> s.in, active |-> s.active]
                  /\ DOMAIN s.parent \subseteq Depts /\ DOMAIN s.head = DOMAIN s.parent
                  /\ \A d \in DOMAIN s.parent : /\ s.parent[d] \in Depts \cup {Nobody}
                                                /\ s.head[d] \in People \cup {Nobody}
                  /\ DOMAIN s.in \subseteq People /\ s.active \subseteq DOMAIN s.in
                  /\ \A p \in DOMAIN s.in : s.in[p] \subseteq Depts
ASSUME StructuresAreSuch == \A s \in Structures : IsStructure(s)
NoStructure == [parent |-> <<>>, head |-> <<>>, in |-> <<>>, active |-> {}]

Link   == [ws : Workspaces, include : BOOLEAN]
Member == [role : {"employee", "department_manager"}, source : {"local", "bitrix"}]

\* hook: a webhook is stored; locked: the mutex of Sync; run: how the last one ended.
OrgTables == {"structure", "hook", "locked", "run", "spaces", "link", "member"}
IsOrg(o) ==
    /\ DOMAIN o = OrgTables
    /\ IsStructure(o.structure) /\ o.hook \in BOOLEAN /\ o.locked \in BOOLEAN
    /\ o.run \in {"none", "SUCCESS", "PARTIAL", "FAILED"} /\ o.spaces \subseteq Workspaces
    /\ DOMAIN o.link \subseteq Depts /\ Range(o.link) \subseteq Link
    /\ \A d \in DOMAIN o.link : o.link[d].ws \in o.spaces
    /\ DOMAIN o.member \subseteq o.spaces \X Users /\ Range(o.member) \subseteq Member

Knows(s, d) == d \in DOMAIN s.parent

\* f with a new value for x, and f without x.
With(f, x, v) == [y \in DOMAIN f \cup {x} |-> IF y = x THEN v ELSE f[y]]
Without(f, x) == [y \in DOMAIN f \ {x} |-> f[y]]

-----------------------------------------------------------------------------
(* Which workspace covers a department, and who belongs to it.             *)

ParentOf(s, d) == IF Knows(s, d) THEN s.parent[d] ELSE Nobody

\* The first of marked on the way up from d, which ends where a department comes again.
\* x: the department that is looked at, and those that were.
WalkOn(walk, s, marked, x) ==
    IF x[1] = Nobody \/ x[1] \in x[2] THEN Nobody
    ELSE IF x[1] \in marked THEN x[1]
    ELSE walk[<<ParentOf(s, x[1]), x[2] \cup {x[1]}>>]
Walk(s, marked) ==
    LET walk[x \in (Depts \cup {Nobody}) \X SUBSET Depts] == WalkOn(walk, s, marked, x) IN walk
FirstAbove(s, d, marked) == Walk(s, marked)[<<ParentOf(s, d), {}>>]

\* The name that is shown is that of the first ancestor with a link, whether or not it
\* passes its workspace on.  Mutant: so is the workspace.
Linked(link) == DOMAIN link
Including(link) == {a \in DOMAIN link : link[a].include}

\* A department with a link of its own, or below one that passes its workspace on.
DepartmentCoverage(s, link) ==
    LET source == [d \in DOMAIN s.parent |->
                      IF d \in DOMAIN link THEN d ELSE FirstAbove(s, d, Including(link))]
    IN  [d \in {e \in DOMAIN source : source[e] # Nobody} |-> link[source[d]].ws]

AncestorLinkName(s, link, d) == FirstAbove(s, d, Linked(link))

DeptLine == [dept : Depts, ws : Workspaces \cup {Nobody}, inherited : BOOLEAN,
             from : Depts \cup {Nobody}, include : BOOLEAN]
EnrichDepartments(s, link) ==
    LET coverage == DepartmentCoverage(s, link)
        Line(d) == CASE d \in DOMAIN link ->
                          [dept |-> d, ws |-> link[d].ws, inherited |-> FALSE, from |-> Nobody,
                           include |-> link[d].include]
                     [] d \in DOMAIN coverage \ DOMAIN link ->
                          [dept |-> d, ws |-> coverage[d], inherited |-> TRUE,
                           from |-> AncestorLinkName(s, link, d), include |-> FALSE]
                     [] d \notin DOMAIN coverage ->
                          [dept |-> d, ws |-> Nobody, inherited |-> FALSE, from |-> Nobody,
                           include |-> FALSE]
    IN  {Line(d) : d \in DOMAIN s.parent}

\* By workspace and account the role; who heads one of the departments is a manager.
DesiredBitrixMemberships(s, coverage) ==
    LET places == {x \in s.active \X DOMAIN coverage : Account[x[1]] # Nobody /\ x[2] \in s.in[x[1]]}
        Key(x) == <<coverage[x[2]], Account[x[1]]>>
    IN  [key \in {Key(x) : x \in places} |->
            IF \E x \in places : Key(x) = key /\ s.head[x[2]] = x[1]
            THEN "department_manager" ELSE "employee"]

\* By definition: the n-th ancestor of a department, and the workspace that it belongs to,
\* which is the one it is linked to, else that of the nearest ancestor that passes its own on.
Up(s, d) == LET up[n \in 0..Cardinality(Depts)] ==
                  IF n = 0 THEN d ELSE IF up[n - 1] = Nobody THEN Nobody ELSE ParentOf(s, up[n - 1])
            IN  up
PassesOn(link, a) == a \in DOMAIN link /\ link[a].include
IsNearest(s, link, d, w) ==
    \E n \in 1..Cardinality(Depts) :
       /\ PassesOn(link, Up(s, d)[n]) /\ link[Up(s, d)[n]].ws = w
       /\ \A m \in 1..(n - 1) : ~PassesOn(link, Up(s, d)[m])
BelongsTo(s, link, d, w) == IF d \in DOMAIN link THEN link[d].ws = w ELSE IsNearest(s, link, d, w)

-----------------------------------------------------------------------------
(* The webhook, and the synchronization.                                   *)

StatusOf(o) == [Ok EXCEPT !.flag = o.hook]
Status(o, c) == Answers(o, c, StatusOf(o))

\* An address that is not acceptable is refused.
SaveWebhook(o, c) ==
    LET e == [o EXCEPT !.hook = TRUE] IN Answers(e, c, StatusOf(e)) \cup Refuses(o, c)
Disconnect(o, c) == LET e == [o EXCEPT !.hook = FALSE] IN Answers(e, c, StatusOf(e))
Test(o, c) == Refuses(o, c) \cup (IF o.hook THEN Answers(o, c, Ok) ELSE {})

SyncStart(o, c) == IF o.locked \/ ~o.hook THEN Refuses(o, c)
                   ELSE Goes([o EXCEPT !.locked = TRUE], c, "asked")

\* Mutant: with the heads that were read.
DepartmentsWithHeads(s) ==
    LET named == [d \in UNION Range(s.in) |-> Nobody] IN [s EXCEPT !.parent = named]
\* Without the departments there are those that the users name.
DepartmentsFromUsers(s) ==
    LET named == [d \in UNION Range(s.in) |-> Nobody] IN [s EXCEPT !.parent = named, !.head = named]

\* ReplaceSnapshot is one transaction; without users, or if it fails, nothing changes.
SyncAnswered(o, c) ==
    LET Replaced(s, run) == [o EXCEPT !.structure = s, !.run = run, !.locked = FALSE]
    IN  (UNION {Goes(Replaced(s, "SUCCESS"), c, "departments")
                \cup Goes(Replaced(DepartmentsFromUsers(s), "PARTIAL"), c, "departments") : s \in Structures})
        \cup Refuses([o EXCEPT !.run = "FAILED", !.locked = FALSE], c)

-----------------------------------------------------------------------------
(* ApplyMemberships: four lists, read one after another, and then one row  *)
(* after another.                                                          *)

ReadDepartments(o, c) ==
    Goes(o, [c EXCEPT !.calm = TRUE, !.seen = [NoStructure EXCEPT !.parent = o.structure.parent,
                                                                  !.head = o.structure.head]], "links")
ReadLinks(o, c) == Goes(o, [c EXCEPT !.links = o.link], "people")
\* IDsByEmails, a statement after it, reads Account, which is constant here.
ReadPeople(o, c) ==
    LET s == [c.seen EXCEPT !.in = o.structure.in, !.active = o.structure.active]
    IN  Goes(o, [c EXCEPT !.want = DesiredBitrixMemberships(s, DepartmentCoverage(s, c.links)),
                          !.seen = NoStructure, !.links = <<>>], "members")
ReadMembers(o, c) ==
    LET have == {key \in DOMAIN o.member : o.member[key].source = "bitrix"}
        same == {key \in have \cap DOMAIN c.want : o.member[key].role = c.want[key]}
    IN  Goes(o, [c EXCEPT !.want = [key \in DOMAIN c.want \ same |-> c.want[key]],
                          !.drop = have \ DOMAIN c.want], "rows")

\* Mutant: without the condition on the source.
UpsertWhatever(member, key, role) == With(member, key, [role |-> role, source |-> "bitrix"])
UpsertBitrixMember(member, key, role) ==
    IF key \in DOMAIN member /\ member[key].source = "local" THEN member
    ELSE With(member, key, [role |-> role, source |-> "bitrix"])

IsLocal(o, key) == key \in DOMAIN o.member /\ o.member[key].source = "local"

\* A local member is left alone if GetMember finds it; found: whether it could be read.
\* Mutant: a row that is there already is taken to be as it should.
ApplyOnlyNew(o, c) ==
    {[db |-> IF key \in DOMAIN o.member THEN o
             ELSE [o EXCEPT !.member = UpsertBitrixMember(@, key, c.want[key])],
      call |-> [c EXCEPT !.want = Without(@, key)]] : key \in DOMAIN c.want}
ApplyWanted(o, c) ==
    {[db |-> IF found /\ IsLocal(o, key) THEN o
             ELSE [o EXCEPT !.member = UpsertBitrixMember(@, key, c.want[key])],
      call |-> [c EXCEPT !.want = Without(@, key)]] : key \in DOMAIN c.want, found \in BOOLEAN}
DeleteUnwanted(o, c) ==
    {[db |-> IF key \notin DOMAIN o.member \/ IsLocal(o, key) THEN o
             ELSE [o EXCEPT !.member = Without(@, key)],
      call |-> [c EXCEPT !.drop = @ \ {key}]] : key \in c.drop}
ApplyRows(o, c) ==
    CASE DOMAIN c.want # {} -> ApplyWanted(o, c)
      [] DOMAIN c.want = {} /\ c.drop # {} -> DeleteUnwanted(o, c)
      [] DOMAIN c.want = {} /\ c.drop = {} -> Answers(o, c, [Ok EXCEPT !.flag = TRUE])

Reading == {"departments", "links", "people", "members", "rows"}
ApplyMemberships(o, c) ==
    CASE c.at \in {"sent", "departments"} -> ReadDepartments(o, c)
      [] c.at = "links"   -> ReadLinks(o, c)
      [] c.at = "people"  -> ReadPeople(o, c)
      [] c.at = "members" -> ReadMembers(o, c)
      [] c.at = "rows"    -> ApplyRows(o, c)

Sync(o, c) == CASE c.at = "sent"  -> SyncStart(o, c)
                [] c.at = "asked" -> SyncAnswered(o, c)
                [] c.at \in Reading -> ApplyMemberships(o, c)

-----------------------------------------------------------------------------
(* Workspaces and their departments.                                       *)

\* The upsert takes the department from any other workspace.
PutLink(o, c) == Answers([o EXCEPT !.link = With(@, c.arg, [ws |-> c.ws, include |-> c.flag])], c, Ok)

\* The new workspace and its owner are one transaction; the link is a statement of its own.
Unbuilt(o) == Workspaces \ o.spaces
CreateFromDepartment(o, c) ==
    CASE c.at = "sent" ->
           IF Knows(o.structure, c.arg) /\ c.arg \notin DOMAIN o.link THEN Goes(o, c, "checked")
           ELSE Refuses(o, c)
      [] c.at = "checked" ->
           {[db |-> [o EXCEPT !.spaces = @ \cup {w},
                              !.member = With(@, <<w, c.user>>, [role |-> "employee", source |-> "local"])],
             call |-> [c EXCEPT !.at = "linking", !.ws = w]]
            : w \in {v \in Unbuilt(o) : v = CHOOSE u \in Unbuilt(o) : TRUE}}
      [] c.at = "linking" -> PutLink(o, c)

LinkDepartment(o, c) ==
    CASE c.at = "sent" ->
           IF c.ws \in o.spaces /\ Knows(o.structure, c.arg) THEN Goes(o, c, "linking")
           ELSE Refuses(o, c)
      [] c.at = "linking" -> PutLink(o, c)

UnlinkDepartment(o, c) ==
    IF c.arg \in DOMAIN o.link /\ o.link[c.arg].ws = c.ws
    THEN Answers([o EXCEPT !.link = Without(@, c.arg)], c, Ok)
    ELSE Refuses(o, c)

SpaceLine == [ws : Workspaces, depts : SUBSET Depts, count : 0..Cardinality(Users)]
\* The workspaces with the numbers of their members, and then their links.
Counted(o) == {[ws |-> w, depts |-> {}, count |-> Cardinality({key \in DOMAIN o.member : key[1] = w})]
               : w \in o.spaces}
WithLinks(o, lines) == {[line EXCEPT !.depts = {d \in DOMAIN o.link : o.link[d].ws = line.ws}] : line \in lines}
ListAdmin(o, c) ==
    CASE c.at = "sent"   -> Goes(o, [c EXCEPT !.reply = Rows(Counted(o))], "listed")
      [] c.at = "listed" -> Answers(o, c, Rows(WithLinks(o, c.reply.rows)))

\* The two lists of the page of the administrator; q: a search.
Snapshot(o, c) ==
    LET found == IF c.q THEN Sought ELSE People
    IN  Answers(o, c, [Rows(EnrichDepartments(o.structure, o.link)) EXCEPT
                           !.people = found \cap DOMAIN o.structure.in])

OrgFns == {"fetchBitrixStatus", "saveBitrixWebhook", "disconnectBitrix", "testBitrix", "syncBitrix",
           "fetchBitrixSnapshot", "fetchAdminWorkspaces", "createWorkspaceFromDepartment",
           "applyWorkspaceMemberships", "unlinkWorkspaceDepartment", "linkWorkspaceDepartment"}

OrgOutcomes(o, c) ==
    CASE c.fn = "fetchBitrixStatus"    -> Status(o, c)
      [] c.fn = "saveBitrixWebhook"    -> SaveWebhook(o, c)
      [] c.fn = "disconnectBitrix"     -> Disconnect(o, c)
      [] c.fn = "testBitrix"           -> Test(o, c)
      [] c.fn = "syncBitrix"           -> Sync(o, c)
      [] c.fn = "fetchBitrixSnapshot"  -> Snapshot(o, c)
      [] c.fn = "fetchAdminWorkspaces" -> ListAdmin(o, c)
      [] c.fn = "createWorkspaceFromDepartment" -> CreateFromDepartment(o, c)
      [] c.fn = "applyWorkspaceMemberships"     -> ApplyMemberships(o, c)
      [] c.fn = "unlinkWorkspaceDepartment"     -> UnlinkDepartment(o, c)
      [] c.fn = "linkWorkspaceDepartment"       -> LinkDepartment(o, c)

\* A handler stops: its deferred Unlock is run.  A synchronization answers well although
\* the memberships could not be applied.
OrgStops(o, c) ==
    IF c.fn # "syncBitrix" \/ c.at = "sent" THEN Refuses(o, c)
    ELSE IF c.at = "asked" THEN Refuses([o EXCEPT !.locked = FALSE], c)
    ELSE Refuses(o, c) \cup Answers(o, c, Ok)
=============================================================================
