---------------------------- MODULE MCAdminPages ----------------------------
EXTENDS AdminPages, TLC

CONSTANTS anna, d1, d2, d3, p1, p2, p3, w1, w2, w3, e1, e2, chat, r1, r2, t1, t2, t3

MCAccount   == [p \in People |-> CASE p = p1 -> Admin [] p = p2 -> anna [] p = p3 -> Nobody]
MCUserOf    == [t \in {t1, t2, t3} |-> IF t = t3 THEN Admin ELSE anna]
MCPurposeOf == [m \in {e1, e2, chat} |-> IF m = chat THEN "chat" ELSE "embeddings"]

Over(one, two, three) == [d \in Depts |-> CASE d = d1 -> one [] d = d2 -> two [] d = d3 -> three]
In(one, two, three)   == [p \in People |-> CASE p = p1 -> one [] p = p2 -> two [] p = p3 -> three]

\* A line of three departments; and a circle with one that hangs on it, with other heads.
Lined  == [parent |-> Over(Nobody, d1, d2), head |-> Over(p1, p2, Nobody),
           in |-> In({d1}, {d2}, {d2}), active |-> {p1, p2, p3}]
Circle == [parent |-> Over(d2, d1, d2), head |-> Over(p2, Nobody, Nobody),
           in |-> In({d2}, {d1, d3}, {d2}), active |-> {p2, p3}]
MCStructures == {Lined, Circle}

\* Below any departments, also below one that was not listed.
StructuresOn(ds) == {[parent |-> f, head |-> [d \in ds |-> Nobody], in |-> In({}, {}, {}), active |-> {}]
            : f \in [ds -> Depts \cup {Nobody}]}
AnyLink == UNION {[ds -> {[ws |-> w1, include |-> TRUE], [ws |-> w2, include |-> TRUE],
                          [ws |-> w3, include |-> FALSE]}] : ds \in SUBSET Depts}

Org(structure, link, hook, member) ==
    [structure |-> structure, link |-> link, hook |-> hook, locked |-> FALSE, run |-> "none",
     spaces |-> {w1} \cup {link[d].ws : d \in DOMAIN link}, member |-> member]
Owner   == [key \in {<<w1, Admin>>} |-> [role |-> "employee", source |-> "local"]]
Brought == [key \in {<<w1, anna>>} |-> [role |-> "employee", source |-> "bitrix"]]
OneLink == [d \in {d1} |-> [ws |-> w1, include |-> TRUE]]
TwoLinks == [d \in {d1, d3} |-> [ws |-> w1, include |-> d = d1]]

Synced == Org(Lined, OneLink, TRUE, Owner)
Row(status) == [status |-> status, alias |-> IF status = "deployed" THEN "embeddings" ELSE Nobody]
Registry(one, two, three) ==
    [m \in {e1, e2, chat} |-> CASE m = e1 -> Row(one) [] m = e2 -> Row(two) [] m = chat -> Row(three)]
Plain == Registry("deployed", "unregistered", "unregistered")
Asked(status) == [r \in {r1, r2} |-> IF r = r1 /\ status # "none"
                                     THEN [status |-> status, by |-> anna, reviewer |-> Nobody]
                                     ELSE [status |-> "none", by |-> Nobody, reviewer |-> Nobody]]

\* What a page shows when it was read just now.
Served(c, d) == (CHOOSE x \in CASE c.fn \in OrgFns -> OrgOutcomes(d.org, c)
                                  [] c.fn \in ModelFns -> ModelOutcomes(d.registry, c)
                                  [] c.fn \in TrainingFns -> TrainingOutcomes(d.training, c) : TRUE).call
Read(fn, d) == LET c == Served(Call(t1, "load", fn), d) IN IF c.at = "back" THEN c ELSE Served(c, d)
Shown(route, d) ==
    LET f == Showing(Blank(route), Read(Mount(t1, route).fn, d))
    IN  IF route = "bitrix" THEN [Showing(f, Read("fetchBitrixSnapshot", d)) EXCEPT !.due = FALSE] ELSE f

Stored(org, registry, training) == [org |-> org, registry |-> registry, training |-> training]

Failing == [stop |-> 1, away |-> 0]
Leaving == [stop |-> 0, away |-> 1]

\* new: the pages are just being opened.
Start(d, new, routes, n, troubled) ==
    LET Of(x) == [t \in Tabs |-> x[CASE t = t1 -> 1 [] t = t2 -> 2 [] t = t3 -> 3]]
    IN  [db |-> d, clicks |-> Of(n), troubles |-> troubled,
         tab |-> [t \in Tabs |-> IF new \/ Of(n)[t] = 0 THEN Blank(Of(routes)[t]) ELSE Shown(Of(routes)[t], d)],
         opened |-> IF new THEN {t \in Tabs : Of(n)[t] > 0} ELSE {}]

WithOrg(org)           == Stored(org, Plain, Asked("none"))
WithModels(registry)   == Stored(Synced, registry, Asked("none"))
WithRequests(training) == Stored(Synced, Plain, training)
Stale == Org(Circle, TwoLinks, TRUE, Owner @@ Brought)
None  == "training"

MCStarts ==
    { \* the administrator at the page for Bitrix24, alone and in two windows
      Start(WithOrg(Org(NoStructure, <<>>, FALSE, Owner)), TRUE, <<"bitrix", None, None>>, <<2, 0, 0>>, Failing),
      Start(WithOrg(Stale), FALSE, <<"bitrix", None, None>>, <<3, 0, 0>>, Failing),
      Start(WithOrg(Synced), FALSE, <<"bitrix", "bitrix", None>>, <<1, 1, 0>>, Failing),
      \* the same, and at the page for workspaces
      Start(WithOrg(Stale), FALSE, <<"workspaces", "bitrix", None>>, <<1, 1, 0>>, Failing),
      Start(WithOrg(Stale), TRUE, <<"workspaces", None, None>>, <<2, 0, 0>>, Failing),
      \* one administrator at the models, and two
      Start(WithModels(Plain), TRUE, <<"models", None, None>>, <<3, 0, 0>>, Failing),
      Start(WithModels(Registry("deployed", "approved", "quarantine")), TRUE,
            <<"models", None, None>>, <<3, 0, 0>>, Failing),
      Start(WithModels(Registry("approved", "approved", "quarantine")), FALSE,
            <<"models", "models", None>>, <<2, 1, 0>>, Failing),
      \* an author in two windows, and the administrator who reviews
      Start(WithRequests(Asked("none")), TRUE, <<"training", None, None>>, <<3, 0, 0>>, Failing),
      Start(WithRequests(Asked("draft")), FALSE, <<"training", "training", "review">>, <<2, 1, 1>>, Failing),
      Start(WithRequests(Asked("submitted")), FALSE, <<"training", None, "review">>, <<1, 0, 2>>, Failing),
      \* pages that are left, and answers that are not waited for
      Start(WithOrg(Synced), FALSE, <<"bitrix", None, None>>, <<1, 0, 0>>, Leaving),
      Start(WithOrg(Stale), FALSE, <<"workspaces", None, None>>, <<2, 0, 0>>, Leaving),
      Start(WithModels(Registry("approved", "approved", "quarantine")), FALSE,
            <<"models", None, None>>, <<3, 0, 0>>, Leaving),
      Start(WithRequests(Asked("draft")), FALSE, <<"training", None, "review">>, <<2, 0, 1>>, Leaving) }
    \* any structure with any links
    \cup {Start(WithOrg(Org(s, link, FALSE, Owner)), FALSE, <<None, None, None>>, <<0, 0, 0>>, [stop |-> 0, away |-> 0])
          : s \in StructuresOn(Depts) \cup StructuresOn({d2, d3}), link \in AnyLink}
=============================================================================
