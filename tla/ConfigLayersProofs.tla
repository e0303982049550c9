------------------------- MODULE ConfigLayersProofs -------------------------
(***************************************************************************)
(* Proofs about the layered configuration, for every document, every set   *)
(* of rule ids and prefixes and every sequence of edits.  Each property    *)
(* follows from ConfigInv: the document stays well formed and what is      *)
(* loaded is always the document read under the overrides.                 *)
(***************************************************************************)
EXTENDS ConfigLayers, TLAPS

\* A leaf is proved by Zenon, or by SMT where it says so: where it rests on
\* arithmetic or on what an update of a function leaves behind.
USE ZenonT(60), SMTT(30)

\* The document stays one, and what is loaded is always what it gives
\* together with the overrides.
ConfigInv == DocumentOK(doc) /\ loaded = Load(doc, over)

\* Every edit rewrites one place of the document and loads it again.
Rewrites(pl) ==
    /\ pl \in Place /\ over' = over /\ loaded' = Load(doc', over)
    /\ \E table : /\ doc' = [doc EXCEPT !.tables[pl] = table]
                  /\ table = <<>> \/ table = <<table[1]>>

\* An edit (Give, Omit or DropTable) rewrites one place and loads the result.
LEMMA EveryEdit == ConfigNext => \E pl \in Place : Rewrites(pl)
<1> SUFFICES ASSUME NEW pl \in Place, Give(pl) \/ Omit(pl) \/ DropTable(pl)
             PROVE  Rewrites(pl)
  BY DEF ConfigNext, Editable
<1>1. \A x : <<x>> = <<(<<x>>)[1]>>
  OBVIOUS
<1>2. PICK table : Rewrite(pl, table) /\ (table = <<>> \/ table = <<table[1]>>)
  BY <1>1 DEF Give, Omit, DropTable
<1> QED
  BY <1>2 DEF Rewrite, Rewrites

\* An edit keeps the document well formed, its shape, and every other table.
LEMMA EditKeepsDocument ==
    ASSUME DocumentOK(doc), NEW pl, Rewrites(pl)
    PROVE  /\ DocumentOK(doc') /\ doc'.shape = doc.shape
           /\ \A q \in Place \ {pl} : doc'.tables[q] = doc.tables[q]
<1>1. PICK table : /\ doc' = [doc EXCEPT !.tables[pl] = table]
                   /\ table = <<>> \/ table = <<table[1]>>
  BY DEF Rewrites
<1>2. pl \in Place
  BY DEF Rewrites
<1>3. doc = [shape |-> doc.shape, tables |-> [q \in Place |-> doc.tables[q]]]
  BY DEF DocumentOK
<1>4. DOMAIN doc.tables = Place
  BY <1>3, SMTT(30)
<1>5. doc' = [shape |-> doc.shape, tables |-> [doc.tables EXCEPT ![pl] = table]]
  BY <1>1, <1>3
<1>6. /\ doc'.shape = doc.shape
      /\ doc'.tables = [q \in Place |-> IF q = pl THEN table ELSE doc.tables[q]]
  BY <1>3, <1>4, <1>5
<1>7. doc' = [shape |-> doc'.shape, tables |-> [q \in Place |-> doc'.tables[q]]]
  BY <1>5, <1>6
<1>8. \A q \in Place : doc'.tables[q] = IF q = pl THEN table ELSE doc.tables[q]
  BY <1>6
<1> QED
  BY <1>1, <1>2, <1>6, <1>7, <1>8 DEF DocumentOK

\* The configuration a client runs is always what load makes of its document.
LEMMA ConfigInvariant == ConfigSpec => []ConfigInv
<1>1. ConfigInit => ConfigInv
  BY ConfigAssumption DEF ConfigInit, ConfigInv
<1>2. ConfigInv /\ [ConfigNext]_configVars => ConfigInv'
  <2> SUFFICES ASSUME ConfigInv, [ConfigNext]_configVars PROVE ConfigInv'
    OBVIOUS
  <2>1. CASE UNCHANGED configVars
    BY <2>1 DEF configVars, ConfigInv
  <2>2. CASE ConfigNext
    <3>1. PICK pl : Rewrites(pl)
      BY <2>2, EveryEdit
    <3> QED
      BY <3>1, EditKeepsDocument DEF ConfigInv, Rewrites
  <2> QED
    BY <2>1, <2>2
<1> QED
  BY <1>1, <1>2, PTL DEF ConfigSpec

\* Overrides touch the settings of a route only (ClientCli::load).
LEMMA OverridesKeep ==
    ASSUME NEW d, NEW r, NEW o, NEW c, c = ExpandClientRoute(d, r)
    PROVE  /\ WithOverrides(c, o).oauth = c.oauth
           /\ WithOverrides(c, o).acme = c.acme
           /\ WithOverrides(c, o).authorization = c.authorization
           /\ WithOverrides(c, o).rules = c.rules
BY DEF ExpandClientRoute, WithOverrides

\* A route that is loaded was expanded, validated and overridden.
LEMMA LoadedRoute ==
    ASSUME NEW d, NEW o, NEW r \in DOMAIN Load(d, o)
    PROVE  /\ r \in Route
           /\ Load(d, o)[r] = WithOverrides(ExpandClientRoute(d, r), o)
           /\ ValidClientConfig(ExpandClientRoute(d, r))
           /\ Complete(d.shape, ExpandClientRoute(d, r))
           /\ DOMAIN Load(d, o) = IF d.shape = "legacy" THEN 1..1 ELSE Route
<1> DEFINE rs == IF d.shape = "legacy" THEN 1..1 ELSE Route
           all == [q \in rs |-> ExpandClientRoute(d, q)]
           configs == ParseClientConfigs(d)
<1>0. DOMAIN <<>> = {}
  BY SMTT(30)
<1>1. DOMAIN configs = DOMAIN Load(d, o) /\ Load(d, o)[r] = WithOverrides(configs[r], o)
  BY <1>0 DEF Load
<1>2. configs = all /\ \A q \in DOMAIN all : ValidClientConfig(all[q]) /\ Complete(d.shape, all[q])
  BY <1>0, <1>1 DEF ParseClientConfigs
<1>3. rs \subseteq Route
  BY ConfigAssumption, SMTT(30) DEF Route
<1> QED
  BY <1>1, <1>2, <1>3

\* Of several routes no two have the same client id before overriding, and
\* then --client-id is refused (expand_client_routes, ClientCli::load).
LEMMA ManyRoutes ==
    ASSUME NEW d, d.shape \in {"legacy", "multi"}, NEW o, NEW r \in DOMAIN Load(d, o),
           DOMAIN Load(d, o) # 1..1
    PROVE  /\ "client_id" \notin DOMAIN o
           /\ \A p, q \in Route : ExpandClientRoute(d, p).settings.client_id
                                   = ExpandClientRoute(d, q).settings.client_id => p = q
<1> DEFINE all == [q \in Route |-> ExpandClientRoute(d, q)]
           configs == ParseClientConfigs(d)
<1>0. DOMAIN <<>> = {}
  BY SMTT(30)
<1>1. d.shape = "multi" /\ DOMAIN Load(d, o) = Route
  BY LoadedRoute
<1>2. DOMAIN configs = Route /\ (Len(configs) # 1 => "client_id" \notin DOMAIN o)
  BY <1>0, <1>1 DEF Load
<1>3. configs = all /\ Expandable(all)
  BY <1>0, <1>1, <1>2 DEF ParseClientConfigs
<1>4. Len(all) # 1
  <2>1. PICK n \in Nat : Route = 1..n
    BY ConfigAssumption, SMTT(30) DEF Route
  <2>2. Len([q \in 1..n |-> ExpandClientRoute(d, q)]) = n
    BY SMTT(30)
  <2> QED
    BY <1>1, <2>1, <2>2
<1>5. \A p, q \in Route : all[p].settings.client_id = all[q].settings.client_id => p = q
  BY <1>3 DEF Expandable
<1> QED
  BY <1>2, <1>3, <1>4, <1>5

\* The policies of a configuration are read from two of its parts.
LEMMA SamePolicies ==
    ASSUME NEW c, NEW w, w.authorization = c.authorization, w.rules = c.rules
    PROVE  Policies(w) = Policies(c)
BY DEF Policies
-----------------------------------------------------------------------------
\* Where the tables of a route and of a path are.
LEMMA PlaceOf ==
    ASSUME NEW n \in Nodes, NEW s \in Sections(n)
    PROVE  <<n[1], n[2], s>> \in Place
<1> DEFINE At(m) == {<<m[1], m[2], t>> : t \in Sections(m)}
<1>1. <<n[1], n[2], s>> \in At(n)
  OBVIOUS
<1>2. At(n) \in {At(m) : m \in Nodes}
  OBVIOUS
<1>3. Place = UNION {At(m) : m \in Nodes}
  BY DEF Place
<1> HIDE DEF At
<1> QED
  BY <1>1, <1>2, <1>3

\* A place other than the defaults is one of a route, or of one of its paths.
LEMMA PlaceParts ==
    ASSUME NEW pl \in Place, pl[1] # 0
    PROVE  pl[1] \in Route /\ pl[2] \in 0..Paths[pl[1]]
<1> DEFINE At(m) == {<<m[1], m[2], t>> : t \in Sections(m)}
           Of(q) == {<<q, t>> : t \in 0..Paths[q]}
<1>1. PICK n \in Nodes : pl \in At(n)
  BY DEF Place
<1>2. PICK s : pl = <<n[1], n[2], s>>
  BY <1>1
<1>3. n \in {<<0, 0>>} \/ \E q \in Route : n \in Of(q)
  BY <1>1 DEF Nodes
<1> QED
  BY <1>2, <1>3, SMTT(30)

\* The nodes a path of a route inherits from.
LEMMA NodeOf ==
    ASSUME NEW r \in Route, NEW p \in 0..Paths[r]
    PROVE  /\ <<0, 0>> \in Nodes /\ <<r, p>> \in Nodes /\ <<r, 0>> \in Nodes
<1>1. Paths[r] \in Nat
  BY ConfigAssumption, SMTT(30) DEF Route
<1>2. 0 \in 0..Paths[r]
  BY <1>1, SMTT(30)
<1> DEFINE Of(q) == {<<q, t>> : t \in 0..Paths[q]}
<1>3. <<r, p>> \in Of(r) /\ <<r, 0>> \in Of(r)
  BY <1>2
<1>4. Of(r) \in {Of(q) : q \in Route}
  OBVIOUS
<1>5. Nodes = {<<0, 0>>} \cup UNION {Of(q) : q \in Route}
  BY DEF Nodes
<1> HIDE DEF Of
<1> QED
  BY <1>3, <1>4, <1>5

\* The places of the tables such a path reads.
LEMMA RoutePlaces ==
    ASSUME NEW r \in Route, NEW p \in 0..Paths[r]
    PROVE  /\ \A s \in {"plain", "oauth", "acme", "authorization"} :
                 <<r, 0, s>> \in Place /\ <<0, 0, s>> \in Place
           /\ \A s \in {"plain", "authorization"} : <<r, p, s>> \in Place
<1>1. ASSUME NEW n \in Nodes, n[2] = 0, NEW s \in {"plain", "oauth", "acme", "authorization"}
      PROVE  <<n[1], n[2], s>> \in Place
  BY <1>1, PlaceOf DEF Sections
<1>2. ASSUME NEW n \in Nodes, NEW s \in {"plain", "authorization"}
      PROVE  <<n[1], n[2], s>> \in Place
  <2>1. s \in Sections(n)
    BY DEF Sections
  <2> QED
    BY <2>1, PlaceOf
<1>3. /\ <<0, 0>>[1] = 0 /\ <<0, 0>>[2] = 0 /\ <<r, 0>>[1] = r /\ <<r, 0>>[2] = 0
      /\ <<r, p>>[1] = r /\ <<r, p>>[2] = p
  OBVIOUS
<1>4. <<0, 0>> \in Nodes /\ <<r, p>> \in Nodes /\ <<r, 0>> \in Nodes
  BY NodeOf
<1> QED
  BY <1>1, <1>2, <1>3, <1>4

\* Two documents that agree on the tables path p of route r reads.
Agree(d, e, r, p) ==
    /\ e.shape = d.shape
    /\ \A q \in Place : q[1] \in {0, r} /\ q[2] \in {0, p} => e.tables[q] = d.tables[q]

\* A place reads its own tables, its route's and the defaults (merge_*_layers).
LEMMA LayersKept ==
    ASSUME NEW d, NEW e, NEW r \in Route, NEW p \in 0..Paths[r], Agree(d, e, r, p)
    PROVE  /\ \A s \in {"plain", "authorization"} :
                 /\ Layers(e, r, p, s) = Layers(d, r, p, s)
                 /\ e.tables[<<r, p, s>>] = d.tables[<<r, p, s>>]
           /\ p = 0 => \A s \in {"oauth", "acme"} : Layers(e, r, p, s) = Layers(d, r, p, s)
<1>0. Inherits(e, r, p) <=> Inherits(d, r, p)
  <2>1. ASSUME NEW s \in {"plain", "authorization"}
        PROVE  e.tables[<<r, p, s>>] = d.tables[<<r, p, s>>]
    <3>1. <<r, p, s>> \in Place /\ <<r, p, s>>[1] = r /\ <<r, p, s>>[2] = p
      BY RoutePlaces
    <3> QED
      BY <3>1 DEF Agree
  <2> QED
    BY <2>1 DEF Inherits, Agree
<1>1. ASSUME NEW s, <<r, p, s>> \in Place, <<r, 0, s>> \in Place, <<0, 0, s>> \in Place
      PROVE  /\ Layers(e, r, p, s) = Layers(d, r, p, s)
             /\ e.tables[<<r, p, s>>] = d.tables[<<r, p, s>>]
  <2>1. /\ <<r, p, s>>[1] = r /\ <<r, p, s>>[2] = p /\ <<r, 0, s>>[1] = r /\ <<r, 0, s>>[2] = 0
        /\ <<0, 0, s>>[1] = 0 /\ <<0, 0, s>>[2] = 0
    OBVIOUS
  <2>2. /\ e.tables[<<r, p, s>>] = d.tables[<<r, p, s>>]
        /\ e.tables[<<r, 0, s>>] = d.tables[<<r, 0, s>>]
        /\ e.tables[<<0, 0, s>>] = d.tables[<<0, 0, s>>]
    BY <1>1, <2>1 DEF Agree
  <2>3. e.shape = d.shape
    BY DEF Agree
  <2> QED
    BY <1>0, <2>2, <2>3 DEF Layers
<1> QED
  BY <1>1, RoutePlaces

\* The rule of a path, and its policy, come from those tables only.
LEMMA RuleKept ==
    ASSUME NEW d, NEW e, NEW r \in Route, NEW p \in 0..Paths[r], Agree(d, e, r, p)
    PROVE  /\ Rule(e, r, p) = Rule(d, r, p)
           /\ MergeAuthorization(e, r, p) = MergeAuthorization(d, r, p)
<1>1. \A s \in {"plain", "authorization"} :
         Layers(e, r, p, s) = Layers(d, r, p, s) /\ e.tables[<<r, p, s>>] = d.tables[<<r, p, s>>]
  BY LayersKept
<1>2. e.shape = d.shape
  BY DEF Agree
<1>3. MergeAuthorization(e, r, p) = MergeAuthorization(d, r, p)
  BY <1>1, <1>2 DEF MergeAuthorization
<1>4. \A f : RuleLayers(e, r, p, f) = RuleLayers(d, r, p, f)
  BY <1>1, <1>2 DEF RuleLayers
<1>5. Rule(e, r, p) = Rule(d, r, p)
  BY <1>2, <1>3, <1>4 DEF Rule
<1> QED
  BY <1>3, <1>5

\* The rules of a route are those of its paths and, in the multi-route shape,
\* that of the route itself.
LEMMA RulesOf ==
    ASSUME NEW shape, NEW r \in Route
    PROVE  /\ RuleIds(shape, r) \subseteq 0..Paths[r]
           /\ 1..Paths[r] \subseteq RuleIds(shape, r)
           /\ shape = "legacy" => 0 \notin RuleIds(shape, r)
<1>1. Paths[r] \in Nat
  BY ConfigAssumption, SMTT(30) DEF Route
<1>2. 1..Paths[r] \subseteq 0..Paths[r] /\ 0 \notin 1..Paths[r]
  BY <1>1, SMTT(30)
<1> QED
  BY <1>2 DEF RuleIds

\* The route's own parts come from the route and the defaults only.
LEMMA RouteKept ==
    ASSUME NEW d, NEW e, NEW r \in Route, Agree(d, e, r, 0)
    PROVE  /\ MergeOAuth(e, r) = MergeOAuth(d, r) /\ MergeAcme(e, r) = MergeAcme(d, r)
           /\ MergeAuthorization(e, r, 0) = MergeAuthorization(d, r, 0)
           /\ e.shape = d.shape /\ Layers(e, r, 0, "plain") = Layers(d, r, 0, "plain")
<1>0. 0 \in 0..Paths[r]
  BY ConfigAssumption, SMTT(30) DEF Route
<1>1. \A s \in {"plain", "oauth", "acme"} : Layers(e, r, 0, s) = Layers(d, r, 0, s)
  <2>1. PICK p \in 0..Paths[r] : p = 0
    BY <1>0
  <2>2. Agree(d, e, r, p)
    BY <2>1
  <2>3. \A s \in {"plain", "authorization"} : Layers(e, r, p, s) = Layers(d, r, p, s)
    BY <2>2, LayersKept
  <2>4. p = 0 => \A s \in {"oauth", "acme"} : Layers(e, r, p, s) = Layers(d, r, p, s)
    BY <2>2, LayersKept
  <2> QED
    BY <2>1, <2>3, <2>4
<1>2. e.shape = d.shape
  BY DEF Agree
<1>3. MergeOAuth(e, r) = MergeOAuth(d, r)
  BY <1>1, <1>2 DEF MergeOAuth
<1>4. MergeAcme(e, r) = MergeAcme(d, r)
  BY <1>1, <1>2 DEF MergeAcme
<1>5. MergeAuthorization(e, r, 0) = MergeAuthorization(d, r, 0)
  BY <1>0, RuleKept
<1> QED
  BY <1>1, <1>2, <1>3, <1>4, <1>5

\* So does the whole configuration of a route, but for the rules of paths
\* whose own tables differ (expand_client_route).
LEMMA ExpandKept ==
    ASSUME NEW d, NEW e, NEW r \in Route, NEW x \in 0..Paths[r],
           \A p \in (0..Paths[r]) \ {x} : Agree(d, e, r, p), Agree(d, e, r, 0)
    PROVE  /\ ExpandClientRoute(e, r) = [ExpandClientRoute(d, r) EXCEPT !.rules[x] = Rule(e, r, x)]
           /\ Agree(d, e, r, x) => ExpandClientRoute(e, r) = ExpandClientRoute(d, r)
<1>1. \A p \in (0..Paths[r]) \ {x} : Rule(e, r, p) = Rule(d, r, p)
  BY RuleKept
<1> DEFINE ids == RuleIds(d.shape, r)
           was == [p \in ids |-> Rule(d, r, p)]
           is == [p \in ids |-> Rule(e, r, p)]
           settings == Merged(d.shape, Layers(d, r, 0, "plain"), RouteFields)
<1>5. ids \subseteq 0..Paths[r]
  BY RulesOf
<1> HIDE DEF ids
<1>2. is = [was EXCEPT ![x] = Rule(e, r, x)]
  BY <1>1, <1>5
<1>0. Agree(d, e, r, x) => is = was
  BY <1>1, <1>5, RuleKept
<1> HIDE DEF was, is, settings
<1>3. ExpandClientRoute(d, r) = [settings |-> settings, oauth |-> MergeOAuth(d, r),
         acme |-> MergeAcme(d, r), authorization |-> MergeAuthorization(d, r, 0), rules |-> was]
  BY DEF ExpandClientRoute, was, ids, settings
<1>4. ExpandClientRoute(e, r) = [settings |-> settings, oauth |-> MergeOAuth(d, r),
         acme |-> MergeAcme(d, r), authorization |-> MergeAuthorization(d, r, 0), rules |-> is]
  BY RouteKept DEF ExpandClientRoute, is, ids, settings
<1> QED
  BY <1>0, <1>2, <1>3, <1>4, SMTT(30)

\* ... and what is run of it once the overrides are applied.
LEMMA RunKept ==
    ASSUME NEW d, NEW e, NEW r \in Route, NEW x \in 1..Paths[r], NEW o, NEW new,
           \A p \in (0..Paths[r]) \ {x} : Agree(d, e, r, p), Agree(d, e, r, 0),
           new = WithOverrides(ExpandClientRoute(e, r), o)
    PROVE  new = [WithOverrides(ExpandClientRoute(d, r), o) EXCEPT !.rules[x] = new.rules[x]]
<1> DEFINE rule == Rule(e, r, x)
           c == ExpandClientRoute(d, r)
<1>0. x \in RuleIds(d.shape, r) /\ x \in 0..Paths[r]
  BY RulesOf
<1>1. new = WithOverrides([c EXCEPT !.rules[x] = rule], o)
  BY <1>0, ExpandKept, SMTT(30)
<1>2. /\ WithOverrides([c EXCEPT !.rules[x] = rule], o) = [WithOverrides(c, o) EXCEPT !.rules[x] = rule]
      /\ WithOverrides([c EXCEPT !.rules[x] = rule], o).rules[x] = rule
  <2> HIDE DEF rule
  <2> QED
    BY <1>0 DEF ExpandClientRoute, WithOverrides
<1> HIDE DEF rule, c
<1>3. new = [WithOverrides(c, o) EXCEPT !.rules[x] = rule] /\ new.rules[x] = rule
  BY <1>1, <1>2
<1> QED
  BY <1>3 DEF c

\* What an edit of a place says about the documents before and after.
LEMMA EditAgrees ==
    ASSUME DocumentOK(doc), NEW pl, Rewrites(pl), NEW r, NEW p,
           pl[1] \notin {0, r} \/ pl[2] \notin {0, p}
    PROVE  Agree(doc, doc', r, p)
BY EditKeepsDocument, SMTT(30) DEF Agree

\* A route both documents give is loaded from what was expanded of it.
LEMMA BothLoaded ==
    ASSUME ConfigInv, NEW pl, Rewrites(pl), BothLoad
    PROVE  /\ DOMAIN loaded' = DOMAIN loaded
           /\ DOMAIN loaded = IF doc.shape = "legacy" THEN 1..1 ELSE Route
           /\ \A r \in DOMAIN loaded :
                 /\ r \in Route
                 /\ loaded[r] = WithOverrides(ExpandClientRoute(doc, r), over)
                 /\ loaded'[r] = WithOverrides(ExpandClientRoute(doc', r), over)
                 /\ Complete(doc.shape, ExpandClientRoute(doc, r))
                 /\ Complete(doc'.shape, ExpandClientRoute(doc', r))
<1>1. loaded = Load(doc, over) /\ loaded' = Load(doc', over) /\ doc'.shape = doc.shape
  BY EditKeepsDocument DEF ConfigInv, Rewrites
<1>2. \A f \in {loaded, loaded'} : DOMAIN f = {} => f = <<>>
  <2>1. ASSUME NEW d, DOMAIN Load(d, over) = {} PROVE Load(d, over) = <<>>
    <3>1. CASE Load(d, over) # <<>>
      <4>1. Load(d, over) = [r \in {} |-> WithOverrides(ParseClientConfigs(d)[r], over)]
        BY <2>1, <3>1 DEF Load
      <4> QED
        BY <4>1, SMTT(30)
    <3> QED
      BY <3>1
  <2> QED
    BY <1>1, <2>1
<1>3. PICK r \in DOMAIN loaded, q \in DOMAIN loaded' : TRUE
  BY <1>2 DEF BothLoad
<1>4. DOMAIN loaded' = DOMAIN loaded
  BY <1>1, <1>3, LoadedRoute
<1> QED
  BY <1>1, <1>3, <1>4, LoadedRoute

\* The place an action edits is the one whose table it changes.
LEMMA EditedPlace ==
    ASSUME ConfigInv, [ConfigNext]_configVars, NEW pl \in Edited
    PROVE  pl \in Place /\ Rewrites(pl)
<1>1. ConfigNext
  BY DEF Edited, configVars
<1>2. PICK q \in Place : Rewrites(q)
  BY <1>1, EveryEdit
<1>3. pl = q
  BY <1>2, EditKeepsDocument, SMTT(30) DEF Edited, ConfigInv
<1> QED
  BY <1>2, <1>3

\* An edit of one route leaves the others as they were, and an edit of one
\* path leaves its route and the other paths as they were (expand_client_route).
THEOREM EditsIsolated == ConfigSpec => EditIsolated
<1>1. ASSUME ConfigInv, [ConfigNext]_configVars, BothLoad, NEW pl \in Edited, pl[1] # 0
      PROVE  /\ \A r \in DOMAIN loaded \ {pl[1]} : loaded'[r] = loaded[r]
             /\ pl[2] # 0 /\ pl[1] \in DOMAIN loaded =>
                    \E rule \in {loaded'[pl[1]].rules[pl[2]]} :
                        loaded'[pl[1]] = [loaded[pl[1]] EXCEPT !.rules[pl[2]] = rule]
  <2>1. pl \in Place /\ Rewrites(pl)
    BY <1>1, EditedPlace
  <2>2. DocumentOK(doc)
    BY <1>1 DEF ConfigInv
  <2>3. ASSUME NEW r \in DOMAIN loaded \ {pl[1]} PROVE loaded'[r] = loaded[r]
    <3>1. \A p \in 0..Paths[r] : Agree(doc, doc', r, p)
      BY <1>1, <2>1, <2>2, EditAgrees
    <3>2. r \in Route /\ 0 \in 0..Paths[r]
      BY <1>1, <2>1, BothLoaded, ConfigAssumption, SMTT(30) DEF Route
    <3>3. ExpandClientRoute(doc', r) = ExpandClientRoute(doc, r)
      BY <3>1, <3>2, ExpandKept, SMTT(30)
    <3> QED
      BY <1>1, <2>1, <3>3, BothLoaded
  <2>4. ASSUME pl[2] # 0, pl[1] \in DOMAIN loaded
        PROVE  loaded'[pl[1]] = [loaded[pl[1]] EXCEPT !.rules[pl[2]] = loaded'[pl[1]].rules[pl[2]]]
    <3> DEFINE r == pl[1]
               x == pl[2]
    <3>0. r \in Route /\ x \in 0..Paths[r]
      BY <1>1, <2>1, PlaceParts
    <3>1. \A p \in (0..Paths[r]) \ {x} : Agree(doc, doc', r, p)
      BY <1>1, <2>1, <2>2, <2>4, EditAgrees
    <3>2. Agree(doc, doc', r, 0)
      BY <1>1, <2>1, <2>2, <2>4, EditAgrees
    <3>5. x \in 1..Paths[r]
      BY <2>4, <3>0, ConfigAssumption, SMTT(30) DEF Route
    <3> HIDE DEF r, x
    <3>3. /\ loaded[r] = WithOverrides(ExpandClientRoute(doc, r), over)
          /\ loaded'[r] = WithOverrides(ExpandClientRoute(doc', r), over)
      BY <1>1, <2>1, <2>4, BothLoaded DEF r
    <3>4. loaded'[r] = [loaded[r] EXCEPT !.rules[x] = loaded'[r].rules[x]]
      BY <3>0, <3>1, <3>2, <3>3, <3>5, RunKept, SMTT(30)
    <3> QED
      BY <3>4 DEF r, x
  <2> QED
    BY <2>3, <2>4
<1>2. ConfigInv /\ [ConfigNext]_configVars =>
        [BothLoad => \A pl \in Edited :
            pl[1] # 0 =>
                /\ \A r \in DOMAIN loaded \ {pl[1]} : loaded'[r] = loaded[r]
                /\ pl[2] # 0 /\ pl[1] \in DOMAIN loaded =>
                       \E rule \in {loaded'[pl[1]].rules[pl[2]]} :
                           loaded'[pl[1]] =
                               [loaded[pl[1]] EXCEPT !.rules[pl[2]] = rule]]_configVars
  BY <1>1
<1> QED
  BY <1>2, ConfigInvariant, PTL DEF ConfigSpec, EditIsolated
-----------------------------------------------------------------------------
\* The value of the nearest layer that gives f one, if there is such a layer.
Nearest(shape, layers, f) ==
    LET hits == {i \in DOMAIN layers : Gives(shape, layers[i], f)}
    IN  IF hits # {} THEN <<layers[Min(hits)][f]>> ELSE <<>>

\* The minimum of a set of numbers is its smallest element.
LEMMA MinIs ==
    ASSUME NEW H \in SUBSET Nat, NEW m \in H, \A y \in H : m <= y
    PROVE  Min(H) = m
<1>1. Min(H) \in H /\ \A y \in H : Min(H) <= y
  BY DEF Min
<1>2. Min(H) \in Nat /\ m \in Nat /\ Min(H) <= m /\ m <= Min(H)
  BY <1>1
<1> QED
  BY <1>2, SMTT(30)

\* No layer, no value.
LEMMA NearestNone ==
    ASSUME NEW shape, NEW f
    PROVE  Nearest(shape, <<>>, f) = <<>>
BY SMTT(30) DEF Nearest

\* The first layer gives the value if it gives one, the rest otherwise.
LEMMA NearestOwn ==
    ASSUME NEW S, NEW t \in S, NEW rest \in Seq(S), Len(rest) <= 2, NEW shape, NEW f
    PROVE  Nearest(shape, <<t>> \o rest, f)
               = IF Gives(shape, t, f) THEN <<t[f]>> ELSE Nearest(shape, rest, f)
<1> DEFINE all == <<t>> \o rest
           H == {i \in DOMAIN all : Gives(shape, all[i], f)}
           K == {i \in DOMAIN rest : Gives(shape, rest[i], f)}
<1>1. /\ DOMAIN all = 1..(Len(rest) + 1) /\ DOMAIN rest = 1..Len(rest) /\ Len(rest) \in Nat
      /\ all[1] = t /\ \A i \in 1..Len(rest) : all[i + 1] = rest[i]
  <2>1. <<t>> \in Seq(S) /\ Len(<<t>>) = 1 /\ <<t>>[1] = t
    BY SMTT(30)
  <2>2. DOMAIN rest = 1..Len(rest) /\ Len(rest) \in Nat
    BY SMTT(30)
  <2>3. Len(all) = Len(rest) + 1 /\ DOMAIN all = 1..(Len(rest) + 1)
    BY <2>1, <2>2, SMTT(30)
  <2>4. all[1] = t
    BY <2>1, <2>2, SMTT(30)
  <2>5. \A i \in 1..Len(rest) : all[i + 1] = rest[i]
    BY <2>1, <2>2, SMTT(30)
  <2> QED
    BY <2>2, <2>3, <2>4, <2>5
<1> HIDE DEF all
<1>2. CASE Gives(shape, t, f)
  <2>1. H \in SUBSET Nat /\ 1 \in H /\ \A y \in H : 1 <= y
    BY <1>1, <1>2, SMTT(30)
  <2> HIDE DEF H
  <2>2. Min(H) = 1
    BY <2>1, MinIs
  <2> QED
    BY <1>1, <1>2, <2>1, <2>2 DEF Nearest, all, H
<1>3. CASE ~Gives(shape, t, f)
  <2>1. \A i \in 1..Len(rest) : i + 1 \in H <=> i \in K
    BY <1>1, SMTT(30)
  <2>2. K \subseteq 1..Len(rest) /\ H \subseteq 2..(Len(rest) + 1)
    BY <1>1, <1>3, SMTT(30)
  <2> HIDE DEF H, K
  <2>3. CASE K = {}
    <3>1. H = {}
      BY <1>1, <2>1, <2>2, <2>3, SMTT(30)
    <3> QED
      BY <1>3, <2>3, <3>1 DEF Nearest, all, H, K
  <2>4. CASE K # {}
    <3>1. PICK m \in K : \A y \in K : m <= y
      <4>1. \A y \in K : y = 1 \/ y = 2
        BY <1>1, <2>2, SMTT(30)
      <4>2. CASE 1 \in K
        BY <4>1, <4>2, SMTT(30)
      <4>3. CASE 1 \notin K
        <5>1. 2 \in K /\ \A y \in K : y = 2
          BY <2>4, <4>1, <4>3
        <5> QED
          BY <5>1, SMTT(30)
      <4> QED
        BY <4>2, <4>3
    <3>2. m + 1 \in H /\ \A y \in H : m + 1 <= y
      BY <1>1, <2>1, <2>2, <3>1, SMTT(30)
    <3>3. K \in SUBSET Nat /\ H \in SUBSET Nat
      BY <2>2, SMTT(30)
    <3>4. Min(K) = m /\ Min(H) = m + 1
      BY <3>1, <3>2, <3>3, MinIs
    <3>5. all[m + 1] = rest[m]
      BY <1>1, <2>2, <3>1
    <3> QED
      BY <1>3, <2>4, <3>2, <3>4, <3>5 DEF Nearest, all, H, K
  <2> QED
    BY <2>3, <2>4
<1> QED
  BY <1>2, <1>3

\* A table that is there or not, as a document has one at every place.
Optional(t) == t = <<>> \/ t = <<t[1]>>
Says(shape, t, f) == t # <<>> /\ Gives(shape, t[1], f)

\* The nearest of three layers, each of them there or not.
LEMMA NearestOfThree ==
    ASSUME NEW a, NEW b, NEW c, Optional(a), Optional(b), Optional(c), NEW shape, NEW f
    PROVE  /\ Nearest(shape, a \o b \o c, f)
                 = IF Says(shape, a, f) THEN <<a[1][f]>>
                   ELSE IF Says(shape, b, f) THEN <<b[1][f]>>
                   ELSE IF Says(shape, c, f) THEN <<c[1][f]>> ELSE <<>>
           /\ a \o b \o c = <<>> <=> a = <<>> /\ b = <<>> /\ c = <<>>
<1> DEFINE S == {a[1], b[1], c[1]}
<1>1. ASSUME NEW t \in {a, b, c} PROVE t \in Seq(S) /\ Len(t) \in 0..1
  <2>1. CASE t = <<>>
    BY <2>1, SMTT(30)
  <2>2. CASE t = <<t[1]>>
    <3>1. PICK x \in S : t = <<x>>
      BY <2>2
    <3> QED
      BY <3>1, SMTT(30)
  <2> QED
    BY <2>1, <2>2 DEF Optional
<1> HIDE DEF S
<1>2. ASSUME NEW t, Optional(t), t[1] \in S, NEW rest \in Seq(S), Len(rest) <= 2
      PROVE  Nearest(shape, t \o rest, f)
                 = IF Says(shape, t, f) THEN <<t[1][f]>> ELSE Nearest(shape, rest, f)
  <2>1. CASE t = <<>>
    <3>1. t \o rest = rest
      BY <1>2, <2>1, SMTT(30)
    <3> QED
      BY <2>1, <3>1 DEF Says
  <2>2. CASE t = <<t[1]>>
    <3>1. PICK x \in S : t = <<x>>
      BY <1>2, <2>2
    <3>2. t # <<>> /\ t[1] = x
      BY <3>1
    <3>3. Nearest(shape, <<x>> \o rest, f)
             = IF Gives(shape, x, f) THEN <<x[f]>> ELSE Nearest(shape, rest, f)
      BY <1>2, NearestOwn, SMTT(30)
    <3> QED
      BY <3>1, <3>2, <3>3 DEF Says
  <2> QED
    BY <1>2, <2>1, <2>2 DEF Optional
<1>3. a[1] \in S /\ b[1] \in S /\ c[1] \in S
  BY DEF S
<1>4. /\ b \o c \in Seq(S) /\ Len(b \o c) <= 2 /\ a \o b \o c = a \o (b \o c)
      /\ b \o c = <<>> <=> b = <<>> /\ c = <<>>
      /\ a \o (b \o c) = <<>> <=> a = <<>> /\ b \o c = <<>>
      /\ c \o <<>> = c /\ <<>> \in Seq(S) /\ Len(<<>>) <= 2 /\ Len(c) <= 2
  <2>1. b \o c \in Seq(S) /\ Len(b \o c) = Len(b) + Len(c)
    BY <1>1, SMTT(30)
  <2>2. a \o b \o c = a \o (b \o c)
    BY <1>1, SMTT(30)
  <2>3. \A t, u \in Seq(S) : t \o u = <<>> <=> t = <<>> /\ u = <<>>
    BY SMTT(30)
  <2>4. c \o <<>> = c /\ <<>> \in Seq(S) /\ Len(<<>>) = 0
    BY <1>1, SMTT(30)
  <2> QED
    BY <1>1, <2>1, <2>2, <2>3, <2>4, SMTT(30)
<1>5. Nearest(shape, c, f) = IF Says(shape, c, f) THEN <<c[1][f]>> ELSE <<>>
  BY <1>2, <1>3, <1>4, NearestNone
<1>6. Nearest(shape, b \o c, f) = IF Says(shape, b, f) THEN <<b[1][f]>> ELSE Nearest(shape, c, f)
  BY <1>1, <1>2, <1>3, <1>4
<1>7. Nearest(shape, a \o (b \o c), f)
         = IF Says(shape, a, f) THEN <<a[1][f]>> ELSE Nearest(shape, b \o c, f)
  BY <1>2, <1>3, <1>4
<1> QED
  BY <1>4, <1>5, <1>6, <1>7

\* A setting takes the value of the nearest layer (merge_*_layers).
LEMMA ResolveNearest ==
    ASSUME NEW shape, NEW layers, NEW f
    PROVE  Resolve(shape, layers, f)
               = IF Nearest(shape, layers, f) # <<>> THEN Nearest(shape, layers, f)[1]
                 ELSE IF f \in Required(shape) THEN Unset ELSE Default(f)
<1> DEFINE hits == {i \in DOMAIN layers : Gives(shape, layers[i], f)}
<1>1. <<layers[Min(hits)][f]>> # <<>> /\ <<layers[Min(hits)][f]>>[1] = layers[Min(hits)][f]
  OBVIOUS
<1> QED
  BY <1>1 DEF Resolve, Nearest

\* So does the `enabled` switch of a table.
LEMMA EnabledNearest ==
    ASSUME NEW layers
    PROVE  Enabled("multi", layers)
               <=> layers # <<>> /\ Nearest("multi", layers, "enabled") \in {<<>>, <<"on">>}
<1> DEFINE says == {i \in DOMAIN layers : "enabled" \in DOMAIN layers[i]}
<1>1. "enabled" \notin NonBlank
  BY DEF NonBlank
<1>2. says = {i \in DOMAIN layers : Gives("multi", layers[i], "enabled")}
  BY <1>1 DEF Gives
<1> DEFINE v == layers[Min(says)]["enabled"]
<1>3. Nearest("multi", layers, "enabled") = IF says # {} THEN <<v>> ELSE <<>>
  BY <1>2 DEF Nearest
<1>4. Enabled("multi", layers) <=> layers # <<>> /\ (says = {} \/ v = "on")
  BY DEF Enabled
<1> HIDE DEF says, v
<1> QED
  BY <1>3, <1>4, SMTT(30)

\* Two tables that say the same of f.
Alike(t, u, f) ==
    /\ Optional(t) /\ Optional(u)
    /\ Says("multi", t, f) <=> Says("multi", u, f)
    /\ Says("multi", t, f) => u[1][f] = t[1][f]

\* Alike tables, layer by layer, give the same nearest value.
LEMMA NearestAlike ==
    ASSUME NEW a1, NEW b1, NEW c1, NEW a2, NEW b2, NEW c2, NEW f,
           Alike(a1, a2, f), Alike(b1, b2, f), Alike(c1, c2, f)
    PROVE  Nearest("multi", a2 \o b2 \o c2, f) = Nearest("multi", a1 \o b1 \o c1, f)
<1>1. Nearest("multi", a1 \o b1 \o c1, f)
        = IF Says("multi", a1, f) THEN <<a1[1][f]>>
          ELSE IF Says("multi", b1, f) THEN <<b1[1][f]>>
          ELSE IF Says("multi", c1, f) THEN <<c1[1][f]>> ELSE <<>>
  BY NearestOfThree, SMTT(30) DEF Alike
<1>2. Nearest("multi", a2 \o b2 \o c2, f)
        = IF Says("multi", a2, f) THEN <<a2[1][f]>>
          ELSE IF Says("multi", b2, f) THEN <<b2[1][f]>>
          ELSE IF Says("multi", c2, f) THEN <<c2[1][f]>> ELSE <<>>
  BY NearestOfThree, SMTT(30) DEF Alike
<1> QED
  BY <1>1, <1>2, SMTT(30) DEF Alike

\* An edit leaves alike what it does not edit.
LEMMA AlikeAfterEdit ==
    ASSUME DocumentOK(doc), NEW pl, Rewrites(pl), NEW q \in Place, NEW f,
           q # pl \/ f \notin Differing(Content(pl), Content(pl)')
    PROVE  Alike(doc.tables[q], doc'.tables[q], f)
<1>1. Optional(doc.tables[q]) /\ Optional(doc'.tables[q])
  BY EditKeepsDocument DEF DocumentOK, Optional
<1>2. CASE q # pl
  BY <1>1, <1>2, EditKeepsDocument, SMTT(30) DEF Alike
<1>3. CASE q = pl /\ f \notin Differing(Content(pl), Content(pl)')
  <2>0. DOMAIN <<>> = {}
    BY SMTT(30)
  <2>1. Content(pl) = IF doc.tables[pl] = <<>> THEN <<>> ELSE doc.tables[pl][1]
    BY DEF Content
  <2>2. Content(pl)' = IF doc'.tables[pl] = <<>> THEN <<>> ELSE doc'.tables[pl][1]
    BY DEF Content
  <2>3. /\ f \in DOMAIN Content(pl) <=> f \in DOMAIN (Content(pl)')
        /\ f \in DOMAIN Content(pl) => Content(pl)[f] = (Content(pl)')[f]
    BY <1>3 DEF Differing
  <2>4. /\ Says("multi", doc.tables[pl], f) <=> f \in DOMAIN Content(pl) /\ (f \in NonBlank => Content(pl)[f] # Blank)
        /\ Says("multi", doc.tables[pl], f) => doc.tables[pl][1][f] = Content(pl)[f]
    BY <2>0, <2>1 DEF Says, Gives
  <2>5. /\ Says("multi", doc'.tables[pl], f) <=> f \in DOMAIN (Content(pl)') /\ (f \in NonBlank => (Content(pl)')[f] # Blank)
        /\ Says("multi", doc'.tables[pl], f) => doc'.tables[pl][1][f] = (Content(pl)')[f]
    BY <2>0, <2>2 DEF Says, Gives
  <2> QED
    BY <1>1, <1>3, <2>3, <2>4, <2>5 DEF Alike
<1> QED
  BY <1>2, <1>3

\* What part s of path p of route r is made from, in the document d.
Overridden(d, r, o) == WithOverrides(ExpandClientRoute(d, r), o).settings
From(d, o, r, p, s) ==
    CASE s = "oauth" -> MergeOAuth(d, r)
      [] s = "acme" -> MergeAcme(d, r)
      [] s = "authorization" -> MergeAuthorization(d, r, p)
      [] s = "plain" -> IF p = 0 THEN <<Overridden(d, r, o), Rule(d, r, 0).settings>>
                        ELSE <<Rule(d, r, p).settings>>

\* What is loaded of a part is what it is made from (expand_client_route).
LEMMA PartFrom ==
    ASSUME NEW d, d.shape = "multi", NEW o, NEW r \in Route, NEW p \in 0..Paths[r],
           NEW s \in Sections(<<r, p>>), NEW c,
           c = WithOverrides(ExpandClientRoute(d, r), o)
    PROVE  Part(c, p, s) = From(d, o, r, p, s)
<1>1. 0 \in 0..Paths[r]
  BY ConfigAssumption, SMTT(30) DEF Route
<1>2. /\ c.oauth = MergeOAuth(d, r) /\ c.acme = MergeAcme(d, r)
      /\ c.authorization = MergeAuthorization(d, r, 0)
      /\ c.rules = [q \in 0..Paths[r] |-> Rule(d, r, q)]
      /\ c.settings = Overridden(d, r, o)
  BY DEF WithOverrides, ExpandClientRoute, Overridden, RuleIds
<1>3. \A q \in 0..Paths[r] : c.rules[q] = Rule(d, r, q)
  BY <1>2
<1>4. p # 0 => Rule(d, r, p).authorization = MergeAuthorization(d, r, p)
  BY DEF Rule
<1>5. s \in {"plain", "oauth", "acme", "authorization"}
  BY DEF Sections
<1> QED
  BY <1>1, <1>2, <1>3, <1>4, <1>5 DEF Part, From

\* Two documents from which path p of route r takes the same value of f, in
\* section s.
SameValue(d, e, r, p, s, f) ==
    /\ Nearest("multi", Layers(e, r, p, s), f) = Nearest("multi", Layers(d, r, p, s), f)
    /\ Nearest("multi", e.tables[<<r, p, s>>], f) = Nearest("multi", d.tables[<<r, p, s>>], f)

\* Then every table made of the part has that value too.
LEMMA ValueFrom ==
    ASSUME NEW d, NEW e, d.shape = "multi", e.shape = "multi", NEW o, NEW r, NEW p,
           NEW s \in {"plain", "oauth", "acme", "authorization"}, s \in {"oauth", "acme"} => p = 0,
           NEW f, SameValue(d, e, r, p, s, f),
           NEW i \in DOMAIN From(d, o, r, p, s) \cap DOMAIN From(e, o, r, p, s)
    PROVE  f \notin Differing(From(d, o, r, p, s)[i], From(e, o, r, p, s)[i])
<1> DEFINE was == From(d, o, r, p, s)[i]
           is == From(e, o, r, p, s)[i]
           L(x) == Layers(x, r, p, s)
<1>1. Resolve("multi", L(e), f) = Resolve("multi", L(d), f)
  BY ResolveNearest DEF SameValue
<1>2. Resolve("multi", e.tables[<<r, p, s>>], f) = Resolve("multi", d.tables[<<r, p, s>>], f)
  BY ResolveNearest DEF SameValue
<1>3. ASSUME NEW fields, was = Merged("multi", L(d), fields), is = Merged("multi", L(e), fields)
      PROVE  f \notin Differing(was, is)
  BY <1>1, <1>3, SMTT(30) DEF Merged, Differing
<1>4. CASE s = "oauth"
  <2>1. was = Merged("multi", L(d), OAuthFields) /\ is = Merged("multi", L(e), OAuthFields)
    BY <1>4, SMTT(30) DEF From, MergeOAuth
  <2> QED
    BY <1>3, <2>1
<1>5. CASE s = "acme"
  <2>1. was = Merged("multi", L(d), AcmeFields) /\ is = Merged("multi", L(e), AcmeFields)
    BY <1>5, SMTT(30) DEF From, MergeAcme
  <2> QED
    BY <1>3, <2>1
<1>6. CASE s = "authorization"
  <2>1. was = Merged("multi", L(d), AuthFields) /\ is = Merged("multi", L(e), AuthFields)
    BY <1>6, SMTT(30) DEF From, MergeAuthorization
  <2> QED
    BY <1>3, <2>1
<1>7. CASE s = "plain" /\ p = 0
  <2>1. CASE i = 1
    <3>1. /\ was = [g \in RouteFields |-> IF g \notin DOMAIN o
                      THEN Merged("multi", L(d), RouteFields)[g]
                      ELSE IF g = "nats_token_file" /\ o[g] = Blank THEN Unset ELSE o[g]]
          /\ is = [g \in RouteFields |-> IF g \notin DOMAIN o
                      THEN Merged("multi", L(e), RouteFields)[g]
                      ELSE IF g = "nats_token_file" /\ o[g] = Blank THEN Unset ELSE o[g]]
      <4>1. was = Overridden(d, r, o) /\ is = Overridden(e, r, o)
        BY <1>7, <2>1 DEF From
      <4> HIDE DEF was, is
      <4> QED
        BY <1>7, <4>1 DEF Overridden, WithOverrides, ExpandClientRoute
    <3> HIDE DEF was, is, L
    <3>2. f \in RouteFields => Merged("multi", L(d), RouteFields)[f] = Merged("multi", L(e), RouteFields)[f]
      BY <1>1 DEF Merged
    <3>3. DOMAIN was = DOMAIN is /\ (f \in DOMAIN was => was[f] = is[f])
      BY <3>1, <3>2
    <3>4. f \notin Differing(was, is)
      BY <3>3 DEF Differing
    <3> QED
      BY <3>4 DEF was, is
  <2>2. CASE i = 2
    <3>1. was = Rule(d, r, 0).settings /\ is = Rule(e, r, 0).settings
      BY <1>7, <2>2 DEF From
    <3> DEFINE M(x) == [g \in RuleFields |-> Resolve("multi",
                           IF g \in {"path_prefix", "strip_path_prefix"} THEN <<>> ELSE L(x), g)]
    <3>2. was = M(d) /\ is = M(e)
      BY <1>7, <3>1 DEF Rule, RuleLayers
    <3> HIDE DEF was, is, L
    <3>3. DOMAIN was = DOMAIN is /\ (f \in DOMAIN was => was[f] = is[f])
      BY <1>1, <3>2
    <3>4. f \notin Differing(was, is)
      BY <3>3 DEF Differing
    <3> QED
      BY <3>4 DEF was, is
  <2>3. i \in {1, 2}
    BY <1>7, SMTT(30) DEF From
  <2> QED
    BY <2>1, <2>2, <2>3
<1>8. CASE s = "plain" /\ p # 0
  <2> DEFINE Own(x, g) == IF g = "proxy_headers" THEN L(x)
                          ELSE IF g = "http_backend_addr" THEN <<>>
                          ELSE x.tables[<<r, p, s>>]
  <2>1. was = Rule(d, r, p).settings /\ is = Rule(e, r, p).settings
    BY <1>8, SMTT(30) DEF From
  <2>2. was = [g \in RuleFields |-> Resolve("multi", Own(d, g), g)]
    BY <1>8, <2>1 DEF Rule, RuleLayers
  <2>3. is = [g \in RuleFields |-> Resolve("multi", Own(e, g), g)]
    BY <1>8, <2>1 DEF Rule, RuleLayers
  <2> HIDE DEF was, is, L
  <2>4. DOMAIN was = DOMAIN is /\ (f \in DOMAIN was => was[f] = is[f])
    BY <1>1, <1>2, <2>2, <2>3
  <2>5. f \notin Differing(was, is)
    BY <2>4 DEF Differing
  <2> QED
    BY <2>5 DEF was, is
<1> QED
  BY <1>4, <1>5, <1>6, <1>7, <1>8

\* A node other than the defaults is a route or one of its paths.
LEMMA NodeParts ==
    ASSUME NEW n \in Nodes \ {<<0, 0>>}
    PROVE  n[1] \in Route /\ n[2] \in 0..Paths[n[1]] /\ n = <<n[1], n[2]>>
<1> DEFINE Of(q) == {<<q, t>> : t \in 0..Paths[q]}
<1>1. PICK q \in Route : n \in Of(q)
  BY DEF Nodes
<1> QED
  BY <1>1, SMTT(30)

\* The section of a place is one its node has.
LEMMA SectionOf ==
    ASSUME NEW n \in Nodes, NEW s, <<n[1], n[2], s>> \in Place
    PROVE  s \in Sections(n)
<1> DEFINE At(m) == {<<m[1], m[2], t>> : t \in Sections(m)}
<1>1. PICK m \in Nodes : <<n[1], n[2], s>> \in At(m)
  BY DEF Place
<1>2. PICK t \in Sections(m) : <<n[1], n[2], s>> = <<m[1], m[2], t>>
  BY <1>1
<1>3. n[2] = m[2] /\ s = t
  BY <1>2
<1> QED
  BY <1>3 DEF Sections

\* An edit of another section, or of other settings, changes no value of f.
LEMMA SameAfterEdit ==
    ASSUME DocumentOK(doc), doc.shape = "multi", NEW pl, Rewrites(pl),
           NEW r \in Route, NEW p \in 0..Paths[r], NEW s \in Sections(<<r, p>>), NEW f,
           s # pl[3] \/ f \notin Differing(Content(pl), Content(pl)')
    PROVE  SameValue(doc, doc', r, p, s, f)
<1>1. <<r, p, s>> \in Place /\ <<r, 0, s>> \in Place /\ <<0, 0, s>> \in Place
  BY RoutePlaces DEF Sections
<1>2. /\ Alike(doc.tables[<<r, p, s>>], doc'.tables[<<r, p, s>>], f)
      /\ Alike(doc.tables[<<r, 0, s>>], doc'.tables[<<r, 0, s>>], f)
      /\ Alike(doc.tables[<<0, 0, s>>], doc'.tables[<<0, 0, s>>], f)
  <2>1. \A q \in {<<r, p, s>>, <<r, 0, s>>, <<0, 0, s>>} : q[3] = s
    BY SMTT(30)
  <2>2. \A q \in {<<r, p, s>>, <<r, 0, s>>, <<0, 0, s>>} :
           q # pl \/ f \notin Differing(Content(pl), Content(pl)')
    BY <2>1
  <2> QED
    BY <1>1, <2>2, AlikeAfterEdit
<1> DEFINE none == <<>>
           parent(d) == IF p = 0 THEN none ELSE d.tables[<<r, 0, s>>]
<1>3. Alike(none, none, f)
  BY DEF Alike, Optional, Says
<1>4. Alike(parent(doc), parent(doc'), f)
  BY <1>2, <1>3
<1>5. doc'.shape = "multi"
  BY EditKeepsDocument
<1>6. /\ Layers(doc, r, p, s) = doc.tables[<<r, p, s>>] \o parent(doc) \o doc.tables[<<0, 0, s>>]
      /\ Layers(doc', r, p, s) = doc'.tables[<<r, p, s>>] \o parent(doc') \o doc'.tables[<<0, 0, s>>]
  BY <1>5 DEF Layers
<1>8. ASSUME NEW t, Optional(t) PROVE t \o none \o none = t
  BY <1>8, SMTT(30) DEF Optional
<1> HIDE DEF parent, none
<1>7. Nearest("multi", Layers(doc', r, p, s), f) = Nearest("multi", Layers(doc, r, p, s), f)
  BY <1>2, <1>4, <1>6, NearestAlike, SMTT(30)
<1>9. Nearest("multi", doc'.tables[<<r, p, s>>], f) = Nearest("multi", doc.tables[<<r, p, s>>], f)
  <2>1. Nearest("multi", doc'.tables[<<r, p, s>>] \o none \o none, f)
           = Nearest("multi", doc.tables[<<r, p, s>>] \o none \o none, f)
    BY <1>2, <1>3, NearestAlike, SMTT(30)
  <2> QED
    BY <1>2, <1>8, <2>1 DEF Alike
<1> QED
  BY <1>7, <1>9 DEF SameValue

\* What a route and its paths load, before and after an edit.
LEMMA PartsLoaded ==
    ASSUME ConfigInv, doc.shape = "multi", NEW pl, Rewrites(pl), BothLoad,
           NEW n \in Nodes \ {<<0, 0>>}, NEW s \in Sections(n)
    PROVE  /\ Part(loaded[n[1]], n[2], s) = From(doc, over, n[1], n[2], s)
           /\ Part(loaded'[n[1]], n[2], s) = From(doc', over, n[1], n[2], s)
<1>1. n[1] \in Route /\ n[2] \in 0..Paths[n[1]] /\ s \in Sections(<<n[1], n[2]>>)
  BY NodeParts
<1>2. n[1] \in DOMAIN loaded
  BY <1>1, BothLoaded
<1>3. /\ loaded[n[1]] = WithOverrides(ExpandClientRoute(doc, n[1]), over)
      /\ loaded'[n[1]] = WithOverrides(ExpandClientRoute(doc', n[1]), over)
  BY <1>2, BothLoaded
<1>4. doc'.shape = "multi"
  BY EditKeepsDocument DEF ConfigInv
<1> QED
  BY <1>1, <1>3, <1>4, PartFrom

\* An edit changes the edited settings and nothing else at every place that
\* inherits them (the layers of merge_*_layers, setting by setting).
THEOREM EditsLocal == ConfigSpec => OnlyEditedSettings
<1>1. ASSUME ConfigInv, [ConfigNext]_configVars, BothLoad, doc.shape = "multi",
             NEW pl \in Edited, NEW n \in Nodes \ {<<0, 0>>}, NEW s \in Sections(n),
             NEW i \in DOMAIN Part(loaded[n[1]], n[2], s) \cap DOMAIN Part(loaded'[n[1]], n[2], s)
      PROVE  Differing(Part(loaded[n[1]], n[2], s)[i], Part(loaded'[n[1]], n[2], s)[i])
                 \subseteq IF s = pl[3] THEN Differing(Content(pl), Content(pl)') ELSE {}
  <2>1. pl \in Place /\ Rewrites(pl)
    BY <1>1, EditedPlace
  <2>2. DocumentOK(doc) /\ doc'.shape = "multi"
    BY <1>1, <2>1, EditKeepsDocument DEF ConfigInv
  <2>3. /\ Part(loaded[n[1]], n[2], s) = From(doc, over, n[1], n[2], s)
        /\ Part(loaded'[n[1]], n[2], s) = From(doc', over, n[1], n[2], s)
    BY <1>1, <2>1, PartsLoaded
  <2>4. /\ n[1] \in Route /\ n[2] \in 0..Paths[n[1]] /\ s \in Sections(<<n[1], n[2]>>)
    BY NodeParts
  <2>5. /\ s \in {"plain", "oauth", "acme", "authorization"}
        /\ s \in {"oauth", "acme"} => n[2] = 0
    BY DEF Sections
  <2>6. ASSUME NEW f, s # pl[3] \/ f \notin Differing(Content(pl), Content(pl)')
        PROVE  f \notin Differing(From(doc, over, n[1], n[2], s)[i],
                                  From(doc', over, n[1], n[2], s)[i])
    <3>1. SameValue(doc, doc', n[1], n[2], s, f)
      BY <1>1, <2>1, <2>2, <2>4, <2>6, SameAfterEdit
    <3>2. i \in DOMAIN From(doc, over, n[1], n[2], s) \cap DOMAIN From(doc', over, n[1], n[2], s)
      BY <2>3
    <3> QED
      BY <1>1, <2>2, <2>5, <3>1, <3>2, ValueFrom
  <2> QED
    BY <2>3, <2>6
<1>2. ConfigInv /\ [ConfigNext]_configVars =>
        [BothLoad /\ doc.shape = "multi" => \A pl \in Edited :
            \A n \in Nodes \ {<<0, 0>>} : \A s \in Sections(n) :
                LET before == Part(loaded[n[1]], n[2], s)
                    after == Part(loaded'[n[1]], n[2], s)
                IN \A i \in DOMAIN before \cap DOMAIN after :
                       Differing(before[i], after[i]) \subseteq
                           IF s = pl[3] THEN Differing(Content(pl), Content(pl)')
                           ELSE {}]_configVars
  BY <1>1
<1> QED
  BY <1>2, ConfigInvariant, PTL DEF ConfigSpec, OnlyEditedSettings

\* What is made of a part when every value and the presence of a layer stay.
LEMMA SamePart ==
    ASSUME NEW d, NEW e, d.shape = "multi", e.shape = "multi", NEW o, NEW r, NEW p,
           NEW s \in {"plain", "oauth", "acme", "authorization"}, s \in {"oauth", "acme"} => p = 0,
           \A f : SameValue(d, e, r, p, s, f),
           Layers(d, r, p, s) = <<>> <=> Layers(e, r, p, s) = <<>>
    PROVE  From(e, o, r, p, s) = From(d, o, r, p, s)
<1> DEFINE L(x) == Layers(x, r, p, s)
<1>1. \A f : Resolve("multi", L(e), f) = Resolve("multi", L(d), f)
  BY ResolveNearest DEF SameValue
<1>2. \A f : Resolve("multi", e.tables[<<r, p, s>>], f) = Resolve("multi", d.tables[<<r, p, s>>], f)
  BY ResolveNearest DEF SameValue
<1>3. Enabled("multi", L(e)) <=> Enabled("multi", L(d))
  BY EnabledNearest DEF SameValue
<1> HIDE DEF L
<1>4. \A fields : Merged("multi", L(e), fields) = Merged("multi", L(d), fields)
  BY <1>1 DEF Merged
<1>5. CASE s = "oauth"
  BY <1>4, <1>5 DEF From, MergeOAuth, L
<1>6. CASE s = "acme"
  BY <1>3, <1>4, <1>6 DEF From, MergeAcme, L
<1>7. CASE s = "authorization"
  BY <1>3, <1>4, <1>7 DEF From, MergeAuthorization, L
<1>8. CASE s = "plain"
  <2>1. ASSUME p = 0 PROVE Overridden(e, r, o) = Overridden(d, r, o)
    <3>1. /\ ExpandClientRoute(e, r).settings = Merged("multi", L(e), RouteFields)
          /\ ExpandClientRoute(d, r).settings = Merged("multi", L(d), RouteFields)
      BY <1>8, <2>1 DEF ExpandClientRoute, L
    <3>2. ExpandClientRoute(e, r).settings = ExpandClientRoute(d, r).settings
      BY <1>4, <3>1
    <3>3. \A x : WithOverrides(ExpandClientRoute(x, r), o).settings
                   = [f \in RouteFields |-> IF f \notin DOMAIN o THEN ExpandClientRoute(x, r).settings[f]
                        ELSE IF f = "nats_token_file" /\ o[f] = Blank THEN Unset ELSE o[f]]
      BY DEF WithOverrides, ExpandClientRoute
    <3> DEFINE w(c) == [f \in RouteFields |-> IF f \notin DOMAIN o THEN c[f]
                          ELSE IF f = "nats_token_file" /\ o[f] = Blank THEN Unset ELSE o[f]]
    <3>4. /\ Overridden(e, r, o) = w(ExpandClientRoute(e, r).settings)
          /\ Overridden(d, r, o) = w(ExpandClientRoute(d, r).settings)
      BY <3>3 DEF Overridden
    <3> HIDE DEF w
    <3> QED
      BY <3>2, <3>4
  <2>2. Rule(e, r, p).settings = Rule(d, r, p).settings
    <3> DEFINE Own(x, f) ==
                 IF p = 0 THEN IF f \in {"path_prefix", "strip_path_prefix"} THEN <<>> ELSE L(x)
                 ELSE IF f = "proxy_headers" THEN L(x)
                 ELSE IF f = "http_backend_addr" THEN <<>>
                 ELSE x.tables[<<r, p, s>>]
    <3>1. \A f : Resolve("multi", Own(e, f), f) = Resolve("multi", Own(d, f), f)
      BY <1>1, <1>2
    <3>2. /\ Rule(e, r, p).settings = [f \in RuleFields |-> Resolve("multi", Own(e, f), f)]
          /\ Rule(d, r, p).settings = [f \in RuleFields |-> Resolve("multi", Own(d, f), f)]
      BY <1>8 DEF Rule, RuleLayers, L
    <3> HIDE DEF Own
    <3> QED
      BY <3>1, <3>2, SMTT(30)
  <2> QED
    BY <1>8, <2>1, <2>2 DEF From
<1> QED
  BY <1>5, <1>6, <1>7, <1>8

\* While a nearer table gives a setting, no edit of it further out changes
\* what the nearer place loads (merge_*_layers: the first layer that gives it).
THEOREM NearestWins == ConfigSpec => ShadowedEditInert
<1>1. ASSUME ConfigInv, [ConfigNext]_configVars, BothLoad, doc.shape = "multi",
             NEW pl \in Edited, NEW n \in Nodes \ {<<0, 0>>},
             <<n[1], n[2], pl[3]>> \in Place \ {pl},
             doc.tables[<<n[1], n[2], pl[3]>>] # <<>>,
             \A f \in Differing(Content(pl), Content(pl)') :
                 Gives("multi", Content(<<n[1], n[2], pl[3]>>), f)
      PROVE  Part(loaded'[n[1]], n[2], pl[3]) = Part(loaded[n[1]], n[2], pl[3])
  <2> DEFINE r == n[1]
             p == n[2]
             s == pl[3]
             own == doc.tables[<<r, p, s>>]
  <2>1. pl \in Place /\ Rewrites(pl)
    BY <1>1, EditedPlace
  <2>2. DocumentOK(doc) /\ doc'.shape = "multi" /\ doc'.tables[<<r, p, s>>] = own
    BY <1>1, <2>1, EditKeepsDocument DEF ConfigInv
  <2>3. s \in Sections(n)
    BY <1>1, SectionOf
  <2>4. r \in Route /\ p \in 0..Paths[r] /\ s \in Sections(<<r, p>>)
    BY <2>3, NodeParts
  <2>5. s \in {"plain", "oauth", "acme", "authorization"} /\ (s \in {"oauth", "acme"} => p = 0)
    BY <2>3 DEF Sections
  <2>6. own # <<>> /\ own = <<own[1]>>
    BY <1>1, <2>2 DEF DocumentOK
  <2> DEFINE outer(d) == (IF p = 0 THEN <<>> ELSE d.tables[<<r, 0, s>>])
             further(d) == d.tables[<<0, 0, s>>]
  <2>7. /\ Layers(doc, r, p, s) = own \o outer(doc) \o further(doc)
        /\ Layers(doc', r, p, s) = own \o outer(doc') \o further(doc')
    BY <1>1, <2>2 DEF Layers
  <2>8. Optional(own) /\ \A d \in {doc, doc'} : Optional(outer(d)) /\ Optional(further(d))
    <3>1. <<r, 0, s>> \in Place /\ <<0, 0, s>> \in Place
      BY <2>4, <2>5, RoutePlaces
    <3>2. DocumentOK(doc')
      BY <2>1, <2>2, EditKeepsDocument
    <3> QED
      BY <2>2, <2>6, <3>1, <3>2 DEF DocumentOK, Optional
  <2> HIDE DEF own, outer, further
  <2>9. ASSUME NEW f PROVE SameValue(doc, doc', r, p, s, f)
    <3>1. CASE f \notin Differing(Content(pl), Content(pl)')
      BY <1>1, <2>1, <2>2, <2>4, <3>1, SameAfterEdit
    <3>2. CASE f \in Differing(Content(pl), Content(pl)')
      <4>1. Says("multi", own, f)
        BY <1>1, <2>6, <3>2 DEF Says, Content, own
      <4>2. \A d \in {doc, doc'} : Nearest("multi", own \o outer(d) \o further(d), f) = <<own[1][f]>>
        BY <2>8, <4>1, NearestOfThree, SMTT(30)
      <4> QED
        BY <2>2, <2>7, <4>2 DEF SameValue, own
    <3> QED
      BY <3>1, <3>2
  <2>10. Layers(doc, r, p, s) # <<>> /\ Layers(doc', r, p, s) # <<>>
    BY <2>6, <2>7, <2>8, NearestOfThree, SMTT(30)
  <2>11. From(doc', over, r, p, s) = From(doc, over, r, p, s)
    BY <1>1, <2>2, <2>5, <2>9, <2>10, SamePart, SMTT(30)
  <2> QED
    BY <1>1, <2>1, <2>3, <2>11, PartsLoaded
<1>2. ConfigInv /\ [ConfigNext]_configVars =>
        [BothLoad /\ doc.shape = "multi" => \A pl \in Edited :
            (doc.tables[pl] # <<>> /\ doc'.tables[pl] # <<>>) =>
            \A n \in Nodes \ {<<0, 0>>} :
                (/\ <<n[1], n[2], pl[3]>> \in Place \ {pl}
                 /\ pl[1] \in {0, n[1]} /\ pl[2] = 0
                 /\ doc.tables[<<n[1], n[2], pl[3]>>] # <<>>
                 /\ \A f \in Differing(Content(pl), Content(pl)') :
                        Gives("multi", Content(<<n[1], n[2], pl[3]>>), f))
                => Part(loaded'[n[1]], n[2], pl[3])
                       = Part(loaded[n[1]], n[2], pl[3])]_configVars
  BY <1>1
<1> QED
  BY <1>2, ConfigInvariant, PTL DEF ConfigSpec, ShadowedEditInert

\* Tables with the same switch are there, and say `enabled`, alike.
LEMMA SwitchAlike ==
    ASSUME NEW t, NEW u, Optional(t), Optional(u), Switch(t) = Switch(u)
    PROVE  Alike(t, u, "enabled") /\ (t = <<>> <=> u = <<>>)
<1>1. "enabled" \notin NonBlank
  BY DEF NonBlank
<1>2. t = <<>> <=> u = <<>>
  BY DEF Switch
<1>3. CASE t # <<>>
  <2>1. /\ "enabled" \in DOMAIN t[1] <=> "enabled" \in DOMAIN u[1]
        /\ "enabled" \in DOMAIN t[1] => t[1]["enabled"] = u[1]["enabled"]
    BY <1>2, <1>3 DEF Switch
  <2> QED
    BY <1>1, <1>2, <2>1 DEF Alike, Says, Gives
<1>4. CASE t = <<>>
  BY <1>2, <1>4 DEF Alike, Says
<1> QED
  BY <1>2, <1>3, <1>4

\* When the document gives a backend a policy: in the legacy shape by any
\* table, its own or the client's, in the other by the layers' switches.
Covered(d, r, p) ==
    IF d.shape = "legacy"
    THEN d.tables[<<r, p, "authorization">>] # <<>> \/ d.tables[<<r, 0, "authorization">>] # <<>>
    ELSE Enabled("multi", Layers(d, r, p, "authorization"))

\* The client's policy comes from the client's own table in the legacy shape.
LEMMA RoutePolicy ==
    ASSUME NEW d, d.shape \in {"legacy", "multi"}, NEW r
    PROVE  MergeAuthorization(d, r, 0) # <<>> <=> Covered(d, r, 0)
<1>1. MergeAuthorization(d, r, 0) # <<>> <=> Enabled(d.shape, Layers(d, r, 0, "authorization"))
  BY DEF MergeAuthorization
<1>2. d.shape = "legacy" => Layers(d, r, 0, "authorization") = d.tables[<<r, 0, "authorization">>]
  BY DEF Layers, Inherits
<1>3. d.shape = "legacy" =>
        (Enabled(d.shape, Layers(d, r, 0, "authorization"))
           <=> Layers(d, r, 0, "authorization") # <<>>)
  BY DEF Enabled
<1> QED
  BY <1>1, <1>2, <1>3 DEF Covered

\* Whether inherited when the document is parsed or taken over when a session
\* starts (process_messages), the policy is there just when the document gives
\* one.
LEMMA ProtectedWhenCovered ==
    ASSUME NEW d, d.shape \in {"legacy", "multi"}, NEW o, NEW r \in Route,
           NEW p \in RuleIds(d.shape, r), NEW c, c = WithOverrides(ExpandClientRoute(d, r), o),
           Complete(d.shape, ExpandClientRoute(d, r))
    PROVE  Protected(c, p) <=> Covered(d, r, p)
<1> DEFINE s == "authorization"
           rule == Rule(d, r, p)
<1>1. c.rules[p] = rule /\ c.authorization = MergeAuthorization(d, r, 0)
  BY DEF WithOverrides, ExpandClientRoute
<1>9. p # 0 /\ d.shape = "multi" => rule.settings.path_prefix # Unset
  BY DEF Complete, ExpandClientRoute
<1>2. rule.authorization = IF p = 0 THEN <<>> ELSE MergeAuthorization(d, r, p)
  BY DEF Rule
<1>3. rule.settings.path_prefix = Resolve(d.shape, RuleLayers(d, r, p, "path_prefix"), "path_prefix")
  BY DEF Rule, RuleFields
<1> HIDE DEF rule
<1>4. Protected(c, p) <=> \/ rule.authorization # <<>>
                          \/ rule.settings.path_prefix = Unset /\ MergeAuthorization(d, r, 0) # <<>>
  BY <1>1 DEF Protected, BackendPolicy
<1>5. MergeAuthorization(d, r, p) # <<>> <=> Enabled(d.shape, Layers(d, r, p, s))
  BY DEF MergeAuthorization
<1>6. CASE p = 0
  <2>1. RuleLayers(d, r, p, "path_prefix") = <<>>
    BY <1>6 DEF RuleLayers
  <2>2. Resolve(d.shape, <<>>, "path_prefix") = Unset
    <3>1. Nearest(d.shape, <<>>, "path_prefix") = <<>>
      BY NearestNone
    <3>2. "path_prefix" \notin Required(d.shape) /\ Default("path_prefix") = Unset
      BY DEF Required, Default
    <3> QED
      BY <3>1, <3>2, ResolveNearest
  <2> QED
    BY <1>2, <1>3, <1>4, <1>6, <2>1, <2>2, RoutePolicy, SMTT(30)
<1>7. CASE p # 0 /\ d.shape = "multi"
  <2>1. rule.authorization # <<>> <=> Covered(d, r, p)
    BY <1>2, <1>5, <1>7 DEF Covered
  <2> QED
    BY <1>4, <1>7, <1>9, <2>1
<1>8. CASE p # 0 /\ d.shape = "legacy"
  <2> DEFINE own == d.tables[<<r, p, s>>]
             client == d.tables[<<r, 0, s>>]
  <2>1. RuleLayers(d, r, p, "path_prefix") = d.tables[<<r, p, "plain">>]
    BY <1>8, SMTT(30) DEF RuleLayers
  <2>2. Inherits(d, r, p) <=> own = <<>> /\ rule.settings.path_prefix # Unset
    BY <1>3, <2>1 DEF Inherits
  <2>3. Layers(d, r, p, s) = IF Inherits(d, r, p) THEN client ELSE own
    BY <1>8 DEF Layers
  <2>4. MergeAuthorization(d, r, p) # <<>> <=> Layers(d, r, p, s) # <<>>
    BY <1>5, <1>8 DEF Enabled
  <2>5. MergeAuthorization(d, r, 0) # <<>> <=> client # <<>>
    BY <1>8, RoutePolicy, SMTT(30) DEF Covered
  <2>6. Covered(d, r, p) <=> own # <<>> \/ client # <<>>
    BY <1>8 DEF Covered
  <2> HIDE DEF own, client
  <2> QED
    BY <1>2, <1>4, <1>8, <2>2, <2>3, <2>4, <2>5, <2>6
<1> QED
  BY <1>6, <1>7, <1>8

\* So documents with the same switches have the same policies in force.
LEMMA CoveredBySwitch ==
    ASSUME NEW d, NEW e, DocumentOK(d), DocumentOK(e), d.shape = e.shape,
           NEW r \in Route, NEW p \in 0..Paths[r],
           \A q \in Place : q[3] = "authorization" => Switch(d.tables[q]) = Switch(e.tables[q])
    PROVE  Covered(d, r, p) <=> Covered(e, r, p)
<1> DEFINE s == "authorization"
           own(x) == x.tables[<<r, p, s>>]
           outer(x) == (IF p = 0 THEN <<>> ELSE x.tables[<<r, 0, s>>])
           further(x) == x.tables[<<0, 0, s>>]
<1>1. \A q \in {<<r, p, s>>, <<r, 0, s>>, <<0, 0, s>>} :
         /\ Alike(d.tables[q], e.tables[q], "enabled")
         /\ d.tables[q] = <<>> <=> e.tables[q] = <<>>
  <2>1. \A q \in {<<r, p, s>>, <<r, 0, s>>, <<0, 0, s>>} : q \in Place /\ q[3] = s
    <3>1. <<r, p, s>> \in Place /\ <<r, 0, s>> \in Place /\ <<0, 0, s>> \in Place
      BY RoutePlaces
    <3> QED
      BY <3>1, SMTT(30)
  <2>2. \A q \in Place : Optional(d.tables[q]) /\ Optional(e.tables[q])
    BY DEF DocumentOK, Optional
  <2> QED
    BY <2>1, <2>2, SwitchAlike
<1>2. Alike(<<>>, <<>>, "enabled")
  BY DEF Alike, Optional, Says
<1>3. /\ Alike(own(d), own(e), "enabled") /\ (own(d) = <<>> <=> own(e) = <<>>)
      /\ Alike(outer(d), outer(e), "enabled") /\ (outer(d) = <<>> <=> outer(e) = <<>>)
      /\ Alike(further(d), further(e), "enabled") /\ (further(d) = <<>> <=> further(e) = <<>>)
  BY <1>1, <1>2
<1>4. CASE d.shape = "legacy"
  BY <1>1, <1>4 DEF Covered
<1>5. CASE d.shape = "multi"
  <2>1. \A x \in {d, e} : Layers(x, r, p, s) = own(x) \o outer(x) \o further(x)
    BY <1>5 DEF Layers
  <2> HIDE DEF own, outer, further
  <2>2. Nearest("multi", Layers(e, r, p, s), "enabled") = Nearest("multi", Layers(d, r, p, s), "enabled")
    <3>1. Nearest("multi", own(e) \o outer(e) \o further(e), "enabled")
             = Nearest("multi", own(d) \o outer(d) \o further(d), "enabled")
      BY <1>3, NearestAlike, SMTT(30)
    <3> QED
      BY <2>1, <3>1
  <2>3. \A x \in {d, e} : Layers(x, r, p, s) = <<>> <=> own(x) = <<>> /\ outer(x) = <<>> /\ further(x) = <<>>
    BY <1>3, <2>1, NearestOfThree, SMTT(30) DEF Alike
  <2>4. Layers(d, r, p, s) = <<>> <=> Layers(e, r, p, s) = <<>>
    BY <1>3, <2>3
  <2> QED
    BY <1>5, <2>2, <2>4, EnabledNearest DEF Covered
<1> QED
  BY <1>4, <1>5 DEF DocumentOK

\* A backend gains or loses its policy only through an `enabled` switch or
\* the presence of an authorization table (merge_authorization_layers).
THEOREM PolicyBySwitch == ConfigSpec => ProtectionBySwitch
<1>1. ASSUME ConfigInv, [ConfigNext]_configVars, BothLoad,
             NEW r \in DOMAIN loaded, NEW p \in DOMAIN loaded[r].rules,
             Protected(loaded[r], p) # Protected(loaded'[r], p)
      PROVE  \E pl \in Edited : /\ pl[3] = "authorization"
                                /\ Switch(doc.tables[pl]) # Switch(doc'.tables[pl])
  <2>1. PICK w : Rewrites(w)
    <3>1. ConfigNext
      BY <1>1 DEF configVars
    <3> QED
      BY <3>1, EveryEdit
  <2>2. DocumentOK(doc) /\ DocumentOK(doc') /\ doc'.shape = doc.shape
    BY <1>1, <2>1, EditKeepsDocument DEF ConfigInv
  <2>3. /\ r \in Route
        /\ loaded[r] = WithOverrides(ExpandClientRoute(doc, r), over)
        /\ loaded'[r] = WithOverrides(ExpandClientRoute(doc', r), over)
        /\ Complete(doc.shape, ExpandClientRoute(doc, r))
        /\ Complete(doc'.shape, ExpandClientRoute(doc', r))
    BY <1>1, <2>1, BothLoaded
  <2>4. /\ Protected(loaded[r], p) <=> Covered(doc, r, p)
        /\ Protected(loaded'[r], p) <=> Covered(doc', r, p)
    <3>1. p \in RuleIds(doc.shape, r)
      BY <2>3 DEF WithOverrides, ExpandClientRoute
    <3>2. doc.shape \in {"legacy", "multi"}
      BY <2>2 DEF DocumentOK
    <3> QED
      BY <2>2, <2>3, <3>1, <3>2, ProtectedWhenCovered, SMTT(30)
  <2>5. ~\A q \in Place : q[3] = "authorization" => Switch(doc.tables[q]) = Switch(doc'.tables[q])
    <3>1. ~(Covered(doc, r, p) <=> Covered(doc', r, p))
      <4>1. \A c : Protected(c, p) \in BOOLEAN
        BY DEF Protected
      <4>2. ~(Protected(loaded[r], p) <=> Protected(loaded'[r], p))
        BY <1>1, <4>1
      <4> QED
        BY <2>4, <4>2
    <3>2. p \in 0..Paths[r]
      BY <2>3, RulesOf, SMTT(30) DEF WithOverrides, ExpandClientRoute
    <3> QED
      BY <2>2, <2>3, <3>1, <3>2, CoveredBySwitch
  <2> QED
    BY <2>5 DEF Edited
<1>2. ConfigInv /\ [ConfigNext]_configVars =>
        [BothLoad =>
            \A r \in DOMAIN loaded : \A p \in DOMAIN loaded[r].rules :
                Protected(loaded[r], p) # Protected(loaded'[r], p) =>
                    \E pl \in Edited :
                        /\ pl[3] = "authorization"
                        /\ Switch(doc.tables[pl]) # Switch(doc'.tables[pl])]_configVars
  BY <1>1
<1> QED
  BY <1>2, ConfigInvariant, PTL DEF ConfigSpec, ProtectionBySwitch

\* The policy of a route covers every backend of it but a path whose own
\* table switches it off (merge_authorization_layers, process_messages).
THEOREM RouteCoversPaths == ConfigSpec => []RouteProtectsPaths
<1>1. ConfigInv => RouteProtectsPaths
  <2> DEFINE s == "authorization"
             Off(r, p) == doc.shape = "multi" /\ p # 0 /\ SwitchedOff(doc.tables[<<r, p, s>>])
  <2> SUFFICES ASSUME ConfigInv, NEW r \in DOMAIN loaded, loaded[r].authorization # <<>>,
                      NEW p \in DOMAIN loaded[r].rules, ~Off(r, p)
               PROVE  Protected(loaded[r], p)
    BY DEF RouteProtectsPaths
  <2>1. /\ r \in Route /\ loaded[r] = WithOverrides(ExpandClientRoute(doc, r), over)
        /\ Complete(doc.shape, ExpandClientRoute(doc, r))
    BY LoadedRoute DEF ConfigInv
  <2>2. DocumentOK(doc) /\ doc.shape \in {"legacy", "multi"}
    BY DEF ConfigInv, DocumentOK
  <2>3. p \in RuleIds(doc.shape, r) /\ loaded[r].authorization = MergeAuthorization(doc, r, 0)
    BY <2>1 DEF WithOverrides, ExpandClientRoute
  <2>4. Covered(doc, r, 0)
    BY <2>2, <2>3, RoutePolicy, SMTT(30)
  <2>5. Covered(doc, r, p)
    <3>1. CASE doc.shape = "legacy"
      BY <2>4, <3>1 DEF Covered
    <3>2. CASE p = 0
      BY <2>4, <3>2
    <3>3. CASE doc.shape = "multi" /\ p # 0
      <4> DEFINE none == <<>>
                 own == doc.tables[<<r, p, s>>]
                 route == doc.tables[<<r, 0, s>>]
                 outer == doc.tables[<<0, 0, s>>]
      <4>1. Layers(doc, r, 0, s) = route \o none \o outer /\ Layers(doc, r, p, s) = own \o route \o outer
        BY <3>3 DEF Layers
      <4>2. Optional(own) /\ Optional(route) /\ Optional(outer) /\ Optional(none)
        <5>1. <<r, p, s>> \in Place /\ <<r, 0, s>> \in Place /\ <<0, 0, s>> \in Place
          BY <2>1, <2>3, RulesOf, RoutePlaces
        <5> QED
          BY <2>2, <5>1 DEF DocumentOK, Optional
      <4>3. "enabled" \notin NonBlank
        BY DEF NonBlank
      <4>4. Says("multi", own, "enabled") => own[1]["enabled"] = "on"
        BY <3>3, <4>3 DEF Says, Gives, SwitchedOff
      <4>5. ~Says("multi", none, "enabled")
        BY DEF Says
      <4> HIDE DEF own, route, outer, none
      <4> DEFINE far == Nearest("multi", route \o none \o outer, "enabled")
                 near == Nearest("multi", own \o route \o outer, "enabled")
      <4>6. route \o none \o outer # <<>> /\ far \in {<<>>, <<"on">>}
        BY <2>4, <3>3, <4>1, EnabledNearest DEF Covered
      <4>7. near = IF Says("multi", own, "enabled") THEN <<own[1]["enabled"]>> ELSE far
        <5>1. near = IF Says("multi", own, "enabled") THEN <<own[1]["enabled"]>>
                     ELSE IF Says("multi", route, "enabled") THEN <<route[1]["enabled"]>>
                     ELSE IF Says("multi", outer, "enabled") THEN <<outer[1]["enabled"]>> ELSE <<>>
          BY <4>2, NearestOfThree, SMTT(30)
        <5>2. far = IF Says("multi", route, "enabled") THEN <<route[1]["enabled"]>>
                    ELSE IF Says("multi", none, "enabled") THEN <<none[1]["enabled"]>>
                    ELSE IF Says("multi", outer, "enabled") THEN <<outer[1]["enabled"]>> ELSE <<>>
          BY <4>2, NearestOfThree, SMTT(30)
        <5> HIDE DEF near, far
        <5> QED
          BY <4>5, <5>1, <5>2
      <4>8. own \o route \o outer # <<>>
        BY <4>2, <4>6, NearestOfThree, SMTT(30) DEF none
      <4> HIDE DEF near, far
      <4>9. near \in {<<>>, <<"on">>}
        BY <4>4, <4>6, <4>7
      <4> QED
        BY <3>3, <4>1, <4>8, <4>9, EnabledNearest DEF Covered, near
    <3> QED
      BY <2>2, <3>1, <3>2, <3>3
  <2> QED
    BY <2>1, <2>2, <2>3, <2>5, ProtectedWhenCovered, SMTT(30)
<1> QED
  BY <1>1, ConfigInvariant, PTL
-----------------------------------------------------------------------------
INSTANCE FiniteSetTheorems

\* A set of two different elements has two.
LEMMA TwoElements ==
    ASSUME NEW a, NEW b, a # b
    PROVE  Cardinality({a, b}) = 2
<1>1. IsFiniteSet({a}) /\ Cardinality({a}) = 1
  BY FS_Singleton
<1>2. {a} \cup {b} = {a, b}
  OBVIOUS
<1> QED
  BY <1>1, <1>2, FS_AddElement, SMTT(30)

\* Every policy that is loaded can admit a caller by each method it switches
\* on (validate_authorization).
THEOREM PoliciesUsable == ConfigSpec => []PolicyUsable
<1>1. ConfigInv => PolicyUsable
  <2> SUFFICES ASSUME ConfigInv, NEW r \in DOMAIN loaded, NEW a \in Policies(loaded[r])
               PROVE  /\ \/ a.bearer # "off"
                         \/ a.oidc = "on"
                         \/ a.oidc = Unset /\ a.oidc_client_id \notin {Unset, Blank}
                      /\ a.bearer # "off" => a.audiences # Blank
                      /\ OidcEnabled(a) =>
                            /\ a.oidc_client_id \notin {Unset, Blank}
                            /\ Cardinality({a.oidc_callback_path, a.oidc_logout_path}
                                   \cap {"/_lfp/auth/callback", "/_lfp/auth/logout"}) = 2
    BY DEF PolicyUsable
  <2> DEFINE c == ExpandClientRoute(doc, r)
             ends == {a.oidc_callback_path, a.oidc_logout_path}
  <2>1. loaded[r] = WithOverrides(c, over) /\ ValidClientConfig(c)
    BY LoadedRoute DEF ConfigInv
  <2>2. Policies(loaded[r]) = Policies(c)
    <3>1. WithOverrides(c, over).rules = c.rules /\ WithOverrides(c, over).authorization = c.authorization
      BY OverridesKeep, SMTT(30)
    <3> HIDE DEF c
    <3> QED
      BY <2>1, <3>1, SamePolicies
  <2> HIDE DEF c
  <2>3. ValidAuthorization(a)
    BY <2>1, <2>2 DEF ValidClientConfig
  <2>4. ASSUME OidcEnabled(a)
        PROVE  Cardinality(ends \cap {"/_lfp/auth/callback", "/_lfp/auth/logout"}) = 2
    <3>1. /\ a.oidc_callback_path # a.oidc_logout_path
          /\ ends \cap {"/_lfp/auth/callback", "/_lfp/auth/logout"} = ends
      BY <2>3, <2>4 DEF ValidAuthorization, ReservedPath
    <3> QED
      BY <3>1, TwoElements
  <2> QED
    BY <2>3, <2>4 DEF ValidAuthorization, BearerEnabled, OidcEnabled
<1> QED
  BY <1>1, ConfigInvariant, PTL

\* client_id stays unique among the routes of a process, also under --client-id
\* (expand_client_routes, ClientCli::load).
THEOREM IdsUnique == ConfigSpec => []UniqueIds
<1>1. ConfigInv => UniqueIds
  <2> SUFFICES ASSUME ConfigInv PROVE UniqueIds
    OBVIOUS
  <2> DEFINE id == [r \in DOMAIN loaded |-> loaded[r].settings.client_id]
             ids == {loaded[r].settings.client_id : r \in DOMAIN loaded}
  <2>1. PICK n \in Nat : DOMAIN loaded = 1..n
    <3>1. CASE DOMAIN loaded = {}
      <4>1. DOMAIN loaded = 1..0
        BY <3>1, SMTT(30)
      <4> QED
        BY <4>1
    <3>2. ASSUME NEW r \in DOMAIN loaded PROVE \E n \in Nat : DOMAIN loaded = 1..n
      <4>1. DOMAIN loaded = 1..1 \/ DOMAIN loaded = Route
        BY LoadedRoute DEF ConfigInv
      <4>2. Route = 1..Len(Paths) /\ Len(Paths) \in Nat
        BY ConfigAssumption, SMTT(30) DEF Route
      <4> QED
        BY <4>1, <4>2
    <3> QED
      BY <3>1, <3>2
  <2>2. Len(loaded) = n
    <3>1. loaded = [r \in 1..n |-> loaded[r]]
      BY <2>1, SMTT(30) DEF ConfigInv, Load
    <3>2. Len([r \in 1..n |-> loaded[r]]) = n
      BY SMTT(30)
    <3> QED
      BY <3>1, <3>2
  <2>3. ASSUME NEW r \in 1..n, NEW q \in 1..n, id[r] = id[q] PROVE r = q
    <3>1. CASE DOMAIN loaded = 1..1
      <4>1. r \in 1..1 /\ q \in 1..1
        BY <2>1, <3>1
      <4> QED
        BY <4>1, SMTT(30)
    <3>2. CASE DOMAIN loaded # 1..1
      <4>1. doc.shape \in {"legacy", "multi"}
        BY DEF ConfigInv, DocumentOK
      <4>2. r \in Route /\ q \in Route
        BY <2>1, LoadedRoute DEF ConfigInv
      <4>3. /\ "client_id" \notin DOMAIN over
            /\ ExpandClientRoute(doc, r).settings.client_id
                  = ExpandClientRoute(doc, q).settings.client_id => r = q
        <5>1. r \in DOMAIN Load(doc, over) /\ DOMAIN Load(doc, over) # 1..1
          BY <2>1, <3>2 DEF ConfigInv
        <5> QED
          BY <4>1, <4>2, <5>1, ManyRoutes, SMTT(30)
      <4>4. \A p \in {r, q} : id[p] = WithOverrides(ExpandClientRoute(doc, p), over).settings.client_id
        BY <2>1, LoadedRoute DEF ConfigInv
      <4>5. ASSUME NEW p
            PROVE  WithOverrides(ExpandClientRoute(doc, p), over).settings.client_id
                       = ExpandClientRoute(doc, p).settings.client_id
        BY <4>3 DEF WithOverrides, RouteFields, ExpandClientRoute
      <4> QED
        BY <2>3, <4>3, <4>4, <4>5
    <3> QED
      BY <3>1, <3>2
  <2>4. IsFiniteSet(1..n) /\ Cardinality(1..n) = n
    BY FS_Interval, SMTT(30)
  <2>5. id \in Bijection(1..n, ids)
    BY <2>1, <2>3 DEF Bijection, Injection, Surjection, IsInjective
  <2>6. ExistsBijection(1..n, ids)
    BY <2>5 DEF ExistsBijection
  <2>7. Cardinality(ids) = n
    BY <2>4, <2>6, FS_Bijection
  <2> QED
    BY <2>2, <2>7 DEF UniqueIds
<1> QED
  BY <1>1, ConfigInvariant, PTL
====
