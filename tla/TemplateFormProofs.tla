--------------------------- MODULE TemplateFormProofs ---------------------------
(***************************************************************************)
(* Theorems of TemplateForm, for every choice of the kinds of resource and *)
(* every bound: what the user did not change survives the form and its     *)
(* editor.                                                                 *)
(***************************************************************************)
EXTENDS TemplateForm, TLAPS

(***************************************************************************)
(* The inductive invariant.                                                *)
(***************************************************************************)
(* The texts that can come to be stored or opened in the editor: those     *)
(* that are looked at, and those that the forms write.                     *)
TextsOf(f) ==
  CASE f = "limit" -> [mi : {0, 512, 1024}, unit : {"Gi", "Mi"}, request : Requests]
                        \cup [mi : {0, 1}, unit : {"bytes"}, request : Requests]
    [] f = "storage" -> [mi : {512, 1024}, unit : {"Gi", "Mi", "MiGi"}]
    [] OTHER -> Texts[f]

TextsIn(k) ==
  {t \in [Facets(k) -> UNION {TextsOf(f) : f \in Facets(k)}] :
     \A f \in Facets(k) : t[f] \in TextsOf(f)}

(* The text of what the form of kind k shows as w: Generated, per facet.   *)
TextOf(k, f, w) == IF f \in Forms[k].writes THEN Written(f, w) ELSE w

(* What the form shows of the text t, where it showed w: Opened, per facet. *)
Taken(k, f, t, w, arrived) ==
  IF (f = "clusters" /\ ~arrived) \/ (f = "rows" /\ k \in DataForms /\ ~t.has) THEN w
  ELSE IF f \in Forms[k].opens \/ (arrived /\ f \in Forms[k].arrives) THEN Shown(f, t)
  ELSE t

(* What a form can show of its own: a strategy, and one row at least, in   *)
(* the forms that need one.                                                *)
Fit(k, f, w) ==
  /\ w \in Displays[f]
  /\ f = "strategy" => w = "set"
  /\ f = "rows" /\ k \in DataForms => RowsOf(w).has

(* Shows, for the kind k.                                                  *)
ShowsIn(k, f, t) ==
  CASE f \in {"command", "hook"} -> \A i \in DOMAIN t : t[i] = 1
    [] f = "limit" -> t.mi = 0 \/ (t.unit # "bytes" /\ t.request = "own")
    [] f = "selector" -> t # "empty"
    [] f = "strategy" -> t # "absent"
    [] f = "rows" -> k \in DataForms => t.has
    [] f = "clusters" -> t \subseteq {"here"}
    [] OTHER -> TRUE

(* The text e says of the facet f what p does, if a form can show that.    *)
Survives(k, f, p, e) == ShowsIn(k, f, p) => Same(f, p, e)

(* Templates of the kind k.                                                *)
Templates(k) ==
  [text : TextsIn(k), broken : BOOLEAN, from : Nat, read : BOOLEAN, changed : SUBSET Facets(k)]

(* A template that a form of kind k has written, or is writing, where ts   *)
(* are stored: what it says can be shown, and what the user did not change *)
(* is as in the one that was read.                                         *)
WellWritten(k, ts, t) ==
  /\ t \in Templates(k)
  /\ t.from \in 0..Len(ts)
  /\ t.read => t.from # 0
  /\ t.from # 0 => t.read \/ ts[t.from].broken
  /\ \A f \in Facets(k) : ShowsIn(k, f, t.text[f])
  /\ t.read => \A f \in Facets(k) \ t.changed : Survives(k, f, ts[t.from].text[f], t.text[f])

StoredAreWell ==
  /\ stored \in Seq(Templates(kind)) /\ Len(stored) >= 1
  /\ stored[1].from = 0
  /\ \A i \in 2..Len(stored) : WellWritten(kind, stored, stored[i]) /\ stored[i].from < i

SavingAreWell == \A s \in saving : WellWritten(kind, stored, s.template)

(* Of the facets that the user did not change, the text t says what the    *)
(* template says that was read, if one was.                                *)
HasRead == page.at = "form" /\ page.of # 0 /\ page.state = "ready"
Faithful(t) ==
  HasRead => \A f \in Facets(kind) \ page.changed :
               Survives(kind, f, stored[page.of].text[f], t[f])

(* The form shows what fits, and, once the template was read, what that    *)
(* says; the editor as well.                                               *)
FormIsWell ==
  /\ form = [f \in Facets(kind) |-> form[f]]
  /\ \A f \in Facets(kind) : Fit(kind, f, form[f])
  /\ Faithful([f \in Facets(kind) |-> TextOf(kind, f, form[f])])
EditorIsWell ==
  /\ editor.open \in BOOLEAN
  /\ editor.open =>
       /\ page.at = "form" /\ page.state \in {"ready", "halfway"}
       /\ editor.text \in TextsIn(kind)
       /\ Faithful(editor.text)

(* The page, and the one save that its busy flag stands for.               *)
Pages(k, n, m) ==
  [at : {"list", "form"}, of : 0..n, opening : 0..m,
   state : {"waiting", "ready", "halfway", "failed"}, changed : SUBSET Facets(k),
   busy : BOOLEAN, thrown : BOOLEAN]
PageIsWell ==
  /\ page \in Pages(kind, Len(stored), openings)
  /\ page.at = "list" => page = List
  /\ page.at = "form" => page.opening # 0
  /\ page.state = "halfway" => page.of # 0 /\ stored[page.of].broken
  /\ page.thrown => page.busy
OneSave ==
  \A s \in saving : /\ s.opening \in 1..openings
                    /\ s.opening = page.opening => page.busy /\ ~page.thrown
                    /\ \A r \in saving : r.opening = s.opening => r = s

FormInv ==
  /\ kind \in Kinds
  /\ openings \in 0..MaxOpenings
  /\ changes \in 0..MaxChanges
  /\ PageIsWell
  /\ StoredAreWell
  /\ SavingAreWell
  /\ FormIsWell
  /\ EditorIsWell
  /\ OneSave
  /\ BusyIsSaving

(***************************************************************************)
(* The lines of a command.                                                 *)
(***************************************************************************)
Total(c, s) == (IF 1 \in s THEN c[1] ELSE 0) + (IF 2 \in s THEN c[2] ELSE 0)

(* A command of at most two elements has as many lines as its elements     *)
(* together.                                                               *)
LEMMA JoinedIsTotal ==
  ASSUME NEW c, DOMAIN c \subseteq {1, 2}, \A i \in DOMAIN c : c[i] \in Nat
  PROVE  Joined(c) = Total(c, DOMAIN c)
  <1> DEFINE D == DOMAIN c
             Step(g) == g = 
               [s \in SUBSET D |-> IF s = {} THEN 0
                                  ELSE LET x == CHOOSE y \in s : TRUE IN c[x] + g[s \ {x}]]
             h == [s \in SUBSET D |-> Total(c, s)]
  <1>1. Joined(c) = (CHOOSE g : Step(g))[D]
    BY DEF Joined, FoldSeq, FoldFunction, FoldFunctionOnSet, MapThenFoldSet
  <1>2. Step(h)
    <2>1. ASSUME NEW s \in SUBSET D, s # {}
          PROVE  Total(c, s) = LET x == CHOOSE y \in s : TRUE IN c[x] + h[s \ {x}]
      <3>1. PICK x : x = CHOOSE y \in s : TRUE
        OBVIOUS
      <3>2. x \in s /\ x \in {1, 2} /\ s \ {x} \in SUBSET D
        BY <2>1, <3>1
      <3>3. h[s \ {x}] = Total(c, s \ {x})
        BY <3>2
      <3>4. Total(c, s) = c[x] + Total(c, s \ {x})
        BY <3>2 DEF Total
      <3>5. QED
        BY <3>1, <3>3, <3>4
    <2>2. Total(c, {}) = 0
      BY DEF Total
    <2>3. QED
      BY <2>1, <2>2
  <1>3. Step(CHOOSE g : Step(g))
    BY <1>2
  <1>4. ASSUME NEW g, Step(g)
        PROVE  \A s \in SUBSET D : g[s] = Total(c, s)
    <2>1. ASSUME NEW s \in SUBSET D
          PROVE  g[s] = IF s = {} THEN 0 ELSE LET x == CHOOSE y \in s : TRUE IN c[x] + g[s \ {x}]
      BY <1>4
    <2>2. g[{}] = 0
      BY <2>1
    <2>3. ASSUME NEW i \in D
          PROVE  g[{i}] = c[i]
      <3>1. (CHOOSE x \in {i} : TRUE) = i /\ {i} \ {i} = {}
        OBVIOUS
      <3>2. g[{i}] = c[i] + g[{}]
        BY <2>1, <3>1
      <3>3. QED
        BY <2>2, <3>2
    <2>4. ASSUME NEW s \in SUBSET D
          PROVE  g[s] = Total(c, s)
      <3>1. CASE s = {}
        BY <2>2, <3>1 DEF Total
      <3>2. CASE s # {}
        <4>1. PICK x : x = CHOOSE y \in s : TRUE
          OBVIOUS
        <4>2. x \in s /\ x \in {1, 2}
          BY <3>2, <4>1
        <4>3. g[s] = c[x] + g[s \ {x}]
          BY <2>1, <3>2, <4>1
        <4>4. s \ {x} = {} \/ \E i \in D : i # x /\ s \ {x} = {i}
          BY <4>2
        <4>5. CASE s \ {x} = {}
          <5>1. g[s] = c[x] + 0
            BY <2>2, <4>3, <4>5
          <5>2. s = {x}
            BY <4>2, <4>5
          <5>3. QED
            BY <4>2, <5>1, <5>2 DEF Total
        <4>6. ASSUME NEW i \in D, i # x, s \ {x} = {i}
              PROVE  g[s] = Total(c, s)
          <5>1. g[s] = c[x] + c[i]
            BY <2>3, <4>3, <4>6
          <5>2. i \in {1, 2} /\ \A j \in {1, 2} : j \in s
            BY <4>2, <4>6
          <5>3. QED
            BY <4>2, <4>6, <5>1, <5>2 DEF Total
        <4>7. QED
          BY <4>4, <4>5, <4>6
      <3>3. QED
        BY <3>1, <3>2
    <2>5. QED
      BY <2>4
  <1>5. QED
    BY <1>1, <1>3, <1>4

(* Every line that is split off becomes an element again.                  *)
LEMMA SplitOfJoined ==
  /\ \A n \in 0..2 : Split(n) \in Commands /\ Joined(Split(n)) = n
  /\ \A c \in Commands : Joined(c) \in 0..2 /\ ((\A i \in DOMAIN c : c[i] = 1) => Split(Joined(c)) = c)
  /\ \A n \in 0..2 : \A i \in DOMAIN Split(n) : Split(n)[i] = 1
  <1>1. \A n \in 0..2 : DOMAIN Split(n) = 1..n /\ \A i \in 1..n : Split(n)[i] = 1
    BY DEF Split
  <1>2. Split(0) = <<>> /\ Split(1) = <<1>> /\ Split(2) = <<1, 1>>
    BY DEF Split
  <1>3. Joined(<<>>) = 0
    <2>1. DOMAIN <<>> = {}
      OBVIOUS
    <2>2. QED
      BY <2>1, JoinedIsTotal DEF Total
  <1>4. \A m \in {1, 2} : Joined(<<m>>) = m
    <2>1. ASSUME NEW m \in {1, 2}
          PROVE  Joined(<<m>>) = m
      <3>1. DOMAIN <<m>> = {1} /\ <<m>>[1] = m
        OBVIOUS
      <3>2. Joined(<<m>>) = Total(<<m>>, {1})
        BY <3>1, JoinedIsTotal
      <3>3. QED
        BY <3>1, <3>2 DEF Total
    <2>2. QED
      BY <2>1
  <1>5. Joined(<<1, 1>>) = 2
    <2>1. DOMAIN <<1, 1>> = {1, 2} /\ <<1, 1>>[1] = 1 /\ <<1, 1>>[2] = 1
      OBVIOUS
    <2>2. Joined(<<1, 1>>) = Total(<<1, 1>>, {1, 2})
      BY <2>1, JoinedIsTotal
    <2>3. QED
      BY <2>1, <2>2 DEF Total
  <1>6. <<2>>[1] = 2 /\ 1 \in DOMAIN <<2>>
    OBVIOUS
  <1>7. QED
    BY <1>1, <1>2, <1>3, <1>4, <1>5, <1>6 DEF Commands

(***************************************************************************)
(* The facets.                                                             *)
(***************************************************************************)
(* Which facets a form converts when it opens, and when it writes.         *)
LEMMA FacetsOfKinds ==
  ASSUME NEW k \in FormKinds, NEW f \in Facets(k)
  PROVE  /\ f \in {"command", "hook", "limit", "selector", "strategy", "rows", "storage",
                   "clusters", "api", "host"}
         /\ f \in {"command", "hook", "limit", "rows", "storage"} =>
              f \in Forms[k].opens /\ f \in Forms[k].writes
         /\ f \in {"selector", "host"} => f \notin Forms[k].opens /\ f \in Forms[k].writes
         /\ f = "strategy" => f \in Forms[k].opens /\ f \notin Forms[k].writes
         /\ f \in {"clusters", "api"} => f \notin Forms[k].opens /\ f \notin Forms[k].writes
         /\ f \in Forms[k].arrives <=> f \in {"clusters", "api"}
  BY SMTT(90) DEF FormKinds, Facets, Forms, Form,
       Deployment, DeploymentReads, DeploymentEdits, DeploymentProbes, DeploymentWrites, DeploymentOpens,
       Statefulset, StatefulsetReads, StatefulsetEdits, StatefulsetWrites, StatefulsetOpens,
       Daemonset, DaemonsetReads, DaemonsetEdits, DaemonsetWrites, DaemonsetOpens,
       Cronjob, CronjobReads, CronjobEdits, CronjobWrites, CronjobOpens,
       Configmap, ConfigmapReads, ConfigmapEdits, ConfigmapWrites, ConfigmapOpens,
       Secret, SecretReads, SecretEdits, SecretWrites, SecretOpens,
       Claim, ClaimReads, ClaimEdits, ClaimWrites, ClaimOpens,
       Ingress, IngressReads, IngressEdits, IngressWrites,
       Autoscale, AutoscaleReads, AutoscaleEdits, AutoscaleWrites

(* The controls change facets that the form has, and that have controls.   *)
LEMMA EditsOfKinds ==
  ASSUME NEW k \in FormKinds, NEW f \in Forms[k].edits
  PROVE  /\ f \in Facets(k)
         /\ f \in {"command", "hook", "limit", "strategy", "rows", "storage", "clusters", "host"}
  BY SMTT(90) DEF FormKinds, Facets, Forms, Form,
       Deployment, DeploymentReads, DeploymentEdits, DeploymentProbes, DeploymentWrites, DeploymentOpens,
       Statefulset, StatefulsetReads, StatefulsetEdits, StatefulsetWrites, StatefulsetOpens,
       Daemonset, DaemonsetReads, DaemonsetEdits, DaemonsetWrites, DaemonsetOpens,
       Cronjob, CronjobReads, CronjobEdits, CronjobWrites, CronjobOpens,
       Configmap, ConfigmapReads, ConfigmapEdits, ConfigmapWrites, ConfigmapOpens,
       Secret, SecretReads, SecretEdits, SecretWrites, SecretOpens,
       Claim, ClaimReads, ClaimEdits, ClaimWrites, ClaimOpens,
       Ingress, IngressReads, IngressEdits, IngressWrites,
       Autoscale, AutoscaleReads, AutoscaleEdits, AutoscaleWrites

(* What can be shown of a facet.                                           *)
LEMMA WhatIsShown ==
  /\ Displays["command"] = 0..2 /\ Displays["hook"] = 0..2
  /\ Displays["selector"] = {"absent", "empty", "own", "other"}
  /\ Displays["strategy"] = {"absent", "set"}
  /\ Displays["clusters"] = SUBSET {"here"}
  /\ Displays["api"] = {"v1", "v2"}
  /\ Displays["host"] = {"absent", "blank", "set"}
  <1>1. Texts["selector"] = {"absent", "empty", "own", "other"} /\ Texts["strategy"] = {"absent", "set"}
    BY DEF Texts
  <1>2. Displays["selector"] = Texts["selector"] /\ Displays["strategy"] = Texts["strategy"]
    BY DEF Displays
  <1>3. Displays["command"] = 0..2 /\ Displays["hook"] = 0..2 /\ Displays["clusters"] = SUBSET {"here"}
    BY DEF Displays
  <1>4. Displays["api"] = {"v1", "v2"} /\ Displays["host"] = {"absent", "blank", "set"}
    BY DEF Displays
  <1>5. QED
    BY <1>1, <1>2, <1>3, <1>4

(* The amounts that are shown.                                             *)
LEMMA LimitIsShown ==
  /\ \A m \in {0, 512, 1024}, r \in Requests : [mi |-> m, request |-> r] \in Displays["limit"]
  /\ \A w \in Displays["limit"] :
       w.mi \in {0, 512, 1024} /\ w.request \in Requests /\ w = [mi |-> w.mi, request |-> w.request]
  BY DEF Displays

(* The sizes that are shown.                                               *)
LEMMA StorageIsShown ==
  /\ \A m \in {512, 1024}, u \in {"bare", "Mi", "MiGi"} : [mi |-> m, unit |-> u] \in Displays["storage"]
  /\ \A w \in Displays["storage"] :
       w.mi \in {512, 1024} /\ w.unit \in {"bare", "Mi", "MiGi"} /\ w = [mi |-> w.mi, unit |-> w.unit]
  BY DEF Displays

(* The rows that are shown, and those of a text.                           *)
LEMMA RowsAreShown ==
  /\ \A rs \in SUBSET Names, t \in TextsOf("rows") : [rows |-> rs, kept |-> t] \in Displays["rows"]
  /\ \A w \in Displays["rows"] :
       w.rows \in SUBSET Names /\ w.kept \in TextsOf("rows") /\ w = [rows |-> w.rows, kept |-> w.kept]
  /\ Absent \in TextsOf("rows") /\ \A rs \in SUBSET Names : Rows(rs) \in TextsOf("rows")
  /\ \A t \in TextsOf("rows") : t = Absent \/ \E rs \in SUBSET Names : t = Rows(rs)
  <1>1. Displays["rows"] = [rows : SUBSET Names, kept : Texts["rows"]]
    BY DEF Displays
  <1>2. TextsOf("rows") = Texts["rows"]
    BY DEF TextsOf
  <1>3. Texts["rows"] = {Absent} \cup {Rows(rs) : rs \in SUBSET Names}
    BY DEF Texts
  <1>4. /\ \A rs \in SUBSET Names, t \in TextsOf("rows") : [rows |-> rs, kept |-> t] \in Displays["rows"]
        /\ \A w \in Displays["rows"] :
             w.rows \in SUBSET Names /\ w.kept \in TextsOf("rows") /\ w = [rows |-> w.rows, kept |-> w.kept]
    BY <1>2 DEF Displays
  <1>5. /\ Absent \in TextsOf("rows") /\ \A rs \in SUBSET Names : Rows(rs) \in TextsOf("rows")
        /\ \A t \in TextsOf("rows") : t = Absent \/ \E rs \in SUBSET Names : t = Rows(rs)
    BY <1>2, <1>3
  <1>6. QED
    BY <1>4, <1>5

(* What a text says of a facet.                                            *)
LEMMA WhatIsSaid ==
  /\ TextsOf("command") = Commands /\ TextsOf("hook") = Commands
  /\ TextsOf("selector") = {"absent", "empty", "own", "other"}
  /\ TextsOf("strategy") = {"absent", "set"}
  /\ TextsOf("clusters") = SUBSET {"here", "left"}
  /\ TextsOf("api") = {"v1", "v2"}
  /\ TextsOf("host") = {"absent", "blank", "set"}
  <1>1. /\ Texts["command"] = Commands /\ Texts["hook"] = Commands
        /\ Texts["selector"] = {"absent", "empty", "own", "other"}
        /\ Texts["strategy"] = {"absent", "set"}
        /\ Texts["clusters"] = SUBSET {"here", "left"}
    BY DEF Texts
  <1>2. Texts["api"] = {"v1", "v2"} /\ Texts["host"] = {"absent", "blank", "set"}
    BY DEF Texts
  <1>3. \A f \in {"command", "hook", "selector", "strategy", "clusters", "api", "host"} :
          TextsOf(f) = Texts[f]
    BY DEF TextsOf
  <1>4. QED
    BY <1>1, <1>2, <1>3

(* What a text says of a limit.                                            *)
LEMMA LimitIsSaid ==
  /\ \A m \in {0, 512, 1024}, u \in {"Gi", "Mi"}, r \in Requests :
       [mi |-> m, unit |-> u, request |-> r] \in TextsOf("limit")
  /\ \A m \in {0, 1}, r \in Requests : [mi |-> m, unit |-> "bytes", request |-> r] \in TextsOf("limit")
  /\ \A t \in TextsOf("limit") :
       /\ t.request \in Requests
       /\ \/ t.mi \in {0, 512, 1024} /\ t.unit \in {"Gi", "Mi"}
          \/ t.mi \in {0, 1} /\ t.unit = "bytes"
  BY DEF TextsOf

(* What a text says of a size.                                             *)
LEMMA StorageIsSaid ==
  /\ \A m \in {512, 1024}, u \in {"Gi", "Mi", "MiGi"} : [mi |-> m, unit |-> u] \in TextsOf("storage")
  /\ \A t \in TextsOf("storage") :
       t.mi \in {512, 1024} /\ t.unit \in {"Gi", "Mi", "MiGi"} /\ t = [mi |-> t.mi, unit |-> t.unit]
  BY DEF TextsOf

(* Every text that is looked at can be opened, the plain one as well.      *)
LEMMA TextsAreTexts ==
  ASSUME NEW k \in FormKinds, NEW f \in Facets(k)
  PROVE  Texts[f] \subseteq TextsOf(f) /\ Plain[f] \in TextsOf(f)
  <1>1. Requests = {"none", "own", "custom"}
    BY DEF Requests
  <1>2. Texts["limit"] \subseteq TextsOf("limit")
    <2>1. Texts["limit"] = Limits
      BY DEF Texts
    <2>2. Limits \subseteq TextsOf("limit")
      BY <1>1 DEF Limits, TextsOf
    <2>3. QED
      BY <2>1, <2>2
  <1>3. Texts["storage"] \subseteq TextsOf("storage")
    BY DEF TextsOf, Texts
  <1>4. f \notin {"limit", "storage"} => Texts[f] = TextsOf(f)
    BY FacetsOfKinds DEF TextsOf
  <1>5. {"a"} \in SUBSET Names
    BY DEF Names
  <1>6. Plain[f] \in TextsOf(f)
    <2>1. Plain["limit"] \in TextsOf("limit") /\ Plain["storage"] \in TextsOf("storage")
      BY <1>1 DEF Plain, TextsOf
    <2>2. Plain["rows"] = Rows({"a"})
      BY DEF Plain
    <2>3. Plain["rows"] \in TextsOf("rows")
      BY <2>2, <1>5, RowsAreShown
    <2>4. Plain["command"] \in TextsOf("command") /\ Plain["hook"] \in TextsOf("hook")
      <3>1. Plain["command"] = <<>> /\ Plain["hook"] = <<>> /\ <<>> \in Commands
        BY DEF Plain, Commands
      <3>2. QED
        BY <3>1, WhatIsSaid
    <2>5. /\ Plain["selector"] = "own" /\ Plain["strategy"] = "set" /\ Plain["clusters"] = {"here"}
          /\ Plain["api"] = "v2" /\ Plain["host"] = "set"
      BY DEF Plain
    <2>6. QED
      BY <2>1, <2>3, <2>4, <2>5, WhatIsSaid, FacetsOfKinds
  <1>7. QED
    BY <1>2, <1>3, <1>4, <1>6

(* What a new form shows fits.                                             *)
LEMMA NewFits ==
  ASSUME NEW k \in FormKinds, NEW f \in Facets(k)
  PROVE  Fit(k, f, NewForm[f])
  <1>1. {"a"} \in SUBSET Names /\ {"a"} # {} /\ Absent \in TextsOf("rows") /\ "none" \in Requests
    BY RowsAreShown DEF Names, Requests
  <1>2. /\ NewForm["rows"] = [rows |-> {"a"}, kept |-> Absent]
        /\ NewForm["limit"] = [mi |-> 1024, request |-> "none"]
        /\ NewForm["storage"] = [mi |-> 1024, unit |-> "bare"]
    BY DEF NewForm
  <1>3. /\ NewForm["command"] = 0 /\ NewForm["hook"] = 0
        /\ NewForm["selector"] = "empty" /\ NewForm["strategy"] = "set"
    BY DEF NewForm
  <1>4. NewForm["clusters"] = {} /\ NewForm["api"] = "v2" /\ NewForm["host"] = "blank"
    BY DEF NewForm
  <1>5. NewForm["rows"] \in Displays["rows"] /\ NewForm["limit"] \in Displays["limit"]
    BY <1>1, <1>2, RowsAreShown, LimitIsShown
  <1>6. NewForm["storage"] \in Displays["storage"]
    BY <1>2, StorageIsShown
  <1>7. f \notin {"rows", "limit", "storage"} => NewForm[f] \in Displays[f]
    BY <1>3, <1>4, WhatIsShown, FacetsOfKinds
  <1>8. RowsOf(NewForm["rows"]).has
    <2>1. RowsOf(NewForm["rows"]) = Rows({"a"})
      BY <1>1, <1>2 DEF RowsOf
    <2>2. QED
      BY <2>1 DEF Rows
  <1>9. QED
    BY <1>3, <1>5, <1>6, <1>7, <1>8, FacetsOfKinds DEF Fit

(***************************************************************************)
(* One facet, on its way into the form and out of it.                      *)
(***************************************************************************)
(* What the text of a facet is.                                            *)
LEMMA TextsOfFacets ==
  ASSUME NEW k \in FormKinds, NEW f \in Facets(k), NEW w
  PROVE  /\ f \in {"command", "hook"} => TextOf(k, f, w) = Split(w)
         /\ f = "limit" => TextOf(k, f, w) = AddResourceUnit(w)
         /\ f = "selector" => TextOf(k, f, w) = IF w = "empty" THEN "own" ELSE w
         /\ f = "rows" => TextOf(k, f, w) = RowsOf(w)
         /\ f = "storage" => TextOf(k, f, w) = [w EXCEPT !.unit = IF w.unit = "bare" THEN "Gi" ELSE "MiGi"]
         /\ f = "host" => TextOf(k, f, w) = IF w = "blank" THEN "absent" ELSE w
         /\ f \in {"strategy", "clusters", "api"} => TextOf(k, f, w) = w
  <1>1. f \in {"command", "hook", "limit", "selector", "rows", "storage", "host"} =>
          TextOf(k, f, w) = Written(f, w)
    BY FacetsOfKinds DEF TextOf
  <1>2. f \in {"strategy", "clusters", "api"} => TextOf(k, f, w) = w
    BY FacetsOfKinds DEF TextOf
  <1>3. /\ \A g \in {"command", "hook"} : Written(g, w) = Split(w)
        /\ Written("limit", w) = AddResourceUnit(w)
        /\ Written("selector", w) = IF w = "empty" THEN "own" ELSE w
        /\ Written("rows", w) = RowsOf(w)
        /\ Written("storage", w) = [w EXCEPT !.unit = IF w.unit = "bare" THEN "Gi" ELSE "MiGi"]
        /\ Written("host", w) = IF w = "blank" THEN "absent" ELSE w
    BY DEF Written
  <1>4. QED
    BY <1>1, <1>2, <1>3

(* What the form takes of a text.                                          *)
LEMMA TakenOfFacets ==
  ASSUME NEW k \in FormKinds, NEW f \in Facets(k), NEW t, NEW w, NEW a \in BOOLEAN
  PROVE  /\ f \in {"command", "hook"} => Taken(k, f, t, w, a) = Joined(t)
         /\ f = "limit" => Taken(k, f, t, w, a) = [mi |-> MemoryGiValue(t), request |-> t.request]
         /\ f = "strategy" => Taken(k, f, t, w, a) = "set"
         /\ f = "rows" => Taken(k, f, t, w, a) =
              IF k \in DataForms /\ ~t.has THEN w ELSE [rows |-> t.rows, kept |-> t]
         /\ f = "storage" => Taken(k, f, t, w, a) =
              [t EXCEPT !.unit = IF t.unit = "Gi" THEN "bare" ELSE t.unit]
         /\ f = "clusters" => Taken(k, f, t, w, a) = IF a THEN t \cap {"here"} ELSE w
         /\ f = "api" => Taken(k, f, t, w, a) = IF a THEN "v2" ELSE t
         /\ f \in {"selector", "host"} => Taken(k, f, t, w, a) = t
  <1>1. f \in {"command", "hook", "limit", "strategy", "storage"} => Taken(k, f, t, w, a) = Shown(f, t)
    BY FacetsOfKinds DEF Taken
  <1>2. f = "rows" => Taken(k, f, t, w, a) = IF k \in DataForms /\ ~t.has THEN w ELSE Shown(f, t)
    <2>1. ASSUME f = "rows", k \in DataForms, ~t.has
          PROVE  Taken(k, f, t, w, a) = w
      <3>1. ~(f = "clusters" /\ ~a)
        BY <2>1
      <3>2. f = "rows" /\ k \in DataForms /\ ~t.has
        BY <2>1
      <3>3. QED
        BY <3>1, <3>2, Zenon DEF Taken
    <2>2. CASE ~(k \in DataForms /\ ~t.has)
      BY <2>2, FacetsOfKinds DEF Taken
    <2>3. QED
      BY <2>1, <2>2
  <1>3. f = "clusters" => Taken(k, f, t, w, a) = IF a THEN Shown(f, t) ELSE w
    BY FacetsOfKinds DEF Taken
  <1>4. f = "api" => Taken(k, f, t, w, a) = IF a THEN Shown(f, t) ELSE t
    BY FacetsOfKinds DEF Taken
  <1>5. f \in {"selector", "host"} => Taken(k, f, t, w, a) = t
    BY FacetsOfKinds DEF Taken
  <1>6. /\ \A g \in {"command", "hook"} : Shown(g, t) = Joined(t)
        /\ Shown("limit", t) = [mi |-> MemoryGiValue(t), request |-> t.request]
        /\ Shown("strategy", t) = "set"
        /\ Shown("rows", t) = [rows |-> t.rows, kept |-> t]
        /\ Shown("storage", t) = [t EXCEPT !.unit = IF t.unit = "Gi" THEN "bare" ELSE t.unit]
        /\ Shown("clusters", t) = t \cap {"here"}
        /\ Shown("api", t) = "v2"
    BY DEF Shown
  <1>7. QED
    BY <1>1, <1>2, <1>3, <1>4, <1>5, <1>6

(* What fits is written as a text that a form can show.                    *)
LEMMA FitIsWritten ==
  ASSUME NEW k \in FormKinds, NEW f \in Facets(k), NEW w, Fit(k, f, w)
  PROVE  TextOf(k, f, w) \in TextsOf(f) /\ ShowsIn(k, f, TextOf(k, f, w))
  <1>1. CASE f \in {"command", "hook"}
    <2>1. w \in 0..2 /\ TextOf(k, f, w) = Split(w)
      BY <1>1, WhatIsShown, TextsOfFacets DEF Fit
    <2>2. Split(w) \in Commands /\ \A i \in DOMAIN Split(w) : Split(w)[i] = 1
      BY <2>1, SplitOfJoined
    <2>3. ShowsIn(k, f, Split(w))
      BY <1>1, <2>2 DEF ShowsIn
    <2>4. QED
      BY <1>1, <2>1, <2>2, <2>3, WhatIsSaid
  <1>2. CASE f = "limit"
    <2>1. w.mi \in {0, 512, 1024} /\ w.request \in Requests /\ "own" \in Requests
      BY <1>2, LimitIsShown DEF Fit, Requests
    <2>2. /\ w.mi = 0 => TextOf(k, f, w) = [mi |-> 0, unit |-> "bytes", request |-> w.request]
          /\ w.mi # 0 => TextOf(k, f, w) = [mi |-> w.mi, unit |-> "Gi", request |-> "own"]
      BY <1>2, TextsOfFacets DEF AddResourceUnit
    <2>3. TextOf(k, f, w) \in TextsOf("limit")
      BY <2>1, <2>2, LimitIsSaid
    <2>4. TextOf(k, f, w).mi = 0 \/ (TextOf(k, f, w).unit # "bytes" /\ TextOf(k, f, w).request = "own")
      BY <2>2
    <2>5. QED
      BY <1>2, <2>3, <2>4 DEF ShowsIn
  <1>3. CASE f = "rows"
    <2>1. w.rows \in SUBSET Names /\ w.kept \in TextsOf("rows") /\ (k \in DataForms => RowsOf(w).has)
      BY <1>3, RowsAreShown DEF Fit
    <2>2. TextOf(k, f, w) = RowsOf(w) /\ RowsOf(w) \in TextsOf("rows")
      BY <1>3, <2>1, TextsOfFacets, RowsAreShown DEF RowsOf
    <2>3. QED
      BY <1>3, <2>1, <2>2 DEF ShowsIn
  <1>4. CASE f = "storage"
    <2>1. w.mi \in {512, 1024} /\ w = [mi |-> w.mi, unit |-> w.unit]
      BY <1>4, StorageIsShown DEF Fit
    <2>2. TextOf(k, f, w) = [mi |-> w.mi, unit |-> IF w.unit = "bare" THEN "Gi" ELSE "MiGi"]
      BY <1>4, <2>1, TextsOfFacets
    <2>3. QED
      BY <1>4, <2>1, <2>2, StorageIsSaid DEF ShowsIn
  <1>5. CASE f \in {"selector", "strategy", "clusters", "api", "host"}
    BY <1>5, WhatIsShown, WhatIsSaid, TextsOfFacets DEF Fit, ShowsIn
  <1>6. QED
    BY <1>1, <1>2, <1>3, <1>4, <1>5, FacetsOfKinds

(* What the form takes of a text fits, and so does what it keeps.          *)
LEMMA TakenFits ==
  ASSUME NEW k \in FormKinds, NEW f \in Facets(k), NEW t \in TextsOf(f), NEW w, Fit(k, f, w),
         NEW a \in BOOLEAN
  PROVE  Fit(k, f, Taken(k, f, t, w, a))
  <1>1. CASE f \in {"command", "hook"}
    BY <1>1, WhatIsShown, WhatIsSaid, TakenOfFacets, SplitOfJoined DEF Fit
  <1>2. CASE f = "limit"
    <2>1. t.request \in Requests /\ MemoryGiValue(t) \in {0, 512, 1024}
      BY <1>2, LimitIsSaid DEF MemoryGiValue
    <2>2. QED
      BY <1>2, <2>1, LimitIsShown, TakenOfFacets DEF Fit
  <1>3. CASE f = "rows"
    <2>1. CASE k \in DataForms /\ ~t.has
      BY <1>3, <2>1, TakenOfFacets
    <2>2. CASE ~(k \in DataForms /\ ~t.has)
      <3>1. Taken(k, f, t, w, a) = [rows |-> t.rows, kept |-> t]
        BY <1>3, <2>2, TakenOfFacets
      <3>2. t = Absent \/ \E rs \in SUBSET Names : t = Rows(rs)
        BY <1>3, RowsAreShown
      <3>3. t.rows \in SUBSET Names
        <4>1. Absent.rows = {} /\ \A rs : Rows(rs).rows = rs
          BY DEF Absent, Rows
        <4>2. QED
          BY <3>2, <4>1
      <3>4. [rows |-> t.rows, kept |-> t] \in Displays["rows"]
        BY <1>3, <3>3, RowsAreShown
      <3>5. k \in DataForms => RowsOf([rows |-> t.rows, kept |-> t]).has
        BY <2>2 DEF RowsOf, Rows
      <3>6. QED
        BY <1>3, <3>1, <3>4, <3>5 DEF Fit
    <2>3. QED
      BY <2>1, <2>2
  <1>4. CASE f = "storage"
    <2>1. t.mi \in {512, 1024} /\ t.unit \in {"Gi", "Mi", "MiGi"} /\ t = [mi |-> t.mi, unit |-> t.unit]
      BY <1>4, StorageIsSaid
    <2>2. Taken(k, f, t, w, a) = [mi |-> t.mi, unit |-> IF t.unit = "Gi" THEN "bare" ELSE t.unit]
      BY <1>4, <2>1, TakenOfFacets
    <2>3. QED
      BY <1>4, <2>1, <2>2, StorageIsShown DEF Fit
  <1>5. CASE f = "clusters"
    BY <1>5, WhatIsShown, WhatIsSaid, TakenOfFacets DEF Fit
  <1>6. CASE f \in {"selector", "strategy", "api", "host"}
    BY <1>6, WhatIsShown, WhatIsSaid, TakenOfFacets DEF Fit
  <1>7. QED
    BY <1>1, <1>2, <1>3, <1>4, <1>5, <1>6, FacetsOfKinds

(* A text that is opened and written again says what it said, as far as a  *)
(* form can show it, and so does what came back from the editor.  Of the   *)
(* clusters, which the editor does not hold, the form keeps what it shows. *)
LEMMA WrittenSurvives ==
  ASSUME NEW k \in FormKinds, NEW f \in Facets(k), NEW a \in BOOLEAN,
         NEW p \in TextsOf(f), NEW t \in TextsOf(f), NEW w, Fit(k, f, w),
         Survives(k, f, p, t),
         f = "clusters" /\ ~a => Survives(k, f, p, TextOf(k, f, w))
  PROVE  Survives(k, f, p, TextOf(k, f, Taken(k, f, t, w, a)))
  <1> SUFFICES ASSUME ShowsIn(k, f, p)
               PROVE  Same(f, p, TextOf(k, f, Taken(k, f, t, w, a)))
    BY DEF Survives
  <1>0. Same(f, p, t)
    BY DEF Survives
  <1> DEFINE v == Taken(k, f, t, w, a)
             u == TextOf(k, f, v)
  <1>1. CASE f \in {"command", "hook"}
    <2>1. p = t /\ t \in Commands /\ \A i \in DOMAIN t : t[i] = 1
      BY <1>0, <1>1, WhatIsSaid DEF Same, ShowsIn
    <2>2. u = Split(Joined(t))
      BY <1>1, TextsOfFacets, TakenOfFacets
    <2>3. u = p
      BY <2>1, <2>2, SplitOfJoined
    <2>4. QED
      BY <1>1, <2>3 DEF Same
  <1>2. CASE f = "limit"
    <2>1. p.mi = 0 \/ (p.unit # "bytes" /\ p.request = "own")
      BY <1>2 DEF ShowsIn
    <2>2. p.mi = t.mi /\ (p.mi # 0 => p.request = t.request)
      BY <1>0, <1>2 DEF Same
    <2>3. MemoryGiValue(t) = p.mi
      BY <1>2, <2>1, <2>2, LimitIsSaid DEF MemoryGiValue
    <2>4. v.mi = p.mi /\ u = AddResourceUnit(v)
      BY <1>2, <2>3, TextsOfFacets, TakenOfFacets
    <2>5. u.mi = p.mi /\ (p.mi # 0 => u.request = "own")
      BY <2>4 DEF AddResourceUnit
    <2>6. QED
      BY <1>2, <2>1, <2>5 DEF Same
  <1>3. CASE f = "rows"
    <2>1. p = t /\ (k \in DataForms => p.has)
      BY <1>0, <1>3 DEF Same, ShowsIn
    <2>2. v = [rows |-> t.rows, kept |-> t] /\ u = RowsOf(v)
      BY <1>3, <2>1, TextsOfFacets, TakenOfFacets
    <2>3. u = IF t.rows = {} THEN t ELSE Rows(t.rows)
      BY <2>2 DEF RowsOf
    <2>4. t = Absent \/ \E rs \in SUBSET Names : t = Rows(rs)
      BY <1>3, RowsAreShown
    <2>5. Absent.rows = {} /\ \A rs : Rows(rs).rows = rs
      BY DEF Absent, Rows
    <2>6. u = p
      BY <2>1, <2>3, <2>4, <2>5
    <2>7. QED
      BY <1>3, <2>6 DEF Same
  <1>4. CASE f = "storage"
    <2>1. p.mi = t.mi
      BY <1>0, <1>4 DEF Same
    <2>2. t = [mi |-> t.mi, unit |-> t.unit]
      BY <1>4, StorageIsSaid
    <2>3. v = [mi |-> t.mi, unit |-> IF t.unit = "Gi" THEN "bare" ELSE t.unit]
      BY <1>4, <2>2, TakenOfFacets
    <2>4. u = [v EXCEPT !.unit = IF v.unit = "bare" THEN "Gi" ELSE "MiGi"]
      BY <1>4, TextsOfFacets
    <2>5. u.mi = p.mi
      BY <2>1, <2>3, <2>4
    <2>6. QED
      BY <1>4, <2>5 DEF Same
  <1>5. CASE f = "clusters"
    <2>1. p \subseteq {"here"} /\ p = t
      BY <1>0, <1>5 DEF Same, ShowsIn
    <2>2. CASE a
      <3>1. t \cap {"here"} = p
        BY <2>1
      <3>2. v = t \cap {"here"}
        <4>1. v = IF a THEN t \cap {"here"} ELSE w
          BY <1>5, TakenOfFacets
        <4>2. QED
          BY <2>2, <4>1
      <3>3. u = v
        BY <1>5, TextsOfFacets
      <3>4. QED
        BY <1>5, <3>1, <3>2, <3>3 DEF Same
    <2>3. CASE ~a
      BY <1>5, <2>3, TakenOfFacets DEF Survives
    <2>4. QED
      BY <2>2, <2>3
  <1>6. CASE f \in {"selector", "strategy"}
    <2>1. p = t /\ (f = "selector" => p # "empty") /\ (f = "strategy" => p # "absent")
      BY <1>0, <1>6 DEF Same, ShowsIn
    <2>2. f = "strategy" => p = "set"
      BY <2>1, WhatIsSaid
    <2>3. u = p
      BY <1>6, <2>1, <2>2, TextsOfFacets, TakenOfFacets
    <2>4. QED
      BY <1>6, <2>3 DEF Same
  <1>7. CASE f = "api"
    BY <1>7 DEF Same
  <1>8. CASE f = "host"
    <2>1. (p = "set") = (t = "set")
      BY <1>0, <1>8 DEF Same
    <2>2. u = IF t = "blank" THEN "absent" ELSE t
      BY <1>8, TextsOfFacets, TakenOfFacets
    <2>3. QED
      BY <1>8, <2>1, <2>2 DEF Same
  <1>9. QED
    BY <1>1, <1>2, <1>3, <1>4, <1>5, <1>6, <1>7, <1>8, FacetsOfKinds

(* Every text says the same as itself.                                     *)
LEMMA SameAsItself == \A k, f, t : Survives(k, f, t, t)
  BY DEF Survives, Same

(* The controls set what fits.                                             *)
LEMMA SetFits ==
  ASSUME NEW k \in FormKinds, NEW f \in Forms[k].edits, NEW v \in Controls[f],
         f = "rows" /\ k \in DataForms => v # {},
         NEW w, Fit(k, f, w)
  PROVE  Fit(k, f, Set(f, v, w))
  <1>1. /\ Controls["command"] = 0..2 /\ Controls["hook"] = 0..2 /\ Controls["limit"] = {0, 512}
        /\ Controls["strategy"] = {"set"} /\ Controls["rows"] = SUBSET Names
    BY DEF Controls
  <1>2. /\ Controls["storage"] = {512, 1024} /\ Controls["clusters"] = SUBSET {"here"}
        /\ Controls["host"] = {"blank", "set"}
    BY DEF Controls
  <1>3. CASE f = "limit"
    <2>1. Set(f, v, w) = [mi |-> v, request |-> w.request] /\ w.request \in Requests
      BY <1>3, LimitIsShown DEF Fit, Set
    <2>2. QED
      BY <1>1, <1>3, <2>1, LimitIsShown DEF Fit
  <1>4. CASE f = "rows"
    <2>1. Set(f, v, w) = [rows |-> v, kept |-> w.kept] /\ w.kept \in TextsOf("rows")
      BY <1>4, RowsAreShown DEF Fit, Set
    <2>2. [rows |-> v, kept |-> w.kept] \in Displays["rows"]
      BY <1>1, <1>4, <2>1, RowsAreShown
    <2>3. k \in DataForms => RowsOf([rows |-> v, kept |-> w.kept]).has
      BY <1>4 DEF RowsOf, Rows
    <2>4. QED
      BY <1>4, <2>1, <2>2, <2>3 DEF Fit
  <1>5. CASE f = "storage"
    <2>1. Set(f, v, w) = [mi |-> v, unit |-> "bare"]
      BY <1>5 DEF Set
    <2>2. QED
      BY <1>2, <1>5, <2>1, StorageIsShown DEF Fit
  <1>6. CASE f \in {"command", "hook", "strategy", "clusters", "host"}
    <2>1. Set(f, v, w) = v
      BY <1>6 DEF Set
    <2>2. QED
      BY <1>1, <1>2, <1>6, <2>1, WhatIsShown DEF Fit
  <1>7. QED
    BY <1>3, <1>4, <1>5, <1>6, EditsOfKinds

(* Writing the rows into the object that is kept changes no text.          *)
LEMMA KeptRowsFit ==
  ASSUME NEW k \in FormKinds, NEW w, Fit(k, "rows", w)
  PROVE  /\ Fit(k, "rows", [w EXCEPT !.kept = RowsOf(w)])
         /\ RowsOf([w EXCEPT !.kept = RowsOf(w)]) = RowsOf(w)
  <1>1. /\ w.rows \in SUBSET Names /\ w.kept \in TextsOf("rows")
        /\ w = [rows |-> w.rows, kept |-> w.kept]
    BY RowsAreShown DEF Fit
  <1>2. RowsOf(w) \in TextsOf("rows")
    BY <1>1, RowsAreShown DEF RowsOf
  <1>3. [w EXCEPT !.kept = RowsOf(w)] = [rows |-> w.rows, kept |-> RowsOf(w)]
    BY <1>1
  <1>4. RowsOf([rows |-> w.rows, kept |-> RowsOf(w)]) = RowsOf(w)
    BY DEF RowsOf
  <1>5. QED
    BY <1>1, <1>2, <1>3, <1>4, RowsAreShown DEF Fit

(***************************************************************************)
(* The whole form.                                                         *)
(***************************************************************************)
LEMMA OpenedTakes ==
  ASSUME NEW text, NEW a \in BOOLEAN
  PROVE  Opened(text, a) = [f \in Facets(kind) |-> Taken(kind, f, text[f], form[f], a)]
  BY DEF Opened, Taken, Ignored

(* The text of the form, facet by facet.                                   *)
LEMMA GeneratedIs == Generated = [f \in Facets(kind) |-> TextOf(kind, f, form[f])]
  BY DEF Generated, TextOf

(* The kind is one of those that have a form.                              *)
LEMMA KindIsKnown == ASSUME kind \in Kinds PROVE kind \in FormKinds
  BY FormAssumption

(* A text is made of texts of its facets.                                  *)
LEMMA TextHas ==
  ASSUME NEW k, NEW t \in TextsIn(k)
  PROVE  DOMAIN t = Facets(k) /\ \A f \in Facets(k) : t[f] \in TextsOf(f)
  BY DEF TextsIn

(* What the form takes of a text fits, facet by facet.                     *)
LEMMA OpenedFits ==
  ASSUME FormInv, NEW text \in TextsIn(kind), NEW a \in BOOLEAN
  PROVE  /\ Opened(text, a) = [f \in Facets(kind) |-> Opened(text, a)[f]]
         /\ \A f \in Facets(kind) : /\ Opened(text, a)[f] = Taken(kind, f, text[f], form[f], a)
                                    /\ Fit(kind, f, Opened(text, a)[f])
  <1>1. Opened(text, a) = [f \in Facets(kind) |-> Taken(kind, f, text[f], form[f], a)]
    BY OpenedTakes
  <1>2. ASSUME NEW f \in Facets(kind)
        PROVE  Fit(kind, f, Taken(kind, f, text[f], form[f], a))
    <2>1. kind \in FormKinds /\ text[f] \in TextsOf(f) /\ Fit(kind, f, form[f])
      BY KindIsKnown, TextHas DEF FormInv, FormIsWell
    <2>2. QED
      BY <2>1, TakenFits
  <1>3. QED
    BY <1>1, <1>2

(* The text of the form, which a form can show.                            *)
LEMMA GeneratedIsText ==
  ASSUME FormInv
  PROVE  /\ Generated \in TextsIn(kind)
         /\ \A f \in Facets(kind) : /\ Generated[f] = TextOf(kind, f, form[f])
                                    /\ ShowsIn(kind, f, Generated[f])
         /\ Faithful(Generated)
  <1>1. Generated = [f \in Facets(kind) |-> TextOf(kind, f, form[f])]
    BY GeneratedIs
  <1>2. ASSUME NEW f \in Facets(kind)
        PROVE  TextOf(kind, f, form[f]) \in TextsOf(f) /\ ShowsIn(kind, f, TextOf(kind, f, form[f]))
    <2>1. kind \in FormKinds /\ Fit(kind, f, form[f])
      BY KindIsKnown DEF FormInv, FormIsWell
    <2>2. QED
      BY <2>1, FitIsWritten
  <1>3. Generated \in TextsIn(kind)
    BY <1>1, <1>2 DEF TextsIn
  <1>4. Faithful(Generated)
    BY <1>1 DEF FormInv, FormIsWell
  <1>5. QED
    BY <1>1, <1>2, <1>3, <1>4

(* Writing into the object that is kept changes neither what fits nor the  *)
(* text.                                                                   *)
LEMMA KeptFits ==
  ASSUME FormInv
  PROVE  /\ Kept = [f \in Facets(kind) |-> Kept[f]]
         /\ \A f \in Facets(kind) : /\ Fit(kind, f, Kept[f])
                                    /\ TextOf(kind, f, Kept[f]) = TextOf(kind, f, form[f])
  <1>1. kind \in FormKinds /\ form = [f \in Facets(kind) |-> form[f]]
    BY KindIsKnown DEF FormInv, FormIsWell
  <1>2. \A f \in Facets(kind) : Fit(kind, f, form[f])
    BY DEF FormInv, FormIsWell
  <1>3. CASE "rows" \in Facets(kind)
    <2> DEFINE w == [form["rows"] EXCEPT !.kept = RowsOf(form["rows"])]
    <2>1. Kept = [form EXCEPT !["rows"] = w]
      BY <1>3 DEF Kept
    <2>2. Fit(kind, "rows", w) /\ RowsOf(w) = RowsOf(form["rows"])
      BY <1>1, <1>2, <1>3, KeptRowsFit
    <2>3. TextOf(kind, "rows", w) = TextOf(kind, "rows", form["rows"])
      BY <1>1, <1>3, <2>2, TextsOfFacets
    <2> HIDE DEF w
    <2>4. Kept["rows"] = w /\ \A f \in Facets(kind) \ {"rows"} : Kept[f] = form[f]
      BY <1>1, <1>3, <2>1
    <2>5. Kept = [f \in Facets(kind) |-> Kept[f]]
      BY <1>1, <2>1
    <2>6. ASSUME NEW f \in Facets(kind)
          PROVE  Fit(kind, f, Kept[f]) /\ TextOf(kind, f, Kept[f]) = TextOf(kind, f, form[f])
      BY <1>2, <2>2, <2>3, <2>4
    <2>7. QED
      BY <2>5, <2>6
  <1>4. CASE "rows" \notin Facets(kind)
    BY <1>1, <1>2, <1>4 DEF Kept
  <1>5. QED
    BY <1>3, <1>4

(***************************************************************************)
(* What is stored.                                                         *)
(***************************************************************************)
LEMMA Appended ==
  ASSUME NEW S, NEW ts \in Seq(S), NEW t \in S
  PROVE  /\ Append(ts, t) \in Seq(S)
         /\ Len(ts) \in Nat
         /\ Len(Append(ts, t)) = Len(ts) + 1
         /\ \A i \in 1..Len(ts) : Append(ts, t)[i] = ts[i]
         /\ Append(ts, t)[Len(ts) + 1] = t
  OBVIOUS

(* A template stays as well written when another one is stored.            *)
LEMMA WellStays ==
  ASSUME NEW k, NEW ts \in Seq(Templates(k)), NEW t \in Templates(k), NEW e, WellWritten(k, ts, e)
  PROVE  WellWritten(k, Append(ts, t), e)
  <1> DEFINE us == Append(ts, t)
  <1>1. Len(ts) \in Nat /\ Len(us) = Len(ts) + 1 /\ \A i \in 1..Len(ts) : us[i] = ts[i]
    BY Appended
  <1> HIDE DEF us
  <1>2. e.from \in 0..Len(us)
    BY <1>1 DEF WellWritten
  <1>3. e.from # 0 => us[e.from] = ts[e.from]
    BY <1>1 DEF WellWritten
  <1>4. WellWritten(k, us, e)
    BY <1>2, <1>3 DEF WellWritten
  <1>5. QED
    BY <1>4 DEF us

(* One more template, well written.                                        *)
LEMMA StoringIsWell ==
  ASSUME StoredAreWell, NEW t, WellWritten(kind, stored, t), kind' = kind, stored' = Append(stored, t)
  PROVE  /\ StoredAreWell'
         /\ Len(stored) \in Nat /\ Len(stored') = Len(stored) + 1
         /\ \A i \in 1..Len(stored) : stored'[i] = stored[i]
  <1>1. stored \in Seq(Templates(kind)) /\ t \in Templates(kind)
    BY DEF StoredAreWell, WellWritten
  <1>2. /\ stored' \in Seq(Templates(kind)) /\ Len(stored) \in Nat /\ Len(stored') = Len(stored) + 1
        /\ \A i \in 1..Len(stored) : stored'[i] = stored[i]
        /\ stored'[Len(stored) + 1] = t
    BY <1>1, Appended
  <1>3. ASSUME NEW i \in 2..Len(stored')
        PROVE  WellWritten(kind, stored', stored'[i]) /\ stored'[i].from < i
    <2>1. CASE i \in 2..Len(stored)
      <3>1. WellWritten(kind, stored, stored[i]) /\ stored[i].from < i /\ stored'[i] = stored[i]
        BY <1>2, <2>1 DEF StoredAreWell
      <3>2. QED
        BY <1>1, <3>1, WellStays
    <2>2. CASE i = Len(stored) + 1
      <3>1. stored'[i] = t /\ t.from \in 0..Len(stored)
        BY <1>2, <2>2 DEF WellWritten
      <3>2. t.from < i
        BY <1>2, <2>2, <3>1
      <3>3. QED
        BY <1>1, <3>1, <3>2, WellStays
    <2>3. QED
      BY <1>2, <2>1, <2>2
  <1>4. stored'[1].from = 0 /\ Len(stored') >= 1
    BY <1>2 DEF StoredAreWell
  <1>5. QED
    BY <1>2, <1>3, <1>4 DEF StoredAreWell

(* Nothing stored, nothing sent.                                           *)
LEMMA NothingStored ==
  ASSUME FormInv, UNCHANGED <<kind, stored, saving>>
  PROVE  StoredAreWell' /\ SavingAreWell'
  BY DEF FormInv, StoredAreWell, SavingAreWell

(***************************************************************************)
(* The steps.                                                              *)
(***************************************************************************)
LEMMA FormInit == Init => FormInv
  <1> SUFFICES ASSUME Init PROVE FormInv
    OBVIOUS
  <1>1. kind \in Kinds /\ kind \in FormKinds
    BY KindIsKnown DEF Init
  <1>2. PICK f \in Facets(kind), b \in BOOLEAN :
          \E t \in Texts[f] :
            stored = <<[Template([PlainText(kind) EXCEPT ![f] = t], 0, FALSE, {}) EXCEPT !.broken = b]>>
    BY DEF Init
  <1>3. PICK t \in Texts[f] :
          stored = <<[Template([PlainText(kind) EXCEPT ![f] = t], 0, FALSE, {}) EXCEPT !.broken = b]>>
    BY <1>2
  <1> DEFINE text == [PlainText(kind) EXCEPT ![f] = t]
             s == [Template(text, 0, FALSE, {}) EXCEPT !.broken = b]
  <1>4. text \in TextsIn(kind)
    <2>1. text = [g \in Facets(kind) |-> IF g = f THEN t ELSE Plain[g]]
      BY DEF PlainText
    <2>2. \A g \in Facets(kind) : Texts[g] \subseteq TextsOf(g) /\ Plain[g] \in TextsOf(g)
      BY <1>1, TextsAreTexts
    <2>3. QED
      BY <2>1, <2>2 DEF TextsIn
  <1> HIDE DEF text
  <1>5. stored = <<s>> /\ s \in Templates(kind) /\ s.from = 0
    <2>1. stored = <<s>>
      BY <1>3 DEF text
    <2>2. s \in Templates(kind)
      BY <1>4 DEF Template, Templates
    <2>3. s.from = 0
      BY DEF Template
    <2> HIDE DEF s
    <2>4. QED
      BY <2>1, <2>2, <2>3
  <1>6. StoredAreWell
    <2>1. Len(stored) = 1 /\ stored[1].from = 0 /\ stored \in Seq(Templates(kind))
      <3> HIDE DEF s
      <3>1. QED
        BY <1>5
    <2>2. QED
      BY <2>1 DEF StoredAreWell
  <1>7. FormIsWell
    <2>1. form = [g \in Facets(kind) |-> NewForm[g]]
      BY DEF Init, Default
    <2>2. \A g \in Facets(kind) : Fit(kind, g, form[g])
      BY <1>1, <2>1, NewFits
    <2>3. ~HasRead
      BY DEF Init, List, Page, HasRead
    <2>4. QED
      BY <2>1, <2>2, <2>3 DEF FormIsWell, Faithful
  <1>8. PageIsWell
    <2>1. Len(stored) \in Nat
      BY <1>5
    <2>2. QED
      BY <2>1 DEF Init, PageIsWell, Pages, List, Page
  <1>9. EditorIsWell /\ SavingAreWell /\ OneSave
    BY DEF Init, NoEditor, EditorIsWell, SavingAreWell, OneSave
  <1>10. BusyIsSaving
    BY DEF Init, List, Page, BusyIsSaving
  <1>11. openings \in 0..MaxOpenings /\ changes \in 0..MaxChanges
    BY FormAssumption DEF Init
  <1>12. QED
    BY <1>1, <1>6, <1>7, <1>8, <1>9, <1>10, <1>11 DEF FormInv

(* A form is opened, for none of the saves that are under way.             *)
LEMMA OpenKeepsInv == FormInv /\ Open => FormInv'
  <1> SUFFICES ASSUME FormInv, Open PROVE FormInv'
    OBVIOUS
  <1>1. PICK i \in 0..Len(stored) : page' = Page("form", i, openings + 1, "waiting")
    BY DEF Open
  <1>2. /\ page.at = "list" /\ openings < MaxOpenings /\ openings' = openings + 1
        /\ UNCHANGED <<kind, stored, form, editor, saving, changes>>
    BY DEF Open
  <1>3. openings \in Nat /\ openings' \in 0..MaxOpenings
    BY <1>2, FormAssumption DEF FormInv
  <1>4. /\ page'.at = "form" /\ page'.state = "waiting" /\ page'.opening = openings + 1
        /\ page'.busy = FALSE /\ page'.thrown = FALSE
    BY <1>1 DEF Page
  <1>5. PageIsWell'
    <2>1. page' \in Pages(kind, Len(stored), openings + 1)
      BY <1>1, <1>3 DEF Page, Pages
    <2>2. QED
      BY <1>2, <1>3, <1>4, <2>1 DEF PageIsWell
  <1>6. StoredAreWell' /\ SavingAreWell'
    BY <1>2, NothingStored
  <1>7. ~HasRead'
    BY <1>4 DEF HasRead
  <1>8. FormIsWell'
    BY <1>2, <1>7 DEF FormInv, FormIsWell, Faithful
  <1>9. EditorIsWell'
    BY <1>2 DEF FormInv, EditorIsWell
  <1>10. OneSave'
    BY <1>2, <1>3, <1>4 DEF FormInv, OneSave
  <1>11. BusyIsSaving'
    <2>1. \A s \in saving' : s.opening # page'.opening
      BY <1>2, <1>3, <1>4 DEF FormInv, OneSave
    <2>2. QED
      BY <1>4, <2>1 DEF BusyIsSaving
  <1>12. QED
    BY <1>2, <1>3, <1>5, <1>6, <1>8, <1>9, <1>10, <1>11 DEF FormInv

(* While the form waits, its editor is closed.                             *)
LEMMA WaitingIsClosed ==
  ASSUME FormInv, page.state = "waiting"
  PROVE  page.at = "form" /\ editor.open = FALSE
  BY DEF FormInv, PageIsWell, EditorIsWell, List, Page, Pages

(* The answers to the reads.                                               *)
LEMMA AnsweredKeepsInv == FormInv /\ Answered => FormInv'
  <1> SUFFICES ASSUME FormInv, Answered PROVE FormInv'
    OBVIOUS
  <1> DEFINE t == stored[page.of]
  <1>1. page.state = "waiting" /\ UNCHANGED <<kind, stored, editor, saving, openings, changes>>
    BY DEF Answered
  <1>2. page.at = "form" /\ editor.open = FALSE
    BY <1>1, WaitingIsClosed
  <1>3. page \in Pages(kind, Len(stored), openings)
    BY DEF FormInv, PageIsWell
  <1>4. \/ page.of = 0 /\ page' = [page EXCEPT !.state = "ready"] /\ form' = form
        \/ page.of # 0 /\ t.broken /\ page' = [page EXCEPT !.state = "halfway"] /\ form' = form
        \/ /\ page.of # 0 /\ page' = [page EXCEPT !.state = "ready", !.changed = {}]
           /\ form' = Opened(t.text, TRUE)
    BY DEF Answered
  <1>5. /\ page' \in Pages(kind, Len(stored), openings)
        /\ page'.at = "form" /\ page'.of = page.of /\ page'.opening = page.opening
        /\ page'.busy = page.busy /\ page'.thrown = page.thrown
        /\ page'.state \in {"ready", "halfway"}
        /\ page'.state = "halfway" => page.of # 0 /\ t.broken
    BY <1>2, <1>3, <1>4 DEF Pages
  <1>6. PageIsWell'
    BY <1>1, <1>2, <1>5 DEF FormInv, PageIsWell
  <1>7. StoredAreWell' /\ SavingAreWell'
    BY <1>1, NothingStored
  <1>8. FormIsWell'
    <2>1. CASE form' = form /\ ~HasRead'
      BY <1>1, <2>1 DEF FormInv, FormIsWell, Faithful
    <2>2. CASE page.of # 0 /\ form' = Opened(t.text, TRUE)
      <3>1. t.text \in TextsIn(kind)
        <4>1. stored \in Seq(Templates(kind)) /\ page.of \in 1..Len(stored)
          BY <1>3, <2>2 DEF FormInv, StoredAreWell, Pages
        <4>2. t \in Templates(kind)
          BY <4>1
        <4>3. QED
          BY <4>2 DEF Templates
      <3>2. /\ form' = [f \in Facets(kind) |-> form'[f]]
            /\ \A f \in Facets(kind) : /\ form'[f] = Taken(kind, f, t.text[f], form[f], TRUE)
                                       /\ Fit(kind, f, form'[f])
        BY <2>2, <3>1, OpenedFits
      <3>3. ASSUME NEW f \in Facets(kind)
            PROVE  Survives(kind, f, t.text[f], TextOf(kind, f, form'[f]))
        <4>1. kind \in FormKinds /\ t.text[f] \in TextsOf(f) /\ Fit(kind, f, form[f])
          BY <3>1, KindIsKnown, TextHas DEF FormInv, FormIsWell
        <4>2. QED
          BY <3>2, <4>1, SameAsItself, WrittenSurvives
      <3>4. QED
        BY <1>1, <1>5, <3>2, <3>3 DEF FormIsWell, Faithful
    <2>3. page.of = 0 => ~HasRead'
      BY <1>5 DEF HasRead
    <2>4. page' = [page EXCEPT !.state = "halfway"] => ~HasRead'
      BY <1>3 DEF HasRead, Pages
    <2>5. QED
      BY <1>4, <2>1, <2>2, <2>3, <2>4
  <1>9. EditorIsWell'
    BY <1>1, <1>2 DEF EditorIsWell
  <1>10. OneSave' /\ BusyIsSaving'
    BY <1>1, <1>2, <1>5 DEF FormInv, OneSave, BusyIsSaving
  <1>11. QED
    BY <1>1, <1>6, <1>7, <1>8, <1>9, <1>10 DEF FormInv

(* A read fails: the form stays as it is.                                  *)
LEMMA ReadFailsKeepsInv == FormInv /\ ReadFails => FormInv'
  <1> SUFFICES ASSUME FormInv, ReadFails PROVE FormInv'
    OBVIOUS
  <1>1. /\ page.state = "waiting" /\ page' = [page EXCEPT !.state = "failed"]
        /\ UNCHANGED <<kind, stored, form, editor, saving, openings, changes>>
    BY DEF ReadFails
  <1>2. page.at = "form" /\ editor.open = FALSE
    BY <1>1, WaitingIsClosed
  <1>3. page \in Pages(kind, Len(stored), openings)
    BY DEF FormInv, PageIsWell
  <1>4. /\ page' \in Pages(kind, Len(stored), openings)
        /\ page'.at = "form" /\ page'.opening = page.opening
        /\ page'.busy = page.busy /\ page'.thrown = page.thrown
        /\ page'.state = "failed"
    BY <1>1, <1>2, <1>3 DEF Pages
  <1>5. PageIsWell'
    BY <1>1, <1>4 DEF FormInv, PageIsWell
  <1>6. StoredAreWell' /\ SavingAreWell'
    BY <1>1, NothingStored
  <1>7. FormIsWell'
    BY <1>1, <1>4 DEF FormInv, FormIsWell, Faithful, HasRead
  <1>8. EditorIsWell'
    BY <1>1, <1>2 DEF EditorIsWell
  <1>9. OneSave' /\ BusyIsSaving'
    BY <1>1, <1>2, <1>4 DEF FormInv, OneSave, BusyIsSaving
  <1>10. QED
    BY <1>1, <1>5, <1>6, <1>7, <1>8, <1>9 DEF FormInv

(* What the user does.                                                     *)
LEMMA ChangeKeepsInv == FormInv /\ Change => FormInv'
  <1> SUFFICES ASSUME FormInv, Change PROVE FormInv'
    OBVIOUS
  <1>1. /\ page.at = "form" /\ ~editor.open /\ changes < MaxChanges /\ changes' = changes + 1
        /\ UNCHANGED <<kind, stored, editor, saving, openings>>
    BY DEF Change, AtForm
  <1>2. PICK g \in Forms[kind].edits : \E v \in Controls[g] :
          /\ Settable(g, v)
          /\ form' = [form EXCEPT ![g] = Set(g, v, form[g])]
          /\ page' = [page EXCEPT !.changed = page.changed \cup {g}]
    BY DEF Change
  <1>3. PICK v \in Controls[g] :
          /\ Settable(g, v)
          /\ form' = [form EXCEPT ![g] = Set(g, v, form[g])]
          /\ page' = [page EXCEPT !.changed = page.changed \cup {g}]
    BY <1>2
  <1>4. kind \in FormKinds /\ g \in Facets(kind) /\ page \in Pages(kind, Len(stored), openings)
    BY KindIsKnown, EditsOfKinds DEF FormInv, PageIsWell
  <1>5. /\ page' \in Pages(kind, Len(stored), openings)
        /\ page'.at = "form" /\ page'.of = page.of /\ page'.opening = page.opening
        /\ page'.busy = page.busy /\ page'.thrown = page.thrown /\ page'.state = page.state
        /\ page'.changed = page.changed \cup {g}
    BY <1>1, <1>3, <1>4 DEF Pages
  <1>6. PageIsWell'
    BY <1>1, <1>5 DEF FormInv, PageIsWell
  <1>7. StoredAreWell' /\ SavingAreWell'
    BY <1>1, NothingStored
  <1>8. FormIsWell'
    <2>1. form = [f \in Facets(kind) |-> form[f]] /\ \A f \in Facets(kind) : Fit(kind, f, form[f])
      BY DEF FormInv, FormIsWell
    <2>2. /\ form' = [f \in Facets(kind) |-> form'[f]]
          /\ form'[g] = Set(g, v, form[g])
          /\ \A f \in Facets(kind) \ {g} : form'[f] = form[f]
      BY <1>3, <1>4, <2>1
    <2>3. Fit(kind, g, Set(g, v, form[g]))
      BY <1>3, <1>4, <2>1, SetFits DEF Settable
    <2>4. \A f \in Facets(kind) : Fit(kind, f, form'[f])
      BY <2>1, <2>2, <2>3
    <2>5. HasRead' => HasRead
      BY <1>1, <1>5 DEF HasRead
    <2>6. HasRead => \A f \in Facets(kind) \ page.changed :
                       Survives(kind, f, stored[page.of].text[f], TextOf(kind, f, form[f]))
      BY DEF FormInv, FormIsWell, Faithful
    <2>7. HasRead' => \A f \in Facets(kind) \ page'.changed :
                        Survives(kind, f, stored[page.of].text[f], TextOf(kind, f, form'[f]))
      BY <1>5, <2>2, <2>5, <2>6
    <2>8. QED
      BY <1>1, <1>5, <2>2, <2>4, <2>7 DEF FormIsWell, Faithful
  <1>9. EditorIsWell'
    BY <1>1 DEF FormInv, EditorIsWell
  <1>10. OneSave' /\ BusyIsSaving'
    BY <1>1, <1>5 DEF FormInv, OneSave, BusyIsSaving
  <1>11. changes' \in 0..MaxChanges
    BY <1>1, FormAssumption DEF FormInv
  <1>12. QED
    BY <1>1, <1>6, <1>7, <1>8, <1>9, <1>10, <1>11 DEF FormInv

(* The form of a text that keeps what was kept.                            *)
LEMMA KeptIsWell ==
  ASSUME FormInv, form' = Kept, kind' = kind, stored' = stored, HasRead' => HasRead,
         page'.of = page.of, page'.changed = page.changed
  PROVE  FormIsWell'
  <1>1. /\ form' = [f \in Facets(kind) |-> form'[f]]
        /\ \A f \in Facets(kind) : /\ Fit(kind, f, form'[f])
                                   /\ TextOf(kind, f, form'[f]) = TextOf(kind, f, form[f])
    BY KeptFits
  <1>2. HasRead => \A f \in Facets(kind) \ page.changed :
                     Survives(kind, f, stored[page.of].text[f], TextOf(kind, f, form[f]))
    BY DEF FormInv, FormIsWell, Faithful
  <1>3. HasRead' => \A f \in Facets(kind) \ page.changed :
                      Survives(kind, f, stored[page.of].text[f], TextOf(kind, f, form'[f]))
    BY <1>1, <1>2
  <1>4. QED
    BY <1>1, <1>3 DEF FormIsWell, Faithful

(* The editor gets the text of the form.                                   *)
LEMMA OpenEditorKeepsInv == FormInv /\ OpenEditor => FormInv'
  <1> SUFFICES ASSUME FormInv, OpenEditor PROVE FormInv'
    OBVIOUS
  <1>1. /\ page.at = "form" /\ ~editor.open /\ ~WritingThrows
        /\ editor' = [open |-> TRUE, text |-> Generated] /\ form' = Kept
        /\ UNCHANGED <<kind, stored, page, saving, openings, changes>>
    BY DEF OpenEditor, AtForm
  <1>2. PageIsWell'
    BY <1>1 DEF FormInv, PageIsWell
  <1>3. StoredAreWell' /\ SavingAreWell'
    BY <1>1, NothingStored
  <1>4. HasRead' <=> HasRead
    BY <1>1 DEF HasRead
  <1>5. FormIsWell'
    BY <1>1, <1>4, KeptIsWell
  <1>6. EditorIsWell'
    <2>1. page.state \in {"ready", "halfway"}
      BY <1>1 DEF FormInv, PageIsWell, Pages, WritingThrows
    <2>2. Generated \in TextsIn(kind) /\ Faithful(Generated)
      BY GeneratedIsText
    <2>3. editor'.open = TRUE /\ editor'.text = Generated
      BY <1>1
    <2>4. QED
      BY <1>1, <1>4, <2>1, <2>2, <2>3 DEF EditorIsWell, Faithful
  <1>7. OneSave' /\ BusyIsSaving'
    BY <1>1 DEF FormInv, OneSave, BusyIsSaving
  <1>8. QED
    BY <1>1, <1>2, <1>3, <1>5, <1>6, <1>7 DEF FormInv

(* The editor is closed, and the form is as it was.                        *)
LEMMA CloseEditorKeepsInv == FormInv /\ CloseEditor => FormInv'
  <1> SUFFICES ASSUME FormInv, CloseEditor PROVE FormInv'
    OBVIOUS
  <1>1. editor' = NoEditor /\ UNCHANGED <<kind, stored, page, form, saving, openings, changes>>
    BY DEF CloseEditor
  <1>2. StoredAreWell' /\ SavingAreWell'
    BY <1>1, NothingStored
  <1>3. FormIsWell'
    BY <1>1 DEF FormInv, FormIsWell, Faithful, HasRead
  <1>4. PageIsWell' /\ OneSave' /\ BusyIsSaving'
    BY <1>1 DEF FormInv, PageIsWell, OneSave, BusyIsSaving
  <1>5. EditorIsWell'
    BY <1>1 DEF EditorIsWell, NoEditor
  <1>6. QED
    BY <1>1, <1>2, <1>3, <1>4, <1>5 DEF FormInv

(* The form shows a text that the editor gave back, which says what was    *)
(* read in all that the user did not change, in the form or in the editor. *)
LEMMA EditedIsWell ==
  ASSUME FormInv, NEW text \in TextsIn(kind), form' = Opened(text, FALSE),
         kind' = kind, stored' = stored, HasRead' => HasRead,
         page'.of = page.of, page.changed \subseteq page'.changed, page'.changed \subseteq Facets(kind),
         HasRead => \A f \in Facets(kind) \ page'.changed :
                      Survives(kind, f, stored[page.of].text[f], text[f])
  PROVE  FormIsWell'
  <1>1. /\ form' = [f \in Facets(kind) |-> form'[f]]
        /\ \A f \in Facets(kind) : /\ form'[f] = Taken(kind, f, text[f], form[f], FALSE)
                                   /\ Fit(kind, f, form'[f])
    BY OpenedFits
  <1>2. ASSUME HasRead, NEW f \in Facets(kind) \ page'.changed
        PROVE  Survives(kind, f, stored[page.of].text[f], TextOf(kind, f, form'[f]))
    <2> DEFINE p == stored[page.of].text[f]
    <2>1. /\ kind \in FormKinds /\ text[f] \in TextsOf(f) /\ Fit(kind, f, form[f])
          /\ f \in Facets(kind) \ page.changed
      BY KindIsKnown, TextHas DEF FormInv, FormIsWell
    <2>2. Survives(kind, f, p, text[f]) /\ Survives(kind, f, p, TextOf(kind, f, form[f]))
      BY <1>2, <2>1 DEF FormInv, FormIsWell, Faithful
    <2>3. p \in TextsOf(f)
      <3>1. stored \in Seq(Templates(kind)) /\ page.of \in 1..Len(stored)
        BY <1>2 DEF FormInv, PageIsWell, Pages, StoredAreWell, HasRead
      <3>2. stored[page.of] \in Templates(kind)
        BY <3>1
      <3>3. stored[page.of].text \in TextsIn(kind)
        BY <3>2 DEF Templates
      <3>4. QED
        BY <3>3, TextHas
    <2> HIDE DEF p
    <2>4. Survives(kind, f, p, TextOf(kind, f, Taken(kind, f, text[f], form[f], FALSE)))
      BY <2>1, <2>2, <2>3, WrittenSurvives
    <2>5. QED
      BY <1>1, <2>1, <2>4 DEF p
  <1>3. QED
    BY <1>1, <1>2 DEF FormIsWell, Faithful

(* The form takes the text of the editor, changed or not.                  *)
LEMMA SaveEditorKeepsInv == FormInv /\ SaveEditor => FormInv'
  <1> SUFFICES ASSUME FormInv, SaveEditor PROVE FormInv'
    OBVIOUS
  <1>1. editor.open /\ editor' = NoEditor /\ UNCHANGED <<kind, stored, saving, openings>>
    BY DEF SaveEditor
  <1>2. /\ page.at = "form" /\ page.state \in {"ready", "halfway"}
        /\ editor.text \in TextsIn(kind) /\ Faithful(editor.text)
    BY <1>1 DEF FormInv, EditorIsWell
  <1>3. page \in Pages(kind, Len(stored), openings)
    BY DEF FormInv, PageIsWell
  <1>4. StoredAreWell' /\ SavingAreWell'
    BY <1>1, NothingStored
  <1>5. EditorIsWell'
    BY <1>1 DEF EditorIsWell, NoEditor
  <1>6. CASE form' = Opened(editor.text, FALSE) /\ UNCHANGED <<page, changes>>
    <2>1. HasRead' <=> HasRead
      BY <1>6 DEF HasRead
    <2>2. FormIsWell'
      BY <1>1, <1>2, <1>3, <1>6, <2>1, EditedIsWell DEF Faithful, Pages
    <2>3. PageIsWell' /\ OneSave' /\ BusyIsSaving'
      BY <1>1, <1>6 DEF FormInv, PageIsWell, OneSave, BusyIsSaving
    <2>4. QED
      BY <1>1, <1>4, <1>5, <1>6, <2>2, <2>3 DEF FormInv
  <1>7. ASSUME changes < MaxChanges, changes' = changes + 1,
               NEW g \in Facets(kind) \ {"clusters"}, NEW t \in Texts[g],
               form' = Opened([editor.text EXCEPT ![g] = t], FALSE),
               page' = [page EXCEPT !.changed = page.changed \cup {g}]
        PROVE  FormInv'
    <2> DEFINE text == [editor.text EXCEPT ![g] = t]
    <2>1. /\ page' \in Pages(kind, Len(stored), openings)
          /\ page'.at = "form" /\ page'.of = page.of /\ page'.opening = page.opening
          /\ page'.busy = page.busy /\ page'.thrown = page.thrown /\ page'.state = page.state
          /\ page'.changed = page.changed \cup {g} /\ page.changed \subseteq Facets(kind)
      BY <1>2, <1>3, <1>7 DEF Pages
    <2>2. /\ editor.text \in [Facets(kind) -> UNION {TextsOf(f) : f \in Facets(kind)}]
          /\ \A f \in Facets(kind) : editor.text[f] \in TextsOf(f)
      BY <1>2 DEF TextsIn
    <2>3. t \in TextsOf(g)
      BY KindIsKnown, TextsAreTexts, <1>7 DEF FormInv
    <2>4. text \in TextsIn(kind) /\ \A f \in Facets(kind) \ {g} : text[f] = editor.text[f]
      BY <1>7, <2>2, <2>3 DEF TextsIn
    <2>5. HasRead' <=> HasRead
      BY <1>2, <2>1 DEF HasRead
    <2>6. HasRead => \A f \in Facets(kind) \ page'.changed :
                       Survives(kind, f, stored[page.of].text[f], text[f])
      BY <1>2, <2>1, <2>4 DEF Faithful
    <2> HIDE DEF text
    <2>7. form' = Opened(text, FALSE)
      BY <1>7 DEF text
    <2>8. FormIsWell'
      BY <1>1, <2>1, <2>4, <2>5, <2>6, <2>7, EditedIsWell
    <2>9. PageIsWell'
      BY <1>1, <1>2, <2>1 DEF FormInv, PageIsWell
    <2>10. OneSave' /\ BusyIsSaving'
      BY <1>1, <1>2, <2>1 DEF FormInv, OneSave, BusyIsSaving
    <2>11. changes' \in 0..MaxChanges
      BY <1>7, FormAssumption DEF FormInv
    <2>12. QED
      BY <1>1, <1>4, <1>5, <2>8, <2>9, <2>10, <2>11 DEF FormInv
  <1>8. QED
    BY <1>6, <1>7 DEF SaveEditor

(* What is submitted is well written: a form writes only what it can show, *)
(* and of what was read and not changed it writes what was read.           *)
LEMMA SubmittedIsWell ==
  ASSUME FormInv, page.at = "form", ~Throws
  PROVE  WellWritten(kind, stored,
           Template(Generated, page.of, page.of # 0 /\ page.state = "ready", page.changed))
  <1> DEFINE r == page.of # 0 /\ page.state = "ready"
             t == Template(Generated, page.of, r, page.changed)
  <1>1. page \in Pages(kind, Len(stored), openings) /\ page.state \in {"ready", "halfway"}
    BY DEF FormInv, PageIsWell, Pages, Throws, WritingThrows
  <1>2. page.of \in 0..Len(stored) /\ page.changed \subseteq Facets(kind)
    BY <1>1 DEF Pages
  <1>3. /\ Generated \in TextsIn(kind) /\ Faithful(Generated)
        /\ \A f \in Facets(kind) : ShowsIn(kind, f, Generated[f])
    BY GeneratedIsText
  <1>4. /\ t.text = Generated /\ t.from = page.of /\ t.read = r /\ t.changed = page.changed
        /\ t.broken = FALSE
    BY DEF Template
  <1>5. t \in Templates(kind)
    BY <1>2, <1>3 DEF Template, Templates
  <1>6. r <=> HasRead
    BY DEF HasRead
  <1>7. page.of # 0 => r \/ stored[page.of].broken
    BY <1>1 DEF FormInv, PageIsWell
  <1>8. r => \A f \in Facets(kind) \ page.changed :
               Survives(kind, f, stored[page.of].text[f], Generated[f])
    BY <1>3, <1>6 DEF Faithful
  <1> HIDE DEF t
  <1>9. WellWritten(kind, stored, t)
    BY <1>2, <1>3, <1>4, <1>5, <1>7, <1>8 DEF WellWritten
  <1>10. QED
    BY <1>9 DEF t

(* A submit throws, or sends a template that is well written.              *)
LEMMA SubmitKeepsInv == FormInv /\ Submit => FormInv'
  <1> SUFFICES ASSUME FormInv, Submit PROVE FormInv'
    OBVIOUS
  <1>1. /\ page.at = "form" /\ ~editor.open /\ ~page.busy
        /\ UNCHANGED <<kind, stored, editor, openings, changes>>
    BY DEF Submit, AtForm
  <1>2. page \in Pages(kind, Len(stored), openings) /\ page.thrown = FALSE
    BY <1>1 DEF FormInv, PageIsWell, Pages
  <1>3. \A s \in saving : s.opening # page.opening
    BY <1>1 DEF FormInv, OneSave
  <1>4. EditorIsWell'
    BY <1>1 DEF FormInv, EditorIsWell
  <1>5. CASE Throws
    <2>1. page' = [page EXCEPT !.busy = TRUE, !.thrown = TRUE] /\ UNCHANGED <<form, saving>>
      BY <1>5 DEF Submit
    <2>2. /\ page' \in Pages(kind, Len(stored), openings)
          /\ page'.at = "form" /\ page'.of = page.of /\ page'.opening = page.opening
          /\ page'.busy = TRUE /\ page'.thrown = TRUE /\ page'.state = page.state
          /\ page'.changed = page.changed
      BY <1>1, <1>2, <2>1 DEF Pages
    <2>3. StoredAreWell' /\ SavingAreWell'
      BY <1>1, <2>1, NothingStored
    <2>4. FormIsWell'
      BY <1>1, <2>1, <2>2 DEF FormInv, FormIsWell, Faithful, HasRead
    <2>5. PageIsWell'
      BY <1>1, <2>2 DEF FormInv, PageIsWell
    <2>6. OneSave' /\ BusyIsSaving'
      BY <1>1, <1>3, <2>1, <2>2 DEF FormInv, OneSave, BusyIsSaving
    <2>7. QED
      BY <1>1, <1>4, <2>3, <2>4, <2>5, <2>6 DEF FormInv
  <1>6. CASE ~Throws
    <2> DEFINE t == Template(Generated, page.of, page.of # 0 /\ page.state = "ready", page.changed)
               s == [opening |-> page.opening, template |-> t]
    <2>1. page' = [page EXCEPT !.busy = TRUE] /\ form' = Kept /\ saving' = saving \cup {s}
      BY <1>6 DEF Submit
    <2>2. /\ page' \in Pages(kind, Len(stored), openings)
          /\ page'.at = "form" /\ page'.of = page.of /\ page'.opening = page.opening
          /\ page'.busy = TRUE /\ page'.thrown = FALSE /\ page'.state = page.state
          /\ page'.changed = page.changed
      BY <1>1, <1>2, <2>1 DEF Pages
    <2>3. WellWritten(kind, stored, t)
      BY <1>1, <1>6, SubmittedIsWell
    <2> HIDE DEF t
    <2>4. s.opening = page.opening /\ s.template = t
      OBVIOUS
    <2> HIDE DEF s
    <2>5. StoredAreWell' /\ SavingAreWell'
      BY <1>1, <2>1, <2>3, <2>4 DEF FormInv, StoredAreWell, SavingAreWell
    <2>6. HasRead' <=> HasRead
      BY <1>1, <2>2 DEF HasRead
    <2>7. FormIsWell'
      BY <1>1, <2>1, <2>2, <2>6, KeptIsWell
    <2>8. PageIsWell'
      BY <1>1, <2>2 DEF FormInv, PageIsWell
    <2>9. OneSave'
      <3>1. page.opening \in 1..openings
        <4>1. page.opening \in 0..openings
          BY <1>2 DEF Pages
        <4>2. page.opening # 0
          BY <1>1 DEF FormInv, PageIsWell
        <4>3. QED
          BY <4>1, <4>2
      <3>2. QED
        BY <1>1, <1>3, <2>1, <2>2, <2>4, <3>1 DEF FormInv, OneSave
    <2>10. BusyIsSaving'
      BY <2>1, <2>2, <2>4 DEF BusyIsSaving
    <2>11. QED
      BY <1>1, <1>4, <2>5, <2>7, <2>8, <2>9, <2>10 DEF FormInv
  <1>7. QED
    BY <1>5, <1>6

(* The list is shown again, with nothing open.                             *)
LEMMA ListIsWell ==
  ASSUME FormInv, GoToList, kind' = kind, openings' = openings, Len(stored') \in Nat,
         saving' \subseteq saving
  PROVE  /\ PageIsWell' /\ FormIsWell' /\ EditorIsWell' /\ OneSave' /\ BusyIsSaving'
         /\ changes' \in 0..MaxChanges
  <1>1. /\ page' = List /\ form' = [f \in Facets(kind) |-> NewForm[f]] /\ editor' = NoEditor
        /\ changes' = 0
    BY DEF GoToList, Default
  <1>2. /\ page'.at = "list" /\ page'.of = 0 /\ page'.opening = 0 /\ page'.state = "ready"
        /\ page'.busy = FALSE /\ page'.thrown = FALSE
    BY <1>1 DEF List, Page
  <1>3. openings \in Nat
    BY FormAssumption DEF FormInv
  <1>4. page' \in Pages(kind, Len(stored'), openings)
    BY <1>1, <1>3 DEF List, Page, Pages
  <1>5. PageIsWell'
    BY <1>1, <1>2, <1>4 DEF PageIsWell, List, Page
  <1>6. FormIsWell'
    <2>1. \A f \in Facets(kind) : Fit(kind, f, NewForm[f])
      BY KindIsKnown, NewFits DEF FormInv
    <2>2. ~HasRead'
      BY <1>2 DEF HasRead
    <2>3. QED
      BY <1>1, <2>1, <2>2 DEF FormIsWell, Faithful
  <1>7. EditorIsWell'
    BY <1>1 DEF EditorIsWell, NoEditor
  <1>8. OneSave' /\ BusyIsSaving'
    BY <1>2, <1>3 DEF FormInv, OneSave, BusyIsSaving
  <1>9. changes' \in 0..MaxChanges
    BY <1>1, FormAssumption
  <1>10. QED
    BY <1>5, <1>6, <1>7, <1>8, <1>9

(* The form is left.                                                       *)
LEMMA LeaveKeepsInv == FormInv /\ Leave => FormInv'
  <1> SUFFICES ASSUME FormInv, Leave PROVE FormInv'
    OBVIOUS
  <1>1. GoToList /\ UNCHANGED <<kind, stored, saving, openings>>
    BY DEF Leave
  <1>2. Len(stored') \in Nat
    BY <1>1 DEF FormInv, StoredAreWell
  <1>3. StoredAreWell' /\ SavingAreWell'
    BY <1>1, NothingStored
  <1>4. QED
    BY <1>1, <1>2, <1>3, ListIsWell DEF FormInv

(* A template that was being saved is stored.                              *)
LEMMA SavedIsWell ==
  ASSUME FormInv, NEW s \in saving, kind' = kind, saving' = saving \ {s},
         stored' = Append(stored, s.template)
  PROVE  /\ StoredAreWell' /\ SavingAreWell' /\ Len(stored) \in Nat
         /\ Len(stored') = Len(stored) + 1 /\ \A i \in 1..Len(stored) : stored'[i] = stored[i]
  <1>1. WellWritten(kind, stored, s.template) /\ StoredAreWell
    BY DEF FormInv, SavingAreWell
  <1>2. stored \in Seq(Templates(kind)) /\ s.template \in Templates(kind)
    BY <1>1 DEF StoredAreWell, WellWritten
  <1>3. SavingAreWell'
    <2>1. \A r \in saving : WellWritten(kind, Append(stored, s.template), r.template)
      BY <1>2, WellStays DEF FormInv, SavingAreWell
    <2>2. QED
      BY <2>1 DEF SavingAreWell
  <1>4. QED
    BY <1>1, <1>3, StoringIsWell

(* A template is stored, and the list is shown.                            *)
LEMMA StoredKeepsInv == ASSUME FormInv, NEW s \in saving, Stored(s) PROVE FormInv'
  <1>1. /\ saving' = saving \ {s} /\ stored' = Append(stored, s.template) /\ GoToList
        /\ UNCHANGED <<kind, openings>>
    BY DEF Stored
  <1>2. StoredAreWell' /\ SavingAreWell' /\ Len(stored') \in Nat
    BY <1>1, SavedIsWell
  <1>3. QED
    BY <1>1, <1>2, ListIsWell DEF FormInv

(* A save fails for the form, which is released if the save was its own.   *)
LEMMA RefusedKeepsInv == ASSUME FormInv, NEW s \in saving, Refused(s) PROVE FormInv'
  <1>1. /\ saving' = saving \ {s}
        /\ page' = IF s.opening = page.opening THEN [page EXCEPT !.busy = FALSE] ELSE page
        /\ stored' = stored \/ stored' = Append(stored, s.template)
        /\ UNCHANGED <<kind, form, editor, openings, changes>>
    BY DEF Refused
  <1>2. /\ StoredAreWell' /\ SavingAreWell' /\ Len(stored) \in Nat /\ Len(stored') \in Nat
        /\ Len(stored) <= Len(stored') /\ \A i \in 1..Len(stored) : stored'[i] = stored[i]
    <2>1. CASE stored' = stored
      <3>1. StoredAreWell' /\ SavingAreWell'
        BY <1>1, <2>1 DEF FormInv, StoredAreWell, SavingAreWell
      <3>2. Len(stored) \in Nat
        BY DEF FormInv, StoredAreWell
      <3>3. QED
        BY <2>1, <3>1, <3>2
    <2>2. CASE stored' = Append(stored, s.template)
      BY <1>1, <2>2, SavedIsWell
    <2>3. QED
      BY <1>1, <2>1, <2>2
  <1>3. page \in Pages(kind, Len(stored), openings)
    BY DEF FormInv, PageIsWell
  <1>4. s.opening = page.opening => page.busy /\ ~page.thrown
    BY DEF FormInv, OneSave
  <1>5. /\ page' \in Pages(kind, Len(stored'), openings)
        /\ page'.at = page.at /\ page'.of = page.of /\ page'.opening = page.opening
        /\ page'.thrown = page.thrown /\ page'.state = page.state /\ page'.changed = page.changed
        /\ page'.busy = IF s.opening = page.opening THEN FALSE ELSE page.busy
    <2>1. page \in Pages(kind, Len(stored'), openings) /\ page.of \in 0..Len(stored')
      BY <1>2, <1>3 DEF Pages
    <2>2. CASE s.opening = page.opening
      BY <1>1, <2>1, <2>2 DEF Pages
    <2>3. CASE s.opening # page.opening
      BY <1>1, <2>1, <2>3
    <2>4. QED
      BY <2>2, <2>3
  <1>6. page.of # 0 => stored'[page.of] = stored[page.of]
    BY <1>2, <1>3 DEF Pages
  <1>7. s.opening \in 1..openings
    BY DEF FormInv, OneSave
  <1>8. PageIsWell'
    <2>1. page.at = "list" => page' = List
      <3>1. page.at = "list" => page = List
        BY DEF FormInv, PageIsWell
      <3>2. List.opening = 0
        BY DEF List, Page
      <3>3. QED
        BY <1>1, <1>7, <3>1, <3>2
    <2>2. page'.state = "halfway" => page'.of # 0 /\ stored'[page'.of].broken
      BY <1>5, <1>6 DEF FormInv, PageIsWell
    <2>3. page'.thrown => page'.busy
      BY <1>4, <1>5 DEF FormInv, PageIsWell
    <2>4. page'.at = "form" => page'.opening # 0
      BY <1>5 DEF FormInv, PageIsWell
    <2>5. QED
      BY <1>1, <1>5, <2>1, <2>2, <2>3, <2>4 DEF PageIsWell
  <1>9. HasRead' <=> HasRead
    BY <1>5 DEF HasRead
  <1>10. FormIsWell'
    BY <1>1, <1>5, <1>6, <1>9 DEF FormInv, FormIsWell, Faithful, HasRead
  <1>11. EditorIsWell'
    BY <1>1, <1>5, <1>6, <1>9 DEF FormInv, EditorIsWell, Faithful, HasRead
  <1>12. OneSave'
    BY <1>1, <1>5 DEF FormInv, OneSave
  <1>13. BusyIsSaving'
    <2>1. CASE s.opening = page.opening
      <3>1. page'.busy = FALSE /\ page'.thrown = FALSE
        BY <1>4, <1>5, <2>1
      <3>2. \A r \in saving' : r.opening # page'.opening
        BY <1>1, <1>5, <2>1 DEF FormInv, OneSave
      <3>3. QED
        BY <3>1, <3>2 DEF BusyIsSaving
    <2>2. CASE s.opening # page.opening
      BY <1>1, <1>5, <2>2 DEF FormInv, BusyIsSaving
    <2>3. QED
      BY <2>1, <2>2
  <1>14. QED
    BY <1>1, <1>2, <1>8, <1>10, <1>11, <1>12, <1>13 DEF FormInv

(* The inductive invariant, from its steps.                                *)
THEOREM FormInvariant == Spec => []FormInv
  <1>1. ASSUME FormInv, UNCHANGED vars PROVE FormInv'
    BY <1>1 DEF vars, FormInv, PageIsWell, StoredAreWell, SavingAreWell, FormIsWell, EditorIsWell,
                Faithful, HasRead, OneSave, BusyIsSaving
  <1>2. FormInv /\ [Next]_vars => FormInv'
    BY <1>1, OpenKeepsInv, AnsweredKeepsInv, ReadFailsKeepsInv, ChangeKeepsInv, OpenEditorKeepsInv,
       CloseEditorKeepsInv, SaveEditorKeepsInv, SubmitKeepsInv, LeaveKeepsInv, StoredKeepsInv,
       RefusedKeepsInv DEF Next, SaveAnswered
  <1>3. QED
    BY <1>2, FormInit, PTL DEF Spec

(***************************************************************************)
(* The properties.                                                         *)
(***************************************************************************)
(* The state is of its types: what a form shows fits the facet.            *)
THEOREM FormTyped == Spec => []TypeOK
  <1>1. FormInv => TypeOK
    <2> SUFFICES ASSUME FormInv PROVE TypeOK
      OBVIOUS
    <2>1. ASSUME NEW i \in 1..Len(stored)
          PROVE  /\ DOMAIN stored[i].text = Facets(kind)
                 /\ stored[i].from \in 0..(i - 1)
                 /\ stored[i].changed \subseteq Facets(kind)
      <3>1. stored \in Seq(Templates(kind)) /\ Len(stored) \in Nat
        BY DEF FormInv, StoredAreWell
      <3>2. stored[i] \in Templates(kind)
        BY <3>1
      <3>3. /\ stored[i].text \in TextsIn(kind) /\ stored[i].from \in Nat
            /\ stored[i].changed \subseteq Facets(kind)
        BY <3>2 DEF Templates
      <3>4. stored[i].from < i
        BY <3>1 DEF FormInv, StoredAreWell
      <3>5. QED
        BY <3>3, <3>4, TextHas
    <2>2. /\ page \in Pages(kind, Len(stored), openings)
          /\ page.state = "waiting" => page.at = "form"
          /\ page.thrown => page.busy
      BY DEF FormInv, PageIsWell, Pages, List, Page
    <2>3. \A f \in Facets(kind) : form[f] \in Displays[f]
      BY DEF FormInv, FormIsWell, Fit
    <2>4. editor.open => page.at = "form" /\ DOMAIN editor.text = Facets(kind)
      BY TextHas DEF FormInv, EditorIsWell
    <2>5. openings \in Nat /\ \A s \in saving : s.opening <= openings
      BY FormAssumption DEF FormInv, OneSave
    <2>6. kind \in Kinds /\ openings <= MaxOpenings /\ changes <= MaxChanges
      BY FormAssumption DEF FormInv
    <2>7. QED
      BY <2>1, <2>2, <2>3, <2>4, <2>5, <2>6 DEF TypeOK, Pages
  <1>2. QED
    BY <1>1, FormInvariant, PTL

(* What the user did not change survives opening, the editor and saving,   *)
(* as far as a form can show it, and a form writes nothing else.           *)
THEOREM FormKeepsUnchanged == Spec => []UnchangedIsKept
  <1>1. \A f, t : Shows(f, t) <=> ShowsIn(kind, f, t)
    BY DEF Shows, ShowsIn
  <1>2. FormInv => UnchangedIsKept
    <2> SUFFICES ASSUME FormInv, NEW i \in 2..Len(stored), NEW f \in Facets(kind)
                 PROVE  /\ Shows(f, stored[i].text[f])
                        /\ stored[i].read /\ f \notin stored[i].changed =>
                             (Shows(f, stored[stored[i].from].text[f]) =>
                                Same(f, stored[stored[i].from].text[f], stored[i].text[f]))
      BY DEF UnchangedIsKept
    <2>1. WellWritten(kind, stored, stored[i])
      BY DEF FormInv, StoredAreWell
    <2>2. QED
      BY <1>1, <2>1 DEF WellWritten, Survives
  <1>3. QED
    BY <1>2, FormInvariant, PTL

(* What a form showed before it had read its template is never saved in    *)
(* its stead, unless the conversion of the template threw.                 *)
THEOREM FormSavesWhatWasRead == Spec => []UnreadIsNotSaved
  <1>1. FormInv => UnreadIsNotSaved
    BY DEF FormInv, StoredAreWell, WellWritten, UnreadIsNotSaved
  <1>2. QED
    BY <1>1, FormInvariant, PTL

(* A form is busy exactly while its own save is under way, or it has       *)
(* thrown: an answer releases its form, and no other.                      *)
THEOREM FormIsReleased == Spec => []BusyIsSaving
  <1>1. FormInv => BusyIsSaving
    BY DEF FormInv
  <1>2. QED
    BY <1>1, FormInvariant, PTL
===============================================================================
