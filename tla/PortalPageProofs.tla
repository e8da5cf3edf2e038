--------------------------- MODULE PortalPageProofs ---------------------------
(***************************************************************************)
(* What is proved of PortalPage, for every set of kinds, resources,        *)
(* clusters and slots, every workload and every bound: that its variables  *)
(* keep their types, what a page that was left no longer does, what a      *)
(* deletion deletes, which resource is selected when the answers have      *)
(* come, and that the list is true then.                                   *)
(*                                                                         *)
(* The invariant is split by what it speaks of: the requests, the publish  *)
(* dialog, the selection, the first request of the page, the tabs, and the *)
(* list.  Each part is an operator of the variables that it depends on.    *)
(***************************************************************************)
EXTENDS PortalPage, FiniteSetTheorems, WellFoundedInduction, TLAPS

ForTabs == {"init", "list"}

(* A request for templates names a resource, and of the requests for the   *)
(* tabs one is the latest.                                                 *)
NetIsWell(n) ==
  /\ \A s \in Slots : n[s].call = "templates" => n[s].id # 0
  /\ \A s, t \in Slots :
       n[s].call \in ForTabs /\ n[t].call \in ForTabs /\ n[s].latest /\ n[t].latest => s = t

(* Only forkJoin lets requests of the dialog wait for one another.         *)
CallsAreWell(k, cl) ==
  \A c \in Clusters :
    cl[c].op = "publish" /\ ~Features[k].publishing.joins => cl[c].batch = {c}

(* A page without a selection has seen no resources, and so it has deleted *)
(* that of its address.                                                    *)
SelectionIsWell(k, p, d, del, n) ==
  /\ d \cap del = {}
  /\ Features[k].selection.keeps => p.id # 0
  /\ ~Features[k].selection.keeps =>
       /\ p.route \in d \cup del
       /\ \A s \in Slots :
            n[s].call \in ForTabs /\ n[s].at = "served" => p.route \in n[s].ids \cup del
       /\ p.id = 0 => p.loaded /\ p.route \in del

Undeleted(n) == \A s \in Slots : n[s].call # "delete"

First(q) == q.call = "init" /\ ~q.refresh /\ q.latest

(* Until the first request is answered, or overtaken, the page has no tabs *)
(* and stays where it was opened.                                          *)
FirstIsAlone(n, p, a, d, t) ==
  \A s \in Slots : First(n[s]) =>
    /\ p.ids = {} /\ ~p.loaded /\ p.id # 0 /\ a \in {0, p.id}
    /\ \A u \in Slots : n[u].call \in ForTabs => u = s
    /\ ~t /\ Undeleted(n) => p.id \in d /\ (n[s].at = "served" => p.id \in n[s].ids)

(* The latest answer for the tabs names no deleted resource...             *)
AnswersAreClean(n, del, t) ==
  ~t /\ Undeleted(n) =>
    \A s \in Slots :
      n[s].call \in ForTabs /\ n[s].latest /\ n[s].at = "served" => n[s].ids \cap del = {}

(* ... nor do the tabs; and what is selected is not deleted, or there is   *)
(* no other, and its templates were the last asked for.                    *)
TabsAreClean(k, n, p, a, del, t, old) ==
  ~t /\ ~old /\ Undeleted(n) /\ (\A s \in Slots : n[s].call # "init") =>
    /\ p.ids \cap del = {}
    /\ p.id \in del => p.ids = {} /\ (\A s \in Slots : n[s].call = "list" => ~n[s].latest)
    /\ ~Features[k].selection.early /\ a # 0 /\ p.id # 0 => a = p.id

(* A change of publications whose dialog will refresh the page.            *)
Dirty(q) == (q.op = "publish" /\ q.at \in {"served", "joined"}) \/ q.at = "removed"

(* The clusters cs are those of r, or the page will retrieve them: the     *)
(* dialog makes it, or the page has no selection since and will when it    *)
(* selects r.                                                              *)
Right(r, cs, k, p, on, cl, del, old) ==
  ~p.left /\ ~old /\ r \notin del =>
    \/ cs = on[r]
    \/ \E c \in Clusters : Dirty(cl[c])
    \/ ~Features[k].selection.keeps /\ p.loaded /\ p.id # r /\ p.route # r

AnswerIsRight(k, n, p, on, cl, del, old) ==
  \A s \in Slots : n[s].call = "templates" /\ n[s].latest /\ n[s].at = "served" =>
    Right(n[s].id, n[s].clusters, k, p, on, cl, del, old)

ListIsRight(k, n, p, on, cl, del, old, mud) ==
  ~mud /\ p.of # 0 =>
    \/ Right(p.of, p.shown, k, p, on, cl, del, old)
    \/ \E s \in Slots : n[s].call = "templates" /\ n[s].latest

(* What the tabs, the selection and the list are, in a state that has its  *)
(* types.                                                                  *)
TabsAreWell(k, n, p, a, d, del, t, old) ==
  /\ NetIsWell(n)
  /\ SelectionIsWell(k, p, d, del, n)
  /\ FirstIsAlone(n, p, a, d, t)
  /\ AnswersAreClean(n, del, t)
  /\ TabsAreClean(k, n, p, a, del, t, old)

ListIsWell(k, n, p, on, cl, del, old, mud) ==
  /\ AnswerIsRight(k, n, p, on, cl, del, old)
  /\ ListIsRight(k, n, p, on, cl, del, old, mud)

PageInv ==
  /\ TypeOK
  /\ CallsAreWell(kind, calls)
  /\ TabsAreWell(kind, net, page, asked, db, deleted, told, oldTabs)
  /\ ListIsWell(kind, net, page, online, calls, deleted, oldTabs, muddled)

(***************************************************************************)
(* The kinds of page.                                                      *)
(***************************************************************************)
(* A page that may be without a selection asks for templates after it has  *)
(* selected, and leaves its address alone.                                 *)
LEMMA KindFacts ==
  ASSUME NEW k \in PageKinds
  PROVE  /\ Features[k].selection.keeps \in BOOLEAN
         /\ Features[k].selection.early \in BOOLEAN
         /\ Features[k].selection.navigates \in BOOLEAN
         /\ Features[k].selection.navigates => Features[k].selection.keeps
         /\ Features[k].selection.early => Features[k].selection.keeps
         /\ Features[k].publishing.joins \in BOOLEAN
         /\ Features[k].listing.looks
         /\ k # "autoscale" => Features[k].destruction.stops /\ Features[k].destruction.drops
<1>1. CASE k \in {"deployment", "statefulset", "daemonset"}
  BY <1>1 DEF Features, PageKinds, Kind, Selection, Publishing, Listing, Destruction,
     DeploymentSelection, StatefulsetSelection, DaemonsetSelection, DeploymentPublishing,
     StatefulsetPublishing, DaemonsetPublishing, DeploymentListing, StatefulsetListing,
     DaemonsetListing, DeploymentDestruction, StatefulsetDestruction, DaemonsetDestruction
<1>2. CASE k \in {"cronjob", "configmap"}
  BY <1>2 DEF Features, PageKinds, Kind, Selection, Publishing, Listing, Destruction,
     CronjobSelection, ConfigmapSelection, CronjobPublishing, ConfigmapPublishing,
     CronjobListing, ConfigmapListing, CronjobDestruction, ConfigmapDestruction
<1>3. CASE k \in {"secret", "service"}
  BY <1>3 DEF Features, PageKinds, Kind, Selection, Publishing, Listing, Destruction,
     SecretSelection, ServiceSelection, SecretPublishing, ServicePublishing,
     SecretListing, ServiceListing, SecretDestruction, ServiceDestruction
<1>4. CASE k \in {"ingress", "autoscale"}
  BY <1>4 DEF Features, PageKinds, Kind, Selection, Publishing, Listing, Destruction,
     BaseSelection, BasePublishing, BaseListing, IngressDestruction, AutoscaleDestruction
<1> QED  BY <1>1, <1>2, <1>3, <1>4 DEF PageKinds

(***************************************************************************)
(* Numbers.                                                                *)
(***************************************************************************)
(* A set of numbers has a least one.                                       *)
LEMMA MinIs ==
  ASSUME NEW S \in SUBSET Nat, S # {}
  PROVE  Min(S) \in S
<1>1. PICK x \in S : \A y \in S : <<y, x>> \notin OpToRel(<, Nat)
  BY WFMin, NatLessThanWellFounded
<1>2. \A y \in S : ~(y < x)
  BY <1>1 DEF OpToRel
<1>3. \A y \in S : x <= y
  BY <1>2
<1> QED  BY <1>3 DEF Min

(* The ordinals of the members of a set are 1 to their number.             *)
LEMMA OrdinalIs ==
  ASSUME NEW S \in SUBSET Nat, IsFiniteSet(S), NEW i \in 1..Cardinality(S)
  PROVE  \E c \in S : Ordinal(c, S) = i
<1> DEFINE N == Cardinality(S)
           f == [c \in S |-> Ordinal(c, S)]
           Upto(c) == {d \in S : d <= c}
<1>1. N \in Nat
  BY FS_CardinalityType
<1>2. \A c \in S : Upto(c) \subseteq S /\ c \in Upto(c)
  OBVIOUS
<1>3. ASSUME NEW c \in S  PROVE IsFiniteSet(Upto(c)) /\ Ordinal(c, S) \in 1..N
  <2>1. IsFiniteSet(Upto(c)) /\ Cardinality(Upto(c)) <= N
    BY <1>2, FS_Subset
  <2>2. Cardinality(Upto(c)) \in Nat
    BY <2>1, FS_CardinalityType
  <2>3. Cardinality(Upto(c)) # 0
    BY <2>1, <1>2, FS_EmptySet
  <2> QED  BY <2>1, <2>2, <2>3, <1>1 DEF Ordinal
<1>4. ASSUME NEW c \in S, NEW d \in S, c < d  PROVE Ordinal(c, S) < Ordinal(d, S)
  <2>1. c \in Nat /\ d \in Nat /\ ~(d <= c) /\ c < d
    BY <1>4
  <2>2. Upto(c) \subseteq Upto(d)
    <3>1. \A e \in S : e \in Nat /\ (e <= c => e <= d)
      BY <2>1
    <3> QED  BY <3>1
  <2>3. d \in Upto(d) /\ d \notin Upto(c)
    BY <2>1
  <2>4. Cardinality(Upto(c)) <= Cardinality(Upto(d)) /\ Cardinality(Upto(c)) # Cardinality(Upto(d))
    <3> HIDE DEF Upto
    <3>1. IsFiniteSet(Upto(d)) /\ Upto(c) \in SUBSET Upto(d)
      BY <1>3, <2>2
    <3> QED  BY <3>1, <2>3, FS_Subset
  <2>5. Ordinal(c, S) \in 1..N /\ Ordinal(d, S) \in 1..N
    BY <1>3
  <2> QED  BY <2>4, <2>5, <1>1 DEF Ordinal
<1>5. \A c, d \in S : f[c] = f[d] => c = d
  <2> SUFFICES ASSUME NEW c \in S, NEW d \in S, f[c] = f[d], c # d  PROVE FALSE
    OBVIOUS
  <2>1. c < d \/ d < c
    OBVIOUS
  <2>2. Ordinal(c, S) = Ordinal(d, S)
    OBVIOUS
  <2>3. Ordinal(c, S) \in 1..N /\ Ordinal(d, S) \in 1..N
    BY <1>3
  <2> QED  BY <2>1, <2>2, <2>3, <1>4, <1>1
<1>6. f \in Injection(S, 1..N)
  BY <1>3, <1>5 DEF Injection, IsInjective
<1>7. IsFiniteSet(1..N) /\ Cardinality(1..N) = N
  BY <1>1, FS_Interval
<1>8. f \in Surjection(S, 1..N)
  BY <1>6, <1>7, FS_Injection
<1>9. PICK c \in S : f[c] = i
  BY <1>8 DEF Surjection
<1> QED  BY <1>9

(***************************************************************************)
(* The requests that are sent.                                             *)
(***************************************************************************)
(* What a request asks for, whether or not it is the latest.               *)
SameRequest(a, b) ==
  a.call = b.call /\ a.id = b.id /\ a.refresh = b.refresh /\ a.at = b.at /\ a.ids = b.ids
    /\ a.clusters = b.clusters

(* q is sent in the slot u: no other of its kind is the latest any more.   *)
Puts(n, u, q, m) ==
  /\ m \in [Slots -> Request]
  /\ u \in Slots /\ n[u].call = "none" /\ m[u] = q
  /\ \A s \in Slots \ {u} :
       /\ SameRequest(m[s], n[s])
       /\ m[s].latest => n[s].latest /\ (q.call = "delete" \/ ~SameKind(q, n[s]))
       /\ n[s].latest /\ (q.call = "delete" \/ ~SameKind(q, n[s])) => m[s].latest

(* The fields of a request.                                                *)
LEMMA RequestIs ==
  ASSUME NEW q \in Request
  PROVE  /\ q.call \in {"none", "init", "list", "templates", "delete"} /\ q.id \in Ids \cup {0}
         /\ q.refresh \in BOOLEAN /\ q.latest \in BOOLEAN
         /\ q.at \in {"none", "sent", "served", "failed"} /\ q.ids \in SUBSET Ids
         /\ q.clusters \in SUBSET Clusters
BY DEF Request

(* A request that is no longer the latest still asks for the same.         *)
LEMMA RequestIsOverdue ==
  ASSUME NEW q \in Request
  PROVE  /\ [q EXCEPT !.latest = FALSE] \in Request
         /\ SameRequest([q EXCEPT !.latest = FALSE], q)
         /\ ~[q EXCEPT !.latest = FALSE].latest
<1>1. [q EXCEPT !.latest = FALSE] \in Request
  BY DEF Request
<1>2. SameRequest([q EXCEPT !.latest = FALSE], q) /\ ~[q EXCEPT !.latest = FALSE].latest
  BY DEF SameRequest, Request
<1> QED  BY <1>1, <1>2

(* The requests that the page sends.                                       *)
LEMMA OfTemplatesIs ==
  ASSUME NEW id \in Ids \cup {0}
  PROVE  /\ Of("templates", id, FALSE) \in Request
         /\ Of("templates", id, FALSE).call = "templates" /\ Of("templates", id, FALSE).id = id
         /\ Of("templates", id, FALSE).latest /\ Of("templates", id, FALSE).at = "sent"
BY DEF Of, NoRequest, Request

(* The request of a deletion.                                              *)
LEMMA OfDeleteIs ==
  ASSUME NEW id \in Ids \cup {0}
  PROVE  /\ Of("delete", id, FALSE) \in Request
         /\ Of("delete", id, FALSE).call = "delete" /\ Of("delete", id, FALSE).id = id
BY DEF Of, NoRequest, Request

(* The requests for the tabs.                                              *)
LEMMA OfTabsIs ==
  /\ Of("list", 0, FALSE) \in Request /\ Of("list", 0, FALSE).call = "list"
  /\ Of("list", 0, FALSE).at = "sent"
  /\ Of("init", 0, TRUE) \in Request /\ Of("init", 0, TRUE).call = "init"
  /\ Of("init", 0, TRUE).refresh /\ Of("init", 0, TRUE).at = "sent"
  /\ Of("init", 0, FALSE) \in Request /\ Of("init", 0, FALSE).call = "init"
  /\ Of("init", 0, FALSE).at = "sent"
BY DEF Of, NoRequest, Request

(* The slot of each request, and what becomes of the others.               *)
Places(n, qs, m, f) ==
  /\ f \in [qs -> Slots]
  /\ \A q \in qs : n[f[q]].call = "none" /\ m[f[q]] = q
  /\ \A q, r \in qs : q # r => f[q] # f[r]
  /\ m \in [Slots -> Request]
  /\ \A s \in Slots : (\A q \in qs : f[q] # s) =>
       m[s] = IF \E q \in qs : q.call # "delete" /\ SameKind(q, n[s])
                THEN [n[s] EXCEPT !.latest = FALSE] ELSE n[s]

(* Each request that is sent has a slot of its own that was free.          *)
LEMMA SentIs ==
  ASSUME NEW n \in [Slots -> Request], NEW qs \in SUBSET Request, NEW m \in Sent(n, qs)
  PROVE  \E f : Places(n, qs, m, f)
<1> DEFINE free == {s \in Slots : n[s].call = "none"}
           newer(s) == \E q \in qs : q.call # "delete" /\ SameKind(q, n[s])
           val(f, s) == IF \E q \in qs : f[q] = s THEN CHOOSE q \in qs : f[q] = s
                        ELSE IF newer(s) THEN [n[s] EXCEPT !.latest = FALSE] ELSE n[s]
<1>1. PICK f \in {g \in [qs -> free] : \A q, r \in qs : q # r => g[q] # g[r]} :
        m = [s \in Slots |-> val(f, s)]
  BY DEF Sent
<1>2. f \in [qs -> free] /\ \A q, r \in qs : q # r => f[q] # f[r]
  BY <1>1
<1>3. f \in [qs -> Slots] /\ \A q \in qs : f[q] \in Slots /\ n[f[q]].call = "none"
  BY <1>2
<1>4. \A s \in Slots : m[s] = val(f, s)
  BY <1>1
<1>5. \A q \in qs : (CHOOSE r \in qs : f[r] = f[q]) = q
  BY <1>2
<1>6. \A q \in qs : m[f[q]] = q
  BY <1>3, <1>4, <1>5
<1>7. \A s \in Slots : val(f, s) \in Request
  <2> TAKE s \in Slots
  <2>1. n[s] \in Request /\ [n[s] EXCEPT !.latest = FALSE] \in Request
    BY RequestIsOverdue
  <2>2. (\E q \in qs : f[q] = s) => (CHOOSE q \in qs : f[q] = s) \in qs
    OBVIOUS
  <2> QED  BY <2>1, <2>2
<1>8. m \in [Slots -> Request]
  <2> HIDE DEF val
  <2> QED  BY <1>1, <1>7
<1>9. \A s \in Slots : (\A q \in qs : f[q] # s) =>
        m[s] = IF newer(s) THEN [n[s] EXCEPT !.latest = FALSE] ELSE n[s]
  BY <1>4
<1> QED  BY <1>2, <1>3, <1>6, <1>8, <1>9 DEF Places

(* Where nothing is sent, the slots stay as they are.                      *)
LEMMA SentNothing ==
  ASSUME NEW n \in [Slots -> Request], NEW m \in Sent(n, {})
  PROVE  m = n
<1>1. PICK f : Places(n, {}, m, f)
  BY SentIs
<1> QED  BY <1>1 DEF Places

(* One request is put in a slot that was free.                             *)
LEMMA SentOne ==
  ASSUME NEW n \in [Slots -> Request], NEW q \in Request, NEW m \in Sent(n, {q})
  PROVE  \E u \in Slots : Puts(n, u, q, m)
<1>0. PICK f : Places(n, {q}, m, f)
  <2>1. {q} \in SUBSET Request
    OBVIOUS
  <2> QED  BY <2>1, SentIs
<1>1. f[q] \in Slots /\ n[f[q]].call = "none" /\ m[f[q]] = q /\ m \in [Slots -> Request]
  BY <1>0 DEF Places
<1>2. \A s \in Slots \ {f[q]} :
        m[s] = IF q.call # "delete" /\ SameKind(q, n[s])
                 THEN [n[s] EXCEPT !.latest = FALSE] ELSE n[s]
  BY <1>0 DEF Places
<1>3. ASSUME NEW s \in Slots \ {f[q]}
      PROVE  /\ SameRequest(m[s], n[s])
             /\ m[s].latest => n[s].latest /\ (q.call = "delete" \/ ~SameKind(q, n[s]))
             /\ n[s].latest /\ (q.call = "delete" \/ ~SameKind(q, n[s])) => m[s].latest
  <2>1. n[s] \in Request
    OBVIOUS
  <2>2. CASE q.call # "delete" /\ SameKind(q, n[s])
    <3>1. m[s] = [n[s] EXCEPT !.latest = FALSE]
      BY <1>2, <2>2
    <3> QED  BY <2>1, <2>2, <3>1, RequestIsOverdue
  <2>3. CASE ~(q.call # "delete" /\ SameKind(q, n[s]))
    <3>1. m[s] = n[s]
      BY <1>2, <2>3
    <3> QED  BY <2>3, <3>1 DEF SameRequest
  <2> QED  BY <2>2, <2>3
<1> QED  BY <1>1, <1>3 DEF Puts

(* The tabs and the templates of a new resource: one request after the     *)
(* other.                                                                  *)
LEMMA SentBoth ==
  ASSUME NEW n \in [Slots -> Request], NEW q \in Request, NEW r \in Request,
         q.call = "list", r.call = "templates", NEW m \in Sent(n, {q, r})
  PROVE  \E u, v \in Slots, o \in [Slots -> Request] : Puts(n, u, q, o) /\ Puts(o, v, r, m)
<1>1. PICK f : Places(n, {q, r}, m, f)
  <2>1. {q, r} \in SUBSET Request
    OBVIOUS
  <2> QED  BY <2>1, SentIs
<1> DEFINE u == f[q]
           v == f[r]
           o == [s \in Slots |-> IF s = u THEN q
                                 ELSE IF s = v THEN n[v]
                                 ELSE IF SameKind(q, n[s])
                                   THEN [n[s] EXCEPT !.latest = FALSE] ELSE n[s]]
           p == [s \in Slots |-> IF s = v THEN [n[s] EXCEPT !.latest = FALSE] ELSE o[s]]
<1>2. u \in Slots /\ v \in Slots /\ u # v /\ n[u].call = "none" /\ n[v].call = "none"
  <2>1. q # r
    OBVIOUS
  <2> QED  BY <1>1, <2>1 DEF Places
<1>3. \A s \in Slots : n[s] \in Request /\ [n[s] EXCEPT !.latest = FALSE] \in Request
                       /\ SameRequest([n[s] EXCEPT !.latest = FALSE], n[s])
                       /\ ~[n[s] EXCEPT !.latest = FALSE].latest
  BY RequestIsOverdue
<1>4. o \in [Slots -> Request] /\ p \in [Slots -> Request]
  BY <1>2, <1>3
<1>5. Puts(n, u, q, p)
  <2>1. ASSUME NEW s \in Slots \ {u}
        PROVE  /\ SameRequest(p[s], n[s])
               /\ p[s].latest => n[s].latest /\ ~SameKind(q, n[s])
               /\ n[s].latest /\ ~SameKind(q, n[s]) => p[s].latest
    <3>1. SameKind(q, n[v])
      BY <1>2 DEF SameKind
    <3>2. SameRequest(n[s], n[s])
      BY DEF SameRequest
    <3> QED  BY <1>2, <1>3, <3>1, <3>2
  <2> QED  BY <1>2, <1>4, <2>1 DEF Puts
<1>6. Puts(p, v, r, m)
  <2>1. \A s \in Slots \ {u, v} : m[s] = [n[s] EXCEPT !.latest = FALSE]
    BY <1>1, <1>2 DEF Places, SameKind
  <2>2. m[u] = q /\ m[v] = r /\ m \in [Slots -> Request]
    BY <1>1 DEF Places
  <2>3. p[v].call = "none"
    BY <1>2, <1>3 DEF SameRequest
  <2>4. ASSUME NEW s \in Slots \ {v}
        PROVE  /\ SameRequest(m[s], p[s])
               /\ m[s].latest => p[s].latest /\ ~SameKind(r, p[s])
               /\ p[s].latest /\ ~SameKind(r, p[s]) => m[s].latest
    <3>1. CASE s = u
      <4>1. m[s] = q /\ p[s] = q
        BY <3>1, <2>2, <1>2
      <4> QED  BY <4>1 DEF SameRequest, SameKind
    <3>2. CASE s # u
      <4>1. m[s] = [n[s] EXCEPT !.latest = FALSE] /\ n[s] \in Request
        BY <2>1, <3>2
      <4>2. p[s] = IF SameKind(q, n[s]) THEN [n[s] EXCEPT !.latest = FALSE] ELSE n[s]
        BY <3>2, <1>2
      <4>3. CASE SameKind(q, n[s])
        BY <4>1, <4>2, <4>3, <1>3 DEF SameRequest
      <4>4. CASE ~SameKind(q, n[s])
        <5>1. SameKind(r, n[s])
          BY <4>4 DEF SameKind
        <5> QED  BY <4>1, <4>2, <4>4, <5>1, <1>3
      <4> QED  BY <4>3, <4>4
    <3> QED  BY <3>1, <3>2
  <2> QED  BY <1>2, <2>2, <2>3, <2>4 DEF Puts
<1> QED  BY <1>2, <1>4, <1>5, <1>6

(***************************************************************************)
(* The tabs and the selection.                                             *)
(***************************************************************************)
(* The slot s is free again.                                               *)
Frees(n, s, m) ==
  m \in [Slots -> Request] /\ m[s] = NoRequest /\ \A u \in Slots \ {s} : m[u] = n[u]

(* The request in s is at a new stage, and the others are where they were. *)
Turns(n, s, m) ==
  /\ m[s].call = n[s].call /\ m[s].id = n[s].id /\ (m[s].refresh <=> n[s].refresh)
  /\ (m[s].latest <=> n[s].latest)
  /\ \A u \in Slots \ {s} : m[u] = n[u]

SamePage(p, q) == p.id = q.id /\ p.route = q.route /\ p.ids = q.ids /\ p.loaded = q.loaded

(* The fields of the page.                                                 *)
LEMMA PageIs ==
  ASSUME NEW p \in Page
  PROVE  /\ p.id \in Ids \cup {0} /\ p.route \in Ids /\ p.ids \in SUBSET Ids
         /\ p.loaded \in BOOLEAN /\ p.of \in Ids \cup {0} /\ p.shown \in SUBSET Clusters
         /\ p.dialog \in Ids \cup {0} /\ p.left \in BOOLEAN
BY DEF Page

(* Resources and clusters are numbers, and 0 is neither; the clusters are  *)
(* finitely many.                                                          *)
LEMMA IdsAre == Ids \subseteq Nat \ {0} /\ Clusters \subseteq Nat \ {0} /\ IsFiniteSet(Clusters)
BY DialogAssumption, PageAssumption

(* A free slot asks for nothing.                                           *)
LEMMA NoRequestIs ==
  /\ NoRequest \in Request
  /\ NoRequest.call = "none" /\ NoRequest.id = 0 /\ ~NoRequest.refresh /\ ~NoRequest.latest
  /\ NoRequest.at = "none"
BY DEF NoRequest, Request

(* The tabs stay well while the page's tabs, selection and address stay.   *)
LEMMA TabsStay ==
  ASSUME NEW k \in PageKinds, NEW n \in [Slots -> Request],
         NEW p \in Page, NEW p2 \in Page, NEW a \in Ids \cup {0}, NEW d \in SUBSET Ids,
         NEW del \in SUBSET Ids, NEW t \in BOOLEAN, NEW old \in BOOLEAN,
         TabsAreWell(k, n, p, a, d, del, t, old),
         SamePage(p2, p)
  PROVE  TabsAreWell(k, n, p2, a, d, del, t, old)
<1>a. NetIsWell(n) /\ SelectionIsWell(k, p, d, del, n) /\ FirstIsAlone(n, p, a, d, t)
      /\ AnswersAreClean(n, del, t) /\ TabsAreClean(k, n, p, a, del, t, old)
  BY DEF TabsAreWell
<1>1. NetIsWell(n)
  BY <1>a DEF NetIsWell, ForTabs, SamePage
<1>2. SelectionIsWell(k, p2, d, del, n)
  BY <1>a DEF SelectionIsWell, ForTabs, SamePage
<1>3. FirstIsAlone(n, p2, a, d, t)
  BY <1>a DEF FirstIsAlone, First, Undeleted, ForTabs, SamePage
<1>4. AnswersAreClean(n, del, t)
  BY <1>a DEF AnswersAreClean, Undeleted, ForTabs, SamePage
<1>5. TabsAreClean(k, n, p2, a, del, t, old)
  BY <1>a DEF TabsAreClean, Undeleted, ForTabs, SamePage
<1> QED  BY <1>1, <1>2, <1>3, <1>4, <1>5 DEF TabsAreWell

(* Templates are asked for: the requests for the tabs are as before.       *)
LEMMA TabsWhenTemplates ==
  ASSUME NEW k \in PageKinds, NEW n \in [Slots -> Request], NEW m \in [Slots -> Request],
         NEW p \in Page, NEW a \in Ids \cup {0}, NEW d \in SUBSET Ids,
         NEW del \in SUBSET Ids, NEW t \in BOOLEAN, NEW old \in BOOLEAN,
         TabsAreWell(k, n, p, a, d, del, t, old),
         NEW u, NEW q, Puts(n, u, q, m), q.call = "templates", q.id # 0
  PROVE  TabsAreWell(k, m, p, a, d, del, t, old)
<1>a. NetIsWell(n) /\ SelectionIsWell(k, p, d, del, n) /\ FirstIsAlone(n, p, a, d, t)
      /\ AnswersAreClean(n, del, t) /\ TabsAreClean(k, n, p, a, del, t, old)
  BY DEF TabsAreWell
<1>1. NetIsWell(m)
  BY <1>a DEF NetIsWell, ForTabs, Puts, SameRequest, SameKind
<1>2. SelectionIsWell(k, p, d, del, m)
  BY <1>a DEF SelectionIsWell, ForTabs, Puts, SameRequest, SameKind
<1>3. FirstIsAlone(m, p, a, d, t)
  BY <1>a DEF FirstIsAlone, First, Undeleted, ForTabs, Puts, SameRequest, SameKind
<1>4. AnswersAreClean(m, del, t)
  BY <1>a DEF AnswersAreClean, Undeleted, ForTabs, Puts, SameRequest, SameKind
<1>5. TabsAreClean(k, m, p, a, del, t, old)
  BY <1>a DEF TabsAreClean, Undeleted, ForTabs, Puts, SameRequest, SameKind
<1> QED  BY <1>1, <1>2, <1>3, <1>4, <1>5 DEF TabsAreWell

(* The user selects one of the tabs, and its templates are asked for.      *)
LEMMA TabsWhenSelected ==
  ASSUME NEW k \in PageKinds, NEW n \in [Slots -> Request],
         NEW p \in Page, NEW p2 \in Page, NEW a \in Ids \cup {0}, NEW d \in SUBSET Ids,
         NEW del \in SUBSET Ids, NEW t \in BOOLEAN, NEW old \in BOOLEAN,
         TabsAreWell(k, n, p, a, d, del, t, old),
         NEW r \in p.ids, p2.id = r, p2.ids = p.ids, (p2.loaded <=> p.loaded),
         ~Features[k].selection.keeps => p2.route = p.route
  PROVE  TabsAreWell(k, n, p2, r, d, del, t, old)
<1> USE IdsAre, PageIs
<1>a. NetIsWell(n) /\ SelectionIsWell(k, p, d, del, n) /\ FirstIsAlone(n, p, a, d, t)
      /\ AnswersAreClean(n, del, t) /\ TabsAreClean(k, n, p, a, del, t, old)
  BY DEF TabsAreWell
<1>1. NetIsWell(n)
  BY <1>a DEF NetIsWell, ForTabs
<1>2. SelectionIsWell(k, p2, d, del, n)
  BY <1>a DEF SelectionIsWell, ForTabs
<1>3. FirstIsAlone(n, p2, r, d, t)
  BY <1>a DEF FirstIsAlone, First, Undeleted, ForTabs
<1>4. AnswersAreClean(n, del, t)
  BY <1>a DEF AnswersAreClean, Undeleted, ForTabs
<1>5. TabsAreClean(k, n, p2, r, del, t, old)
  BY <1>a DEF TabsAreClean, Undeleted, ForTabs
<1> QED  BY <1>1, <1>2, <1>3, <1>4, <1>5 DEF TabsAreWell

(* The templates of what is selected are asked for again.                  *)
LEMMA TabsWhenAsked ==
  ASSUME NEW k \in PageKinds, NEW n \in [Slots -> Request],
         NEW p \in Page, NEW a \in Ids \cup {0}, NEW d \in SUBSET Ids,
         NEW del \in SUBSET Ids, NEW t \in BOOLEAN, NEW old \in BOOLEAN,
         TabsAreWell(k, n, p, a, d, del, t, old),
         p.id # 0
  PROVE  TabsAreWell(k, n, p, p.id, d, del, t, old)
<1>a. NetIsWell(n) /\ SelectionIsWell(k, p, d, del, n) /\ FirstIsAlone(n, p, a, d, t)
      /\ AnswersAreClean(n, del, t) /\ TabsAreClean(k, n, p, a, del, t, old)
  BY DEF TabsAreWell
<1>1. NetIsWell(n)
  BY <1>a DEF NetIsWell, ForTabs
<1>2. SelectionIsWell(k, p, d, del, n)
  BY <1>a DEF SelectionIsWell, ForTabs
<1>3. FirstIsAlone(n, p, p.id, d, t)
  BY <1>a DEF FirstIsAlone, First, Undeleted, ForTabs
<1>4. AnswersAreClean(n, del, t)
  BY <1>a DEF AnswersAreClean, Undeleted, ForTabs
<1>5. TabsAreClean(k, n, p, p.id, del, t, old)
  BY <1>a DEF TabsAreClean, Undeleted, ForTabs
<1> QED  BY <1>1, <1>2, <1>3, <1>4, <1>5 DEF TabsAreWell

(* A deletion is sent: until its answer nothing is said of the tabs.       *)
LEMMA TabsWhenDeleting ==
  ASSUME NEW k \in PageKinds, NEW n \in [Slots -> Request], NEW m \in [Slots -> Request],
         NEW p \in Page, NEW a \in Ids \cup {0}, NEW d \in SUBSET Ids,
         NEW del \in SUBSET Ids, NEW t \in BOOLEAN, NEW old \in BOOLEAN,
         TabsAreWell(k, n, p, a, d, del, t, old),
         NEW u, NEW q, Puts(n, u, q, m), q.call = "delete"
  PROVE  TabsAreWell(k, m, p, a, d, del, t, old)
<1>a. NetIsWell(n) /\ SelectionIsWell(k, p, d, del, n) /\ FirstIsAlone(n, p, a, d, t)
      /\ AnswersAreClean(n, del, t) /\ TabsAreClean(k, n, p, a, del, t, old)
  BY DEF TabsAreWell
<1>1. NetIsWell(m)
  BY <1>a DEF NetIsWell, ForTabs, Puts, SameRequest
<1>2. SelectionIsWell(k, p, d, del, m)
  BY <1>a DEF SelectionIsWell, ForTabs, Puts, SameRequest
<1>3. FirstIsAlone(m, p, a, d, t)
  BY <1>a DEF FirstIsAlone, First, Undeleted, ForTabs, Puts, SameRequest
<1>4. AnswersAreClean(m, del, t)
  BY <1>a DEF AnswersAreClean, Undeleted, ForTabs, Puts, SameRequest
<1>5. TabsAreClean(k, m, p, a, del, t, old)
  BY <1>a DEF TabsAreClean, Undeleted, ForTabs, Puts, SameRequest
<1> QED  BY <1>1, <1>2, <1>3, <1>4, <1>5 DEF TabsAreWell

(* Requests are overtaken: there is only less to say of their answers.     *)
LEMMA TabsWhenOverdue ==
  ASSUME NEW k \in PageKinds, NEW n \in [Slots -> Request], NEW m \in [Slots -> Request],
         NEW p \in Page, NEW a \in Ids \cup {0}, NEW d \in SUBSET Ids,
         NEW del \in SUBSET Ids, NEW t \in BOOLEAN, NEW old \in BOOLEAN,
         TabsAreWell(k, n, p, a, d, del, t, old),
         \A s \in Slots : SameRequest(m[s], n[s]) /\ (m[s].latest => n[s].latest)
  PROVE  TabsAreWell(k, m, p, a, d, del, t, old)
<1>a. NetIsWell(n) /\ SelectionIsWell(k, p, d, del, n) /\ FirstIsAlone(n, p, a, d, t)
      /\ AnswersAreClean(n, del, t) /\ TabsAreClean(k, n, p, a, del, t, old)
  BY DEF TabsAreWell
<1>1. NetIsWell(m)
  BY <1>a DEF NetIsWell, ForTabs, SameRequest
<1>2. SelectionIsWell(k, p, d, del, m)
  BY <1>a DEF SelectionIsWell, ForTabs, SameRequest
<1>3. FirstIsAlone(m, p, a, d, t)
  BY <1>a DEF FirstIsAlone, First, Undeleted, ForTabs, SameRequest
<1>4. AnswersAreClean(m, del, t)
  BY <1>a DEF AnswersAreClean, Undeleted, ForTabs, SameRequest
<1>5. TabsAreClean(k, m, p, a, del, t, old)
  BY <1>a DEF TabsAreClean, Undeleted, ForTabs, SameRequest
<1> QED  BY <1>1, <1>2, <1>3, <1>4, <1>5 DEF TabsAreWell

(* A request fails: the user is told.                                      *)
LEMMA TabsWhenFailed ==
  ASSUME NEW k \in PageKinds, NEW n \in [Slots -> Request], NEW m \in [Slots -> Request],
         NEW p \in Page, NEW a \in Ids \cup {0}, NEW d \in SUBSET Ids,
         NEW del \in SUBSET Ids, NEW t \in BOOLEAN, NEW old \in BOOLEAN,
         TabsAreWell(k, n, p, a, d, del, t, old),
         NEW s \in Slots, Frees(n, s, m)
  PROVE  TabsAreWell(k, m, p, a, d, del, TRUE, old)
<1> USE NoRequestIs
<1>a. NetIsWell(n) /\ SelectionIsWell(k, p, d, del, n) /\ FirstIsAlone(n, p, a, d, t)
      /\ AnswersAreClean(n, del, t) /\ TabsAreClean(k, n, p, a, del, t, old)
  BY DEF TabsAreWell
<1>1. NetIsWell(m)
  BY <1>a DEF NetIsWell, ForTabs, Frees
<1>2. SelectionIsWell(k, p, d, del, m)
  BY <1>a DEF SelectionIsWell, ForTabs, Frees
<1>3. FirstIsAlone(m, p, a, d, TRUE)
  BY <1>a DEF FirstIsAlone, First, Undeleted, ForTabs, Frees
<1>4. AnswersAreClean(m, del, TRUE)
  BY <1>a DEF AnswersAreClean, Undeleted, ForTabs, Frees
<1>5. TabsAreClean(k, m, p, a, del, TRUE, old)
  BY <1>a DEF TabsAreClean, Undeleted, ForTabs, Frees
<1> QED  BY <1>1, <1>2, <1>3, <1>4, <1>5 DEF TabsAreWell

(* An answer for the templates is taken.                                   *)
LEMMA TabsWhenTold ==
  ASSUME NEW k \in PageKinds, NEW n \in [Slots -> Request], NEW m \in [Slots -> Request],
         NEW p \in Page, NEW a \in Ids \cup {0}, NEW d \in SUBSET Ids,
         NEW del \in SUBSET Ids, NEW t \in BOOLEAN, NEW old \in BOOLEAN,
         TabsAreWell(k, n, p, a, d, del, t, old),
         NEW s \in Slots, Frees(n, s, m), n[s].call = "templates"
  PROVE  TabsAreWell(k, m, p, a, d, del, t, old)
<1> USE NoRequestIs
<1>a. NetIsWell(n) /\ SelectionIsWell(k, p, d, del, n) /\ FirstIsAlone(n, p, a, d, t)
      /\ AnswersAreClean(n, del, t) /\ TabsAreClean(k, n, p, a, del, t, old)
  BY DEF TabsAreWell
<1>1. NetIsWell(m)
  BY <1>a DEF NetIsWell, ForTabs, Frees
<1>2. SelectionIsWell(k, p, d, del, m)
  BY <1>a DEF SelectionIsWell, ForTabs, Frees
<1>3. FirstIsAlone(m, p, a, d, t)
  BY <1>a DEF FirstIsAlone, First, Undeleted, ForTabs, Frees
<1>4. AnswersAreClean(m, del, t)
  BY <1>a DEF AnswersAreClean, Undeleted, ForTabs, Frees
<1>5. TabsAreClean(k, m, p, a, del, t, old)
  BY <1>a DEF TabsAreClean, Undeleted, ForTabs, Frees
<1> QED  BY <1>1, <1>2, <1>3, <1>4, <1>5 DEF TabsAreWell

(* The table answers a request that deletes nothing.                       *)
LEMMA TabsWhenServed ==
  ASSUME NEW k \in PageKinds, NEW n \in [Slots -> Request], NEW m \in [Slots -> Request],
         NEW p \in Page, NEW a \in Ids \cup {0}, NEW d \in SUBSET Ids,
         NEW del \in SUBSET Ids, NEW t \in BOOLEAN, NEW old \in BOOLEAN,
         TabsAreWell(k, n, p, a, d, del, t, old),
         NEW s \in Slots, n[s].at = "sent", n[s].call # "delete", m[s].at = "served",
         Turns(n, s, m), n[s].call # "templates" => m[s].ids = d
  PROVE  TabsAreWell(k, m, p, a, d, del, t, old)
<1> USE DEF Turns
<1>a. NetIsWell(n) /\ SelectionIsWell(k, p, d, del, n) /\ FirstIsAlone(n, p, a, d, t)
      /\ AnswersAreClean(n, del, t) /\ TabsAreClean(k, n, p, a, del, t, old)
  BY DEF TabsAreWell
<1>1. NetIsWell(m)
  BY <1>a DEF NetIsWell, ForTabs
<1>2. SelectionIsWell(k, p, d, del, m)
  BY <1>a DEF SelectionIsWell, ForTabs
<1>3. FirstIsAlone(m, p, a, d, t)
  BY <1>a DEF FirstIsAlone, First, Undeleted, ForTabs
<1>4. AnswersAreClean(m, del, t)
  BY <1>a DEF SelectionIsWell, AnswersAreClean, Undeleted, ForTabs
<1>5. TabsAreClean(k, m, p, a, del, t, old)
  BY <1>a DEF TabsAreClean, Undeleted, ForTabs
<1> QED  BY <1>1, <1>2, <1>3, <1>4, <1>5 DEF TabsAreWell

(* The server refuses a request, which will fail.                          *)
LEMMA TabsWhenRefused ==
  ASSUME NEW k \in PageKinds, NEW n \in [Slots -> Request], NEW m \in [Slots -> Request],
         NEW p \in Page, NEW a \in Ids \cup {0}, NEW d \in SUBSET Ids,
         NEW del \in SUBSET Ids, NEW t \in BOOLEAN, NEW old \in BOOLEAN,
         TabsAreWell(k, n, p, a, d, del, t, old),
         NEW s \in Slots, m[s].at = "failed", Turns(n, s, m)
  PROVE  TabsAreWell(k, m, p, a, d, del, t, old)
<1> USE DEF Turns
<1>a. NetIsWell(n) /\ SelectionIsWell(k, p, d, del, n) /\ FirstIsAlone(n, p, a, d, t)
      /\ AnswersAreClean(n, del, t) /\ TabsAreClean(k, n, p, a, del, t, old)
  BY DEF TabsAreWell
<1>1. NetIsWell(m)
  BY <1>a DEF NetIsWell, ForTabs
<1>2. SelectionIsWell(k, p, d, del, m)
  BY <1>a DEF SelectionIsWell, ForTabs
<1>3. FirstIsAlone(m, p, a, d, t)
  BY <1>a DEF FirstIsAlone, First, Undeleted, ForTabs
<1>4. AnswersAreClean(m, del, t)
  BY <1>a DEF AnswersAreClean, Undeleted, ForTabs
<1>5. TabsAreClean(k, m, p, a, del, t, old)
  BY <1>a DEF TabsAreClean, Undeleted, ForTabs
<1> QED  BY <1>1, <1>2, <1>3, <1>4, <1>5 DEF TabsAreWell

(* The server deletes a resource: its deletion is still under way.         *)
LEMMA TabsWhenDeleted ==
  ASSUME NEW k \in PageKinds, NEW n \in [Slots -> Request], NEW m \in [Slots -> Request],
         NEW p \in Page, NEW a \in Ids \cup {0}, NEW d \in SUBSET Ids,
         NEW del \in SUBSET Ids, NEW t \in BOOLEAN, NEW old \in BOOLEAN,
         TabsAreWell(k, n, p, a, d, del, t, old),
         NEW s \in Slots, n[s].call = "delete", Turns(n, s, m),
         NEW r \in d
  PROVE  TabsAreWell(k, m, p, a, d \ {r}, del \cup {r}, t, old)
<1> USE DEF Turns
<1>a. NetIsWell(n) /\ SelectionIsWell(k, p, d, del, n) /\ FirstIsAlone(n, p, a, d, t)
      /\ AnswersAreClean(n, del, t) /\ TabsAreClean(k, n, p, a, del, t, old)
  BY DEF TabsAreWell
<1>1. NetIsWell(m)
  BY <1>a DEF NetIsWell, ForTabs
<1>2. SelectionIsWell(k, p, d \ {r}, del \cup {r}, m)
  BY <1>a DEF SelectionIsWell, ForTabs
<1>3. FirstIsAlone(m, p, a, d \ {r}, t)
  BY <1>a DEF FirstIsAlone, First, Undeleted, ForTabs
<1>4. AnswersAreClean(m, del \cup {r}, t)
  BY <1>a DEF AnswersAreClean, Undeleted, ForTabs
<1>5. TabsAreClean(k, m, p, a, del \cup {r}, t, old)
  BY <1>a DEF TabsAreClean, Undeleted, ForTabs
<1> QED  BY <1>1, <1>2, <1>3, <1>4, <1>5 DEF TabsAreWell

(* The page q is p that starts again, or has r selected.                   *)
Restarts(p, q) == q.id = p.route /\ q.route = p.route /\ (q.loaded <=> p.loaded)
Selects(k, p, q, r) ==
  /\ q.id = r /\ q.ids = p.ids /\ (q.loaded <=> p.loaded)
  /\ ~Features[k].selection.keeps => q.route = p.route

(* The resources d2 are those of d, or more, and none was deleted.         *)
Grows(d, d2, del) == d \subseteq d2 /\ d2 \cap del = {}

(* The page starts again from its address: its init request overtakes the  *)
(* others for the tabs, and nothing is said of the tabs until its answer.  *)
LEMMA TabsWhenRestarted ==
  ASSUME NEW k \in PageKinds, NEW n \in [Slots -> Request], NEW m \in [Slots -> Request],
         NEW p \in Page, NEW p2 \in Page, NEW a \in Ids \cup {0}, NEW d \in SUBSET Ids,
         NEW d2 \in SUBSET Ids, NEW del \in SUBSET Ids, NEW t \in BOOLEAN, NEW old \in BOOLEAN,
         NetIsWell(n), SelectionIsWell(k, p, d, del, n),
         NEW u, NEW q, Puts(n, u, q, m), q.call = "init", q.refresh, q.at = "sent",
         Restarts(p, p2),
         Grows(d, d2, del)
  PROVE  TabsAreWell(k, m, p2, a, d2, del, t, old)
<1> USE IdsAre, PageIs DEF Restarts, Grows
<1>1. NetIsWell(m)
  BY DEF NetIsWell, ForTabs, Puts, SameRequest, SameKind
<1>2. SelectionIsWell(k, p2, d2, del, m)
  <2>1. p2.id # 0
    OBVIOUS
  <2>2. \A s \in Slots : m[s].call \in ForTabs /\ m[s].at = "served" =>
          n[s].call \in ForTabs /\ n[s].at = "served" /\ m[s].ids = n[s].ids
    BY DEF Puts, SameRequest
  <2> QED  BY <2>1, <2>2 DEF SelectionIsWell
<1>3. FirstIsAlone(m, p2, a, d2, t)
  BY DEF FirstIsAlone, First, Puts, SameRequest, SameKind
<1>4. AnswersAreClean(m, del, t)
  BY DEF AnswersAreClean, ForTabs, Puts, SameRequest, SameKind
<1>5. TabsAreClean(k, m, p2, a, del, t, old)
  BY DEF TabsAreClean, Puts
<1> QED  BY <1>1, <1>2, <1>3, <1>4, <1>5 DEF TabsAreWell

(* A resource is created and selected, and the tabs are asked for again.   *)
LEMMA TabsWhenCreated ==
  ASSUME NEW k \in PageKinds, NEW n \in [Slots -> Request], NEW m \in [Slots -> Request],
         NEW p \in Page, NEW p2 \in Page, NEW a \in Ids \cup {0}, NEW d \in SUBSET Ids,
         NEW del \in SUBSET Ids, NEW t \in BOOLEAN, NEW old \in BOOLEAN,
         TabsAreWell(k, n, p, a, d, del, t, old),
         NEW u, NEW q, Puts(n, u, q, m), q.call = "list", q.at = "sent",
         NEW r \in Ids, r \notin d \cup del, Selects(k, p, p2, r), p.loaded
  PROVE  TabsAreWell(k, m, p2, r, d \cup {r}, del, t, old)
<1> USE IdsAre, PageIs DEF Selects
<1>a. NetIsWell(n) /\ SelectionIsWell(k, p, d, del, n) /\ TabsAreClean(k, n, p, a, del, t, old)
  BY DEF TabsAreWell
<1>1. NetIsWell(m)
  BY <1>a DEF NetIsWell, ForTabs, Puts, SameRequest, SameKind
<1>2. SelectionIsWell(k, p2, d \cup {r}, del, m)
  BY <1>a DEF SelectionIsWell, ForTabs, Puts, SameRequest, SameKind
<1>3. FirstIsAlone(m, p2, r, d \cup {r}, t)
  BY DEF FirstIsAlone, First, Puts, SameRequest, SameKind
<1>4. AnswersAreClean(m, del, t)
  BY DEF AnswersAreClean, ForTabs, Puts, SameRequest, SameKind
<1>5. TabsAreClean(k, m, p2, r, del, t, old)
  <2>1. Undeleted(m) /\ (\A s \in Slots : m[s].call # "init")
          => Undeleted(n) /\ (\A s \in Slots : n[s].call # "init")
    BY DEF Undeleted, Puts, SameRequest
  <2> QED  BY <1>a, <2>1 DEF TabsAreClean
<1> QED  BY <1>1, <1>2, <1>3, <1>4, <1>5 DEF TabsAreWell

(* The page q is p with the tabs ids, one of which is selected.            *)
Chooses(k, p, q, ids) ==
  /\ q.ids = ids /\ q.loaded
  /\ ids # {} => q.id = (IF p.id \in ids THEN p.id ELSE Min(ids))
  /\ ids = {} => q.id = (IF Features[k].selection.keeps THEN p.id ELSE 0)
  /\ ~Features[k].selection.keeps => q.route = p.route

(* ... and was asked for, if the request was for more than the tabs.       *)
AsksFor(k, q, id, a, a2) ==
  ~Features[k].selection.early => a2 = IF q.refresh /\ id # 0 THEN id ELSE a

(* An init answer is taken: the page selects from its resources, and asks  *)
(* for the templates of what it selects.                                   *)
LEMMA TabsWhenAnswered ==
  ASSUME NEW k \in PageKinds, NEW n \in [Slots -> Request], NEW m \in [Slots -> Request],
         NEW p \in Page, NEW p2 \in Page, NEW a \in Ids \cup {0}, NEW a2 \in Ids \cup {0},
         NEW d \in SUBSET Ids, NEW del \in SUBSET Ids, NEW t \in BOOLEAN, NEW old \in BOOLEAN,
         TabsAreWell(k, n, p, a, d, del, t, old),
         NEW s \in Slots, n[s].call = "init", n[s].at = "served", Frees(n, s, m),
         Chooses(k, p, p2, n[s].ids), AsksFor(k, n[s], p2.id, a, a2)
  PROVE  TabsAreWell(k, m, p2, a2, d, del, t, old \/ ~n[s].latest)
<1> USE IdsAre DEF Chooses, AsksFor
<1>a. NetIsWell(n) /\ SelectionIsWell(k, p, d, del, n) /\ TabsAreClean(k, n, p, a, del, t, old)
      /\ FirstIsAlone(n, p, a, d, t) /\ AnswersAreClean(n, del, t)
  BY DEF TabsAreWell
<1>b. n[s].ids \subseteq Ids /\ n[s].latest \in BOOLEAN /\ n[s].refresh \in BOOLEAN
  BY RequestIs
<1>c. n[s].ids # {} => p2.id \in n[s].ids /\ p2.id # 0
  <2>1. n[s].ids # {} => Min(n[s].ids) \in n[s].ids
    BY <1>b, MinIs
  <2> QED  BY <2>1, <1>b
<1>1. NetIsWell(m)
  BY <1>a, NoRequestIs DEF NetIsWell, ForTabs, Frees
<1>2. SelectionIsWell(k, p2, d, del, m)
  BY <1>a, <1>b, <1>c, NoRequestIs DEF SelectionIsWell, ForTabs, Frees
<1>3. FirstIsAlone(m, p2, a2, d, t)
  BY <1>a, NoRequestIs DEF FirstIsAlone, First, ForTabs, Frees
<1>4. AnswersAreClean(m, del, t)
  BY <1>a, NoRequestIs DEF AnswersAreClean, Undeleted, ForTabs, Frees
<1>5. TabsAreClean(k, m, p2, a2, del, t, old \/ ~n[s].latest)
  <2> SUFFICES ASSUME ~t, ~old, n[s].latest, Undeleted(m), \A u \in Slots : m[u].call # "init"
               PROVE  /\ p2.ids \cap del = {}
                      /\ p2.id \in del => p2.ids = {} /\ (\A u \in Slots : m[u].call = "list" => ~m[u].latest)
                      /\ ~Features[k].selection.early /\ a2 # 0 /\ p2.id # 0 => a2 = p2.id
    BY <1>b DEF TabsAreClean
  <2>1. Undeleted(n)
    BY DEF Undeleted, Frees
  <2>2. n[s].ids \cap del = {}
    BY <1>a, <2>1 DEF AnswersAreClean, ForTabs
  <2>3. \A u \in Slots : m[u].call = "list" => ~m[u].latest
    BY <1>a, NoRequestIs DEF NetIsWell, ForTabs, Frees
  <2>4. p2.id \in del => p2.ids = {}
    BY <1>c, <2>2
  <2>5. ASSUME ~Features[k].selection.early, a2 # 0, p2.id # 0  PROVE a2 = p2.id
    <3>1. CASE n[s].refresh
      BY <2>5, <3>1
    <3>2. CASE ~n[s].refresh
      <4>1. a \in {0, p.id} /\ p.id \in n[s].ids
        BY <1>a, <2>1, <3>2 DEF FirstIsAlone, First
      <4> QED  BY <4>1, <2>5, <3>2
    <3> QED  BY <3>1, <3>2, <1>b
  <2> QED  BY <2>2, <2>3, <2>4, <2>5
<1> QED  BY <1>1, <1>2, <1>3, <1>4, <1>5 DEF TabsAreWell

(* The tabs are answered, and nothing is selected.                         *)
LEMMA TabsWhenListed ==
  ASSUME NEW k \in PageKinds, NEW n \in [Slots -> Request], NEW m \in [Slots -> Request],
         NEW p \in Page, NEW p2 \in Page, NEW a \in Ids \cup {0},
         NEW d \in SUBSET Ids, NEW del \in SUBSET Ids, NEW t \in BOOLEAN, NEW old \in BOOLEAN,
         TabsAreWell(k, n, p, a, d, del, t, old),
         NEW s \in Slots, n[s].call = "list", n[s].at = "served", Frees(n, s, m),
         p2.ids = n[s].ids, (p2.loaded <=> p.loaded), p2.id = p.id, p2.route = p.route
  PROVE  TabsAreWell(k, m, p2, a, d, del, t, old \/ ~n[s].latest)
<1> USE IdsAre
<1>a. NetIsWell(n) /\ SelectionIsWell(k, p, d, del, n) /\ TabsAreClean(k, n, p, a, del, t, old)
      /\ FirstIsAlone(n, p, a, d, t) /\ AnswersAreClean(n, del, t)
  BY DEF TabsAreWell
<1>1. NetIsWell(m)
  BY <1>a, NoRequestIs DEF NetIsWell, ForTabs, Frees
<1>2. SelectionIsWell(k, p2, d, del, m)
  BY <1>a, NoRequestIs DEF SelectionIsWell, ForTabs, Frees
<1>3. FirstIsAlone(m, p2, a, d, t)
  BY <1>a, NoRequestIs DEF FirstIsAlone, First, ForTabs, Frees
<1>4. AnswersAreClean(m, del, t)
  BY <1>a, NoRequestIs DEF AnswersAreClean, Undeleted, ForTabs, Frees
<1>5. TabsAreClean(k, m, p2, a, del, t, old \/ ~n[s].latest)
  <2>1. Undeleted(m) => Undeleted(n)
    BY DEF Undeleted, Frees
  <2>2. (\A u \in Slots : m[u].call # "init") => \A u \in Slots : n[u].call # "init"
    BY DEF Frees
  <2>3. ~t /\ Undeleted(m) /\ n[s].latest => n[s].ids \cap del = {}
    BY <1>a, <2>1 DEF AnswersAreClean, ForTabs
  <2>4. \A u \in Slots : m[u].call = "list" /\ m[u].latest => n[u].call = "list" /\ n[u].latest
    BY NoRequestIs DEF Frees
  <2> QED  BY <1>a, <2>1, <2>2, <2>3, <2>4 DEF TabsAreClean
<1> QED  BY <1>1, <1>2, <1>3, <1>4, <1>5 DEF TabsAreWell

(***************************************************************************)
(* The list.                                                               *)
(***************************************************************************)
(* The latest answers for templates are old ones, and what was right stays *)
(* right.                                                                  *)
LEMMA ListStays ==
  ASSUME NEW k, NEW n, NEW m, NEW p, NEW p2, NEW on, NEW on2, NEW cl, NEW cl2,
         NEW del, NEW del2, NEW old, NEW old2, NEW mud, NEW mud2 \in BOOLEAN,
         n \in [Slots -> Request], p \in Page, NetIsWell(n),
         ListIsWell(k, n, p, on, cl, del, old, mud),
         \A s \in Slots : m[s].call = "templates" /\ m[s].latest /\ m[s].at = "served" =>
           /\ n[s].call = "templates" /\ n[s].latest /\ n[s].at = "served"
           /\ m[s].id = n[s].id /\ m[s].clusters = n[s].clusters,
         mud2 \/ \A s \in Slots : n[s].call = "templates" /\ n[s].latest =>
                   m[s].call = "templates" /\ m[s].latest,
         p2.of = p.of, p2.shown = p.shown, ~mud2 => ~mud,
         (\E s \in Slots : m[s].call = "templates" /\ m[s].latest /\ m[s].at = "served") \/ ~mud2 =>
           \A r \in Ids, cs \in SUBSET Clusters :
             Right(r, cs, k, p, on, cl, del, old) => Right(r, cs, k, p2, on2, cl2, del2, old2)
  PROVE  ListIsWell(k, m, p2, on2, cl2, del2, old2, mud2)
<1>1. AnswerIsRight(k, m, p2, on2, cl2, del2, old2)
  <2> SUFFICES ASSUME NEW s \in Slots, m[s].call = "templates", m[s].latest, m[s].at = "served"
               PROVE  Right(m[s].id, m[s].clusters, k, p2, on2, cl2, del2, old2)
    BY DEF AnswerIsRight
  <2>1. n[s].call = "templates" /\ n[s].latest /\ n[s].at = "served"
        /\ m[s].id = n[s].id /\ m[s].clusters = n[s].clusters
    OBVIOUS
  <2>2. Right(n[s].id, n[s].clusters, k, p, on, cl, del, old)
    BY <2>1 DEF ListIsWell, AnswerIsRight
  <2>3. n[s].id \in Ids /\ n[s].clusters \in SUBSET Clusters
    <3>1. n[s].id # 0
      BY <2>1 DEF NetIsWell
    <3> QED  BY <3>1, RequestIs
  <2> QED  BY <2>1, <2>2, <2>3
<1>2. ListIsRight(k, m, p2, on2, cl2, del2, old2, mud2)
  <2> SUFFICES ASSUME ~mud2, p2.of # 0, \A s \in Slots : ~(m[s].call = "templates" /\ m[s].latest)
               PROVE  Right(p2.of, p2.shown, k, p2, on2, cl2, del2, old2)
    BY DEF ListIsRight
  <2>1. \A s \in Slots : ~(n[s].call = "templates" /\ n[s].latest)
    OBVIOUS
  <2>2. Right(p.of, p.shown, k, p, on, cl, del, old)
    BY <2>1 DEF ListIsWell, ListIsRight
  <2>3. p.of \in Ids /\ p.shown \in SUBSET Clusters
    BY PageIs
  <2> QED  BY <2>2, <2>3
<1> QED  BY <1>1, <1>2 DEF ListIsWell

(* Templates are asked for: they will be right, whatever is listed.        *)
LEMMA ListWhenAsked ==
  ASSUME NEW k, NEW n, NEW u, NEW q, NEW m, NEW p, NEW on, NEW cl, NEW del, NEW old, NEW mud,
         Puts(n, u, q, m), q.call = "templates", q.latest, q.at = "sent"
  PROVE  ListIsWell(k, m, p, on, cl, del, old, mud)
BY DEF ListIsWell, AnswerIsRight, ListIsRight, Puts, SameKind, SameRequest

(* A request for something else is sent.                                   *)
LEMMA TemplatesAreKept ==
  ASSUME NEW n \in [Slots -> Request], NEW m \in [Slots -> Request], NEW u, NEW q,
         Puts(n, u, q, m), q.call # "templates"
  PROVE  \A s \in Slots :
           /\ m[s].call = "templates" /\ m[s].latest =>
                n[s].call = "templates" /\ n[s].latest /\ m[s].at = n[s].at
                  /\ m[s].id = n[s].id /\ m[s].clusters = n[s].clusters
           /\ n[s].call = "templates" /\ n[s].latest => m[s].call = "templates" /\ m[s].latest
BY DEF Puts, SameKind, SameRequest

(* What does not make the list wrong: the page is left, starts again, or   *)
(* deletes something.                                                      *)
LEMMA RightStays ==
  ASSUME NEW r, NEW cs, NEW k, NEW p \in Page, NEW p2, NEW on, NEW cl, NEW del, NEW old \in BOOLEAN,
         NEW del2, NEW old2 \in BOOLEAN,
         Right(r, cs, k, p, on, cl, del, old),
         p.left => p2.left, del \subseteq del2, old => old2,
         ~Features[k].selection.keeps /\ p.loaded => p2.loaded /\ p2.route = p.route,
         p2.id \in {p.id, p.route}
  PROVE  Right(r, cs, k, p2, on, cl, del2, old2)
BY DEF Right

(***************************************************************************)
(* The publish dialog.                                                     *)
(***************************************************************************)
LEMMA CallIs ==
  ASSUME NEW q \in Call
  PROVE  /\ q.op \in {"none", "publish", "offline", "force"} /\ q.of \in Ids \cup {0}
         /\ q.at \in Phases /\ q.batch \in SUBSET Clusters
BY DEF Call

(* What stays of a request of the dialog that goes on.                     *)
LEMMA CallGoesOn ==
  ASSUME NEW q \in Call, NEW at \in Phases
  PROVE  /\ [q EXCEPT !.at = at] \in Call /\ [q EXCEPT !.at = at].at = at
         /\ [q EXCEPT !.at = at].op = q.op /\ [q EXCEPT !.at = at].batch = q.batch
<1>1. [q EXCEPT !.at = at] \in Call
  BY DEF Call
<1>2. [q EXCEPT !.at = at].at = at /\ [q EXCEPT !.at = at].op = q.op
      /\ [q EXCEPT !.at = at].batch = q.batch
  BY DEF Call
<1> QED  BY <1>1, <1>2

(* A cluster without a request of the dialog.                              *)
LEMMA NoCallIs == NoCall \in Call /\ NoCall.op = "none" /\ NoCall.at = "none"
BY DEF NoCall, Call, Phases

(* The request of c goes on.                                               *)
LEMMA ToKeeps ==
  ASSUME calls \in [Clusters -> Call], CallsAreWell(kind, calls), NEW c \in Clusters,
         NEW at \in Phases, To(c, at)
  PROVE  /\ calls' \in [Clusters -> Call] /\ CallsAreWell(kind, calls')
         /\ \A d \in Clusters \ {c} : calls'[d] = calls[d]
         /\ calls'[c].at = at /\ calls'[c].op = calls[c].op
<1>1. calls' = [calls EXCEPT ![c] = [calls[c] EXCEPT !.at = at]]
  BY DEF To
<1>2. calls'[c] = [calls[c] EXCEPT !.at = at] /\ \A d \in Clusters \ {c} : calls'[d] = calls[d]
  BY <1>1
<1>3. [calls[c] EXCEPT !.at = at] \in Call /\ calls'[c].at = at /\ calls'[c].op = calls[c].op
      /\ calls'[c].batch = calls[c].batch
  BY <1>2, CallGoesOn
<1>4. calls' \in [Clusters -> Call]
  BY <1>1, <1>3
<1>5. CallsAreWell(kind, calls')
  BY <1>2, <1>3 DEF CallsAreWell
<1> QED  BY <1>2, <1>3, <1>4, <1>5

(* The request of c is over.                                               *)
LEMMA DropKeeps ==
  ASSUME calls \in [Clusters -> Call], CallsAreWell(kind, calls), NEW c \in Clusters,
         calls' = [calls EXCEPT ![c] = NoCall]
  PROVE  /\ calls' \in [Clusters -> Call] /\ CallsAreWell(kind, calls')
         /\ \A d \in Clusters \ {c} : calls'[d] = calls[d]
<1>1. calls'[c] = NoCall /\ \A d \in Clusters \ {c} : calls'[d] = calls[d]
  OBVIOUS
<1>2. calls' \in [Clusters -> Call]
  BY NoCallIs
<1>3. CallsAreWell(kind, calls')
  BY <1>1, NoCallIs DEF CallsAreWell
<1> QED  BY <1>1, <1>2, <1>3

(* The dialog is submitted.                                                *)
LEMMA SubmitKeeps ==
  ASSUME DialogTypeOK, CallsAreWell(kind, calls), NEW op \in {"publish", "offline", "force"},
         NEW r \in Ids \cup {0}, NEW cs \in SUBSET Clusters, Submit(op, r, cs)
  PROVE  /\ DialogTypeOK' /\ CallsAreWell(kind, calls') /\ kind' = kind /\ online' = online
         /\ \A d \in Clusters : Dirty(calls[d]) => Dirty(calls'[d])
<1> DEFINE new(c) == [op |-> op, of |-> r, at |-> "sent",
                      batch |-> IF op = "publish" /\ Joins THEN cs ELSE {c}]
<1>1. /\ kind' = kind /\ online' = online
      /\ calls' = [c \in Clusters |-> IF c \in cs THEN new(c) ELSE calls[c]]
      /\ \A c \in cs : calls[c].at = "none"
  BY DEF Submit, Idle
<1>2. \A c \in Clusters : /\ new(c) \in Call /\ new(c).op = op
                          /\ op = "publish" /\ ~Joins => new(c).batch = {c}
  <2> TAKE c \in Clusters
  <2>1. (IF op = "publish" /\ Joins THEN cs ELSE {c}) \in SUBSET Clusters
    OBVIOUS
  <2>2. new(c) \in Call
    BY <2>1 DEF Call, Phases
  <2> QED  BY <2>2
<1> HIDE DEF new
<1>3. calls \in [Clusters -> Call]
  BY DEF DialogTypeOK
<1>4. calls' \in [Clusters -> Call]
  BY <1>1, <1>2, <1>3
<1>5. DialogTypeOK'
  BY <1>1, <1>4 DEF DialogTypeOK
<1>6. CallsAreWell(kind, calls')
  BY <1>1, <1>2 DEF CallsAreWell, Joins
<1>7. \A d \in Clusters : Dirty(calls[d]) => Dirty(calls'[d])
  BY <1>1 DEF Dirty
<1> QED  BY <1>1, <1>5, <1>6, <1>7

(* The server handles a request of the dialog: what it changes without an  *)
(* error, the dialog knows of.                                             *)
LEMMA ServesKeeps ==
  ASSUME DialogTypeOK, CallsAreWell(kind, calls), NEW c \in Clusters, Serves(c)
  PROVE  /\ DialogTypeOK' /\ CallsAreWell(kind, calls') /\ kind' = kind
         /\ \A d \in Clusters : Dirty(calls[d]) => Dirty(calls'[d])
         /\ online' # online => calls'[c].at \notin {"served", "removed"} \/ Dirty(calls'[c])
<1>1. calls \in [Clusters -> Call] /\ online \in [Ids -> SUBSET Clusters] /\ kind \in Kinds
  BY DEF DialogTypeOK
<1>p. {"sent", "served", "refused", "removing", "removed", "kept"} \subseteq Phases
  BY DEF Phases
<1>2. CASE Handle(c)
  <2>1. PICK at \in {"served", "refused"} : To(c, at)
    BY <1>2 DEF Handle
  <2>2. online' = online \/ (calls[c].op = "publish" /\ online' = [online EXCEPT ![calls[c].of] = @ \cup {c}])
    BY <1>2 DEF Handle
  <2>3. calls[c].at = "sent" /\ kind' = kind
    BY <1>2 DEF Handle
  <2>4. online' \in [Ids -> SUBSET Clusters]
    BY <2>2, <1>1
  <2>5. /\ calls' \in [Clusters -> Call] /\ CallsAreWell(kind, calls')
        /\ \A d \in Clusters \ {c} : calls'[d] = calls[d]
        /\ calls'[c].at = at /\ calls'[c].op = calls[c].op
    BY <1>1, <1>p, <2>1, ToKeeps
  <2>6. \A d \in Clusters : Dirty(calls[d]) => Dirty(calls'[d])
    BY <2>3, <2>5 DEF Dirty
  <2>7. online' # online => calls'[c].at \notin {"served", "removed"} \/ Dirty(calls'[c])
    BY <2>1, <2>2, <2>5 DEF Dirty
  <2> QED  BY <1>1, <2>3, <2>4, <2>5, <2>6, <2>7 DEF DialogTypeOK
<1>3. CASE HandleRemoval(c)
  <2>1. PICK at \in {"removed", "kept"} : To(c, at)
    BY <1>3 DEF HandleRemoval
  <2>2. online' = online \/ online' = [online EXCEPT ![calls[c].of] = @ \ {c}]
    BY <1>3 DEF HandleRemoval
  <2>3. calls[c].at = "removing" /\ kind' = kind
    BY <1>3 DEF HandleRemoval
  <2>4. online' \in [Ids -> SUBSET Clusters]
    BY <2>2, <1>1
  <2>5. /\ calls' \in [Clusters -> Call] /\ CallsAreWell(kind, calls')
        /\ \A d \in Clusters \ {c} : calls'[d] = calls[d]
        /\ calls'[c].at = at /\ calls'[c].op = calls[c].op
    BY <1>1, <1>p, <2>1, ToKeeps
  <2>6. \A d \in Clusters : Dirty(calls[d]) => Dirty(calls'[d])
    BY <2>3, <2>5 DEF Dirty
  <2>7. online' # online => calls'[c].at \notin {"served", "removed"} \/ Dirty(calls'[c])
    BY <2>1, <2>5 DEF Dirty
  <2> QED  BY <1>1, <2>3, <2>4, <2>5, <2>6, <2>7 DEF DialogTypeOK
<1>4. CASE HandleAborted(c)
  <2>1. calls' = [calls EXCEPT ![c] = NoCall] /\ calls[c].at = "aborted" /\ kind' = kind
    BY <1>4 DEF HandleAborted
  <2>2. online' = online \/ online' = [online EXCEPT ![calls[c].of] = @ \cup {c}]
    BY <1>4 DEF HandleAborted
  <2>3. online' \in [Ids -> SUBSET Clusters]
    BY <2>2, <1>1
  <2>4. /\ calls' \in [Clusters -> Call] /\ CallsAreWell(kind, calls')
        /\ \A d \in Clusters \ {c} : calls'[d] = calls[d]
    BY <1>1, <2>1, DropKeeps
  <2>5. calls'[c] = NoCall
    BY <1>1, <2>1
  <2>6. \A d \in Clusters : Dirty(calls[d]) => Dirty(calls'[d])
    BY <2>1, <2>4 DEF Dirty
  <2>7. calls'[c].at \notin {"served", "removed"}
    BY <2>5, NoCallIs
  <2> QED  BY <1>1, <2>1, <2>3, <2>4, <2>6, <2>7 DEF DialogTypeOK
<1> QED  BY <1>2, <1>3, <1>4 DEF Serves

(* An answer of the dialog, and of its whole batch.                        *)
LEMMA AnsweredKeeps ==
  ASSUME DialogTypeOK, CallsAreWell(kind, calls), NEW c \in Clusters,
         PublishAnswered(c) \/ PublishFailed(c) \/ OfflineAnswered(c) \/ RemovalAnswered(c)
  PROVE  DialogTypeOK' /\ CallsAreWell(kind, calls') /\ kind' = kind /\ online' = online
<1>1. calls \in [Clusters -> Call] /\ online \in [Ids -> SUBSET Clusters] /\ kind \in Kinds
  BY DEF DialogTypeOK
<1>2. kind' = kind /\ online' = online
  BY DEF PublishAnswered, PublishFailed, OfflineAnswered, RemovalAnswered
<1>3. "joined" \in Phases /\ "removing" \in Phases
  BY DEF Phases
<1>4. CASE PublishAnswered(c)
  <2>1. CASE Completes(c)
    <3>1. calls' = [d \in Clusters |-> IF d \in calls[c].batch THEN NoCall ELSE calls[d]]
      BY <1>4, <2>1 DEF PublishAnswered
    <3>2. calls' \in [Clusters -> Call]
      BY <1>1, <3>1, NoCallIs
    <3>3. CallsAreWell(kind, calls')
      BY <3>1, NoCallIs DEF CallsAreWell
    <3> QED  BY <1>1, <1>2, <3>2, <3>3 DEF DialogTypeOK
  <2>2. CASE ~Completes(c)
    <3>1. To(c, "joined")
      BY <1>4, <2>2 DEF PublishAnswered
    <3>2. calls' \in [Clusters -> Call] /\ CallsAreWell(kind, calls')
      BY <1>1, <1>3, <3>1, ToKeeps
    <3> QED  BY <1>1, <1>2, <3>2 DEF DialogTypeOK
  <2> QED  BY <2>1, <2>2
<1>5. CASE PublishFailed(c)
  <2>1. calls' = [d \in Clusters |->
                    IF d \notin calls[c].batch THEN calls[d]
                    ELSE IF calls[d].at = "sent" THEN [calls[d] EXCEPT !.at = "aborted"]
                    ELSE NoCall]
    BY <1>5 DEF PublishFailed
  <2>2. \A d \in Clusters : /\ [calls[d] EXCEPT !.at = "aborted"] \in Call
                            /\ [calls[d] EXCEPT !.at = "aborted"].op = calls[d].op
                            /\ [calls[d] EXCEPT !.at = "aborted"].batch = calls[d].batch
    <3>1. "aborted" \in Phases
      BY DEF Phases
    <3> QED  BY <1>1, <3>1, CallGoesOn
  <2>3. calls' \in [Clusters -> Call]
    BY <1>1, <2>1, <2>2, NoCallIs
  <2>4. CallsAreWell(kind, calls')
    BY <2>1, <2>2, NoCallIs DEF CallsAreWell
  <2> QED  BY <1>1, <1>2, <2>3, <2>4 DEF DialogTypeOK
<1>6. CASE OfflineAnswered(c) \/ RemovalAnswered(c)
  <2>1. To(c, "removing") \/ calls' = [calls EXCEPT ![c] = NoCall]
    BY <1>6 DEF OfflineAnswered, RemovalAnswered
  <2>2. calls' \in [Clusters -> Call] /\ CallsAreWell(kind, calls')
    BY <1>1, <1>3, <2>1, ToKeeps, DropKeeps
  <2> QED  BY <1>1, <1>2, <2>2 DEF DialogTypeOK
<1> QED  BY <1>4, <1>5, <1>6

(* An answer that does not refresh the page leaves no change unknown.      *)
LEMMA GoesKeeps ==
  ASSUME DialogTypeOK, CallsAreWell(kind, calls), NEW c \in Clusters, Goes(c)
  PROVE  \A d \in Clusters : Dirty(calls[d]) => Dirty(calls'[d])
<1>1. calls \in [Clusters -> Call] /\ kind \in Kinds
  BY DEF DialogTypeOK
<1>2. CASE PublishAnswered(c) /\ ~Completes(c)
  <2>1. To(c, "joined") /\ calls[c].op = "publish"
    BY <1>2 DEF PublishAnswered
  <2>2. "joined" \in Phases
    BY DEF Phases
  <2>3. /\ \A d \in Clusters \ {c} : calls'[d] = calls[d]
        /\ calls'[c].at = "joined" /\ calls'[c].op = calls[c].op
    BY <1>1, <2>1, <2>2, ToKeeps
  <2> QED  BY <2>1, <2>3 DEF Dirty
<1>3. CASE PublishFailed(c) /\ ~RefreshesOnError
  <2>1. calls[c].batch = {c} /\ calls[c].at = "refused"
    BY <1>3 DEF PublishFailed, RefreshesOnError, Joins, CallsAreWell
  <2>2. \A d \in Clusters \ {c} : calls'[d] = calls[d]
    BY <1>3, <2>1 DEF PublishFailed
  <2> QED  BY <2>1, <2>2 DEF Dirty
<1>4. CASE OfflineAnswered(c)
  <2>1. calls[c].op \in {"offline", "force"} /\ calls[c].at \in {"served", "refused"}
        /\ (To(c, "removing") \/ calls' = [calls EXCEPT ![c] = NoCall])
    BY <1>4 DEF OfflineAnswered
  <2>2. "removing" \in Phases
    BY DEF Phases
  <2>3. \A d \in Clusters \ {c} : calls'[d] = calls[d]
    BY <1>1, <2>1, <2>2, ToKeeps, DropKeeps
  <2> QED  BY <2>1, <2>3 DEF Dirty
<1>5. CASE RemovalAnswered(c) /\ calls[c].at = "kept"
  <2>1. \A d \in Clusters \ {c} : calls'[d] = calls[d]
    BY <1>1, <1>5, DropKeeps DEF RemovalAnswered
  <2> QED  BY <1>5, <2>1 DEF Dirty
<1> QED  BY <1>2, <1>3, <1>4, <1>5 DEF Goes

(***************************************************************************)
(* The types.                                                              *)
(***************************************************************************)
LEMMA EntriesTyped ==
  ASSUME NEW cs \in SUBSET Clusters
  PROVE  Entries(cs) \in Seq(Entry)
<1>1. cs \in SUBSET Nat /\ IsFiniteSet(cs)
  BY IdsAre, FS_Subset
<1>2. Cardinality(cs) \in Nat
  BY <1>1, FS_CardinalityType
<1>3. ASSUME NEW i \in 1..Cardinality(cs)
      PROVE  [cluster |-> CHOOSE c \in cs : Ordinal(c, cs) = i, err |-> 0, stopped |-> FALSE] \in Entry
  <2>1. \E c \in cs : Ordinal(c, cs) = i
    BY <1>1, OrdinalIs
  <2>2. (CHOOSE c \in cs : Ordinal(c, cs) = i) \in cs
    BY <2>1
  <2> QED  BY <2>2 DEF Entry
<1> QED  BY <1>2, <1>3 DEF Entries

(* The polls that are started are counted.                                 *)
LEMMA SyncTyped ==
  ASSUME polls \in [Keys -> Nat], NEW es, SyncStatus(es)
  PROVE  polls' \in [Keys -> Nat]
BY DEF SyncStatus

(* A poll's answer ends it and sets its entry, if there is one.            *)
LEMMA AnsweredTyped ==
  ASSUME entries \in Seq(Entry), polls \in [Keys -> Nat], NEW j \in Keys,
         NEW answer \in PollAnswers, PollAnswered(j, answer)
  PROVE  entries' \in Seq(Entry) /\ polls' \in [Keys -> Nat]
<1> DEFINE i == j[1]
<1>1. polls' = [polls EXCEPT ![j] = polls[j] - 1] /\ polls[j] > 0
  BY DEF PollAnswered
<1>2. polls' \in [Keys -> Nat]
  BY <1>1
<1>3. i \in Nat /\ i >= 1
  BY DEF Keys
<1>4. CASE i > Len(entries)
  <2>1. entries' = entries
    BY <1>4 DEF PollAnswered
  <2> QED  BY <1>2, <2>1
<1>5. CASE ~(i > Len(entries))
  <2>1. i \in DOMAIN entries /\ entries[i] \in Entry /\ Len(entries) \in Nat
    BY <1>3, <1>5
  <2>2. entries[i].err \in Nat /\ entries[i].stopped \in BOOLEAN
    BY <2>1 DEF Entry
  <2>3. PICK e : e \in Entry /\ entries' = [entries EXCEPT ![i] = e]
    <3>1. CASE answer = "state" /\ Poll.clears
      <4>1. entries' = [entries EXCEPT ![i] = [entries[i] EXCEPT !.err = 0]]
        BY <1>5, <3>1 DEF PollAnswered
      <4>2. [entries[i] EXCEPT !.err = 0] \in Entry
        BY <2>1 DEF Entry
      <4> QED  BY <4>1, <4>2
    <3>2. CASE answer = "nothing" \/ (answer = "state" /\ ~Poll.clears)
      <4>1. entries' = entries
        BY <1>5, <3>2 DEF PollAnswered
      <4> QED  BY <4>1, <2>1
    <3>3. CASE answer = "error"
      <4> DEFINE b == entries[i].stopped \/ entries[i].err + 1 = Poll.stop
      <4>1. entries' = [entries EXCEPT ![i] = [[entries[i] EXCEPT !.err = entries[i].err + 1]
                                                 EXCEPT !.stopped = b]]
        BY <1>5, <2>1, <2>2, <3>3 DEF PollAnswered, Entry
      <4>2. b \in BOOLEAN /\ entries[i].err + 1 \in Nat
        BY <2>2
      <4> HIDE DEF b
      <4>3. [[entries[i] EXCEPT !.err = entries[i].err + 1] EXCEPT !.stopped = b] \in Entry
        BY <2>1, <4>2 DEF Entry
      <4> QED  BY <4>1, <4>3
    <3> QED  BY <3>1, <3>2, <3>3 DEF PollAnswers
  <2>4. entries' \in Seq(Entry)
    BY <2>1, <2>3
  <2> QED  BY <1>2, <2>4
<1> QED  BY <1>4, <1>5

(* What the invariant says, part by part.                                  *)
LEMMA InvIs ==
  ASSUME PageInv
  PROVE  /\ kind \in Kinds /\ kind \in PageKinds /\ DialogTypeOK
         /\ online \in [Ids -> SUBSET Clusters] /\ calls \in [Clusters -> Call]
         /\ net \in [Slots -> Request] /\ page \in Page
         /\ asked \in Ids \cup {0} /\ db \in SUBSET Ids /\ deleted \in SUBSET Ids
         /\ told \in BOOLEAN /\ oldTabs \in BOOLEAN /\ muddled \in BOOLEAN
         /\ load \in Workloads /\ entries \in Seq(Entry) /\ polls \in [Keys -> Nat]
         /\ acts \in 0..MaxActs /\ others \in 0..MaxOthers
         /\ CallsAreWell(kind, calls)
         /\ TabsAreWell(kind, net, page, asked, db, deleted, told, oldTabs)
         /\ ListIsWell(kind, net, page, online, calls, deleted, oldTabs, muddled)
         /\ NetIsWell(net) /\ SelectionIsWell(kind, page, db, deleted, net)
         /\ FirstIsAlone(net, page, asked, db, told)
BY DialogAssumption DEF PageInv, TypeOK, DialogTypeOK, TabsAreWell

(* What the invariant says of the tabs.                                    *)
LEMMA NowIs ==
  ASSUME PageInv
  PROVE  /\ kind \in PageKinds /\ net \in [Slots -> Request] /\ page \in Page
         /\ asked \in Ids \cup {0} /\ db \in SUBSET Ids /\ deleted \in SUBSET Ids
         /\ told \in BOOLEAN /\ oldTabs \in BOOLEAN /\ muddled \in BOOLEAN
         /\ TabsAreWell(kind, net, page, asked, db, deleted, told, oldTabs)
BY InvIs

(* The publish dialog stays well where it does nothing.                    *)
LEMMA DialogStays ==
  ASSUME PageInv, UNCHANGED dialogVars
  PROVE  /\ DialogTypeOK' /\ CallsAreWell(kind', calls')
         /\ kind' = kind /\ online' = online /\ calls' = calls
<1>1. kind' = kind /\ online' = online /\ calls' = calls
  BY DEF dialogVars
<1> QED  BY <1>1, InvIs DEF DialogTypeOK

(* An act of the user is counted; it is not done on a page that was left.  *)
LEMMA ActsIs ==
  ASSUME acts \in 0..MaxActs, NEW name, Acts(name)
  PROVE  acts' \in 0..MaxActs /\ ~page.left /\ page.dialog = 0
BY PageAssumption DEF Acts

(* retrieve() for id, which may be none.                                   *)
LEMMA RetrieveIs ==
  ASSUME NEW n \in [Slots -> Request], NEW id \in Ids \cup {0}, asked \in Ids \cup {0},
         net' \in Sent(n, Retrieve(id)), Asks(id)
  PROVE  /\ net' \in [Slots -> Request] /\ asked' \in Ids \cup {0}
         /\ asked' = IF id = 0 THEN asked ELSE id
         /\ id = 0 => net' = n
         /\ id # 0 => \E u, q : /\ Puts(n, u, q, net') /\ q.call = "templates" /\ q.id = id
                                /\ q.latest /\ q.at = "sent"
<1>1. asked' = IF id = 0 THEN asked ELSE id
  BY DEF Asks
<1>2. CASE id = 0
  <2>1. net' \in Sent(n, {})
    BY <1>2 DEF Retrieve
  <2>2. net' = n
    BY <2>1, SentNothing
  <2> QED  BY <1>1, <1>2, <2>2
<1>3. CASE id # 0
  <2> DEFINE q == Of("templates", id, FALSE)
  <2>1. q \in Request /\ q.call = "templates" /\ q.id = id /\ q.latest /\ q.at = "sent"
    BY OfTemplatesIs
  <2>2. net' \in Sent(n, {q})
    BY <1>3 DEF Retrieve
  <2> HIDE DEF q
  <2>3. PICK u \in Slots : Puts(n, u, q, net')
    BY <2>1, <2>2, SentOne
  <2>4. net' \in [Slots -> Request]
    BY <2>3 DEF Puts
  <2> QED  BY <1>1, <1>3, <2>1, <2>3, <2>4
<1> QED  BY <1>2, <1>3

(* retrieve() without a resource asks for nothing.                         *)
LEMMA RetrieveNothing ==
  ASSUME NEW n \in [Slots -> Request], net' \in Sent(n, Retrieve(0)), Asks(0)
  PROVE  net' = n /\ asked' = asked
BY SentNothing DEF Retrieve, Asks

(* What it leaves well: the tabs, where the resource is the selected one,  *)
(* and the list.                                                           *)
LEMMA RetrieveKeeps ==
  ASSUME NEW k \in PageKinds, NEW n \in [Slots -> Request], NEW id \in Ids,
         net' \in Sent(n, Retrieve(id)), Asks(id), asked \in Ids \cup {0},
         NEW p \in Page, NEW d \in SUBSET Ids, NEW del \in SUBSET Ids, NEW t \in BOOLEAN,
         NEW old \in BOOLEAN, TabsAreWell(k, n, p, id, d, del, t, old)
  PROVE  /\ net' \in [Slots -> Request] /\ asked' = id
         /\ TabsAreWell(k, net', p, asked', d, del, t, old)
         /\ \A on, cl, mud : ListIsWell(k, net', p, on, cl, del, old, mud)
<1>0. id \in Ids \cup {0} /\ id # 0
  BY IdsAre
<1>1. net' \in [Slots -> Request] /\ asked' = id
  BY <1>0, RetrieveIs
<1>2. PICK u, q : /\ Puts(n, u, q, net') /\ q.call = "templates" /\ q.id = id
                  /\ q.latest /\ q.at = "sent"
  BY <1>0, RetrieveIs
<1>3. TabsAreWell(k, net', p, id, d, del, t, old)
  BY <1>0, <1>1, <1>2, TabsWhenTemplates
<1>4. \A on, cl, mud : ListIsWell(k, net', p, on, cl, del, old, mud)
  BY <1>2, ListWhenAsked
<1> QED  BY <1>1, <1>3, <1>4

(***************************************************************************)
(* What the user does.                                                     *)
(***************************************************************************)
LEMMA TabClickKeeps ==
  ASSUME PageInv, NEW r \in Ids, TabClick(r)
  PROVE  PageInv'
<1>1. /\ r \in page.ids /\ Acts("tab") /\ net' \in Sent(net, Retrieve(r)) /\ Asks(r)
      /\ page' = [page EXCEPT !.id = r, !.route = IF Sel.navigates THEN r ELSE @]
      /\ UNCHANGED <<dialogVars, load, db, entries, polls, others, deleted, told, oldTabs, muddled>>
  BY DEF TabClick
<1>2. page' \in Page /\ page'.id = r /\ page'.ids = page.ids /\ (page'.loaded <=> page.loaded)
      /\ (~Sel.navigates => page'.route = page.route)
  BY <1>1, InvIs DEF Page
<1>3. ~Features[kind].selection.keeps => ~Sel.navigates
  BY InvIs, KindFacts DEF Sel
<1>4. TabsAreWell(kind, net, page', r, db, deleted, told, oldTabs)
  <2>1. ~Features[kind].selection.keeps => page'.route = page.route
    BY <1>2, <1>3
  <2>2. TabsAreWell(kind, net, page, asked, db, deleted, told, oldTabs)
    BY InvIs
  <2>3. /\ kind \in PageKinds /\ net \in [Slots -> Request] /\ page \in Page
        /\ asked \in Ids \cup {0} /\ db \in SUBSET Ids /\ deleted \in SUBSET Ids
        /\ told \in BOOLEAN /\ oldTabs \in BOOLEAN /\ muddled \in BOOLEAN
    BY InvIs
  <2>4. /\ r \in page.ids /\ page' \in Page /\ page'.id = r /\ page'.ids = page.ids
        /\ (page'.loaded <=> page.loaded)
    BY <1>1, <1>2
  <2> QED  BY <2>1, <2>2, <2>3, <2>4, TabsWhenSelected, SMTT(60)
<1>5. r # 0
  BY IdsAre
<1>6. /\ net' \in [Slots -> Request] /\ asked' \in Ids \cup {0}
      /\ TabsAreWell(kind, net', page', asked', db, deleted, told, oldTabs)
      /\ ListIsWell(kind, net', page', online, calls, deleted, oldTabs, muddled)
  <2>1. /\ kind \in PageKinds /\ net \in [Slots -> Request]
        /\ asked \in Ids \cup {0} /\ db \in SUBSET Ids /\ deleted \in SUBSET Ids
        /\ told \in BOOLEAN /\ oldTabs \in BOOLEAN /\ muddled \in BOOLEAN
    BY InvIs
  <2>2. net' \in Sent(net, Retrieve(r)) /\ Asks(r)
    BY <1>1
  <2>3. page' \in Page
    BY <1>2
  <2> QED  BY <1>4, <2>1, <2>2, <2>3, RetrieveKeeps, SMTT(60)
<1>7. acts' \in 0..MaxActs
  BY <1>1, InvIs, ActsIs
<1>8. TypeOK'
  BY <1>1, <1>2, <1>6, <1>7, InvIs, DialogStays DEF TypeOK
<1> QED  BY <1>1, <1>6, <1>8, InvIs, DialogStays DEF PageInv

(* The user refreshes.                                                     *)
LEMMA RefreshKeeps ==
  ASSUME PageInv, Refresh
  PROVE  PageInv'
<1>1. /\ Acts("refresh") /\ net' \in Sent(net, Retrieve(page.id)) /\ Asks(page.id)
      /\ UNCHANGED <<dialogVars, load, db, page, entries, polls, others, deleted, told, oldTabs, muddled>>
  BY DEF Refresh
<1>2. page.id \in Ids \cup {0}
  BY InvIs, PageIs
<1>3. /\ kind \in PageKinds /\ net \in [Slots -> Request] /\ page \in Page
      /\ asked \in Ids \cup {0} /\ db \in SUBSET Ids /\ deleted \in SUBSET Ids
      /\ told \in BOOLEAN /\ oldTabs \in BOOLEAN /\ muddled \in BOOLEAN
      /\ TabsAreWell(kind, net, page, asked, db, deleted, told, oldTabs)
      /\ ListIsWell(kind, net, page, online, calls, deleted, oldTabs, muddled)
  BY InvIs
<1>4. /\ net' \in [Slots -> Request] /\ asked' \in Ids \cup {0}
      /\ TabsAreWell(kind, net', page, asked', db, deleted, told, oldTabs)
      /\ ListIsWell(kind, net', page, online, calls, deleted, oldTabs, muddled)
  <2>1. CASE page.id = 0
    <3>1. net' = net /\ asked' = asked
      BY <1>1, <1>3, <2>1, RetrieveNothing
    <3> QED  BY <1>3, <3>1
  <2>2. CASE page.id # 0
    <3>1. TabsAreWell(kind, net, page, page.id, db, deleted, told, oldTabs)
      BY <1>3, <2>2, TabsWhenAsked
    <3>2. page.id \in Ids /\ net' \in Sent(net, Retrieve(page.id)) /\ Asks(page.id)
      BY <1>1, <1>2, <2>2
    <3> QED  BY <1>3, <3>1, <3>2, RetrieveKeeps
  <2> QED  BY <2>1, <2>2
<1>5. acts' \in 0..MaxActs
  BY <1>1, InvIs, ActsIs
<1>6. TypeOK'
  BY <1>1, <1>4, <1>5, InvIs, DialogStays DEF TypeOK
<1> QED  BY <1>1, <1>4, <1>6, InvIs, DialogStays DEF PageInv

(* A change of the deletion dialog, or the departure.                      *)
LEMMA PageKeeps ==
  ASSUME PageInv, page' \in Page, SamePage(page', page), page.left => page'.left,
         page'.of = page.of, page'.shown = page.shown, net' = net, acts' \in 0..MaxActs,
         UNCHANGED <<dialogVars, load, db, entries, polls, others, history>>
  PROVE  PageInv'
<1>1. UNCHANGED <<asked, deleted, told, oldTabs, muddled>>
  BY DEF history
<1>2. TabsAreWell(kind, net, page', asked, db, deleted, told, oldTabs)
  BY InvIs, TabsStay
<1>3. \A r \in Ids, cs \in SUBSET Clusters :
        Right(r, cs, kind, page, online, calls, deleted, oldTabs) =>
          Right(r, cs, kind, page', online, calls, deleted, oldTabs)
  BY InvIs, RightStays DEF SamePage
<1>4. ListIsWell(kind, net, page', online, calls, deleted, oldTabs, muddled)
  BY <1>3, InvIs, ListStays
<1>5. TypeOK'
  BY <1>1, InvIs, DialogStays DEF TypeOK
<1> QED  BY <1>1, <1>2, <1>4, <1>5, InvIs, DialogStays DEF PageInv

(* The deletion dialog is opened or cancelled, or the page is left.        *)
LEMMA DialogOpens ==
  ASSUME PageInv, OpenDelete \/ Cancel \/ Leave
  PROVE  PageInv'
<1>1. CASE OpenDelete
  <2>1. /\ Acts("delete") /\ page' = [page EXCEPT !.dialog = page.id] /\ net' = net
        /\ UNCHANGED <<dialogVars, load, db, entries, polls, others, history>>
    BY <1>1 DEF OpenDelete
  <2>2. page' \in Page /\ SamePage(page', page) /\ page'.left = page.left /\ page'.of = page.of
        /\ page'.shown = page.shown
    BY <2>1, InvIs DEF Page, SamePage
  <2>3. acts' \in 0..MaxActs
    BY <2>1, InvIs, ActsIs
  <2> QED  BY <2>1, <2>2, <2>3, PageKeeps
<1>2. CASE Cancel
  <2>1. /\ page' = [page EXCEPT !.dialog = 0] /\ net' = net /\ acts' = acts
        /\ UNCHANGED <<dialogVars, load, db, entries, polls, others, history>>
    BY <1>2 DEF Cancel
  <2>2. page' \in Page /\ SamePage(page', page) /\ page'.left = page.left /\ page'.of = page.of
        /\ page'.shown = page.shown
    BY <2>1, InvIs DEF Page, SamePage
  <2> QED  BY <2>1, <2>2, InvIs, PageKeeps
<1>3. CASE Leave
  <2>1. /\ page' = [page EXCEPT !.left = TRUE] /\ net' = net /\ acts' = acts
        /\ UNCHANGED <<dialogVars, load, db, entries, polls, others, history>>
    BY <1>3 DEF Leave
  <2>2. page' \in Page /\ SamePage(page', page) /\ page'.left /\ page'.of = page.of
        /\ page'.shown = page.shown
    BY <2>1, InvIs DEF Page, SamePage
  <2> QED  BY <2>1, <2>2, InvIs, PageKeeps
<1> QED  BY <1>1, <1>2, <1>3

(* The user confirms a deletion.                                           *)
LEMMA ConfirmKeeps ==
  ASSUME PageInv, Confirm
  PROVE  PageInv'
<1>1. /\ page' = [page EXCEPT !.dialog = 0] /\ acts' = acts
      /\ UNCHANGED <<dialogVars, load, db, entries, polls, others, history>>
      /\ net' = net \/ net' \in Sent(net, {Of("delete", page.dialog, FALSE)})
  BY DEF Confirm
<1>2. page' \in Page /\ SamePage(page', page) /\ page'.left = page.left /\ page'.of = page.of
      /\ page'.shown = page.shown
  BY <1>1, InvIs DEF Page, SamePage
<1>3. CASE net' = net
  BY <1>1, <1>2, <1>3, InvIs, PageKeeps
<1>4. CASE net' \in Sent(net, {Of("delete", page.dialog, FALSE)})
  <2> DEFINE q == Of("delete", page.dialog, FALSE)
  <2>1. q \in Request /\ q.call = "delete"
    BY InvIs, PageIs, OfDeleteIs
  <2>2. net' \in Sent(net, {q})
    BY <1>4
  <2> HIDE DEF q
  <2>3. PICK u \in Slots : Puts(net, u, q, net')
    BY <2>1, <2>2, InvIs, SentOne
  <2>4. net' \in [Slots -> Request]
    BY <2>3 DEF Puts
  <2>5. UNCHANGED <<asked, deleted, told, oldTabs, muddled>>
    BY <1>1 DEF history
  <2>6. TabsAreWell(kind, net, page', asked, db, deleted, told, oldTabs)
    BY <1>2, InvIs, TabsStay
  <2>7. TabsAreWell(kind, net', page', asked, db, deleted, told, oldTabs)
    BY <1>2, <2>1, <2>3, <2>4, <2>6, InvIs, TabsWhenDeleting
  <2>8. \A r \in Ids, cs \in SUBSET Clusters :
          Right(r, cs, kind, page, online, calls, deleted, oldTabs) =>
            Right(r, cs, kind, page', online, calls, deleted, oldTabs)
    BY <1>2, InvIs, RightStays DEF SamePage
  <2>9. \A s \in Slots :
          /\ net'[s].call = "templates" /\ net'[s].latest =>
               net[s].call = "templates" /\ net[s].latest /\ net'[s].at = net[s].at
                 /\ net'[s].id = net[s].id /\ net'[s].clusters = net[s].clusters
          /\ net[s].call = "templates" /\ net[s].latest => net'[s].call = "templates" /\ net'[s].latest
    BY <2>1, <2>3, <2>4, InvIs, TemplatesAreKept
  <2>10. ListIsWell(kind, net', page', online, calls, deleted, oldTabs, muddled)
    BY <1>2, <2>8, <2>9, InvIs, ListStays
  <2>11. TypeOK'
    BY <1>1, <1>2, <2>4, <2>5, InvIs, DialogStays DEF TypeOK
  <2> QED  BY <1>1, <2>5, <2>7, <2>10, <2>11, InvIs, DialogStays DEF PageInv
<1> QED  BY <1>1, <1>3, <1>4

(* The user creates a resource.                                            *)
LEMMA CreateKeeps ==
  ASSUME PageInv, NEW r \in Ids, Create(r)
  PROVE  PageInv'
<1>1. /\ Acts("create") /\ page.loaded /\ r \notin db \cup deleted /\ db' = db \cup {r}
      /\ UNCHANGED <<dialogVars, load, entries, polls, others, deleted, told, oldTabs, muddled>>
  BY DEF Create
<1>2. acts' \in 0..MaxActs
  BY <1>1, InvIs, ActsIs
<1>3. db' \in SUBSET Ids /\ r # 0
  BY <1>1, InvIs, IdsAre
<1>4. ~Features[kind].selection.keeps => ~Sel.navigates
  BY InvIs, KindFacts DEF Sel
<1>5. CASE Sel.create = "show"
  <2>1. /\ page' = [page EXCEPT !.id = r, !.route = IF Sel.navigates THEN r ELSE @]
        /\ net' \in Sent(net, {Of("list", 0, FALSE)} \cup Retrieve(r)) /\ Asks(r)
    BY <1>5 DEF Create
  <2>2. page' \in Page /\ page'.id = r /\ page'.ids = page.ids /\ (page'.loaded <=> page.loaded)
        /\ (~Sel.navigates => page'.route = page.route)
    BY <2>1, InvIs DEF Page
  <2> DEFINE q == Of("list", 0, FALSE)
             w == Of("templates", r, FALSE)
  <2>3. q \in Request /\ q.call = "list" /\ q.at = "sent"
    BY OfTabsIs
  <2>4. w \in Request /\ w.call = "templates" /\ w.id = r /\ w.latest /\ w.at = "sent"
    BY OfTemplatesIs
  <2>5. net' \in Sent(net, {q, w})
    <3>1. {q} \cup Retrieve(r) = {q, w}
      BY <1>3 DEF Retrieve
    <3> QED  BY <2>1, <3>1
  <2>6. asked' = r
    BY <1>3, <2>1 DEF Asks
  <2> HIDE DEF q, w
  <2>7. PICK u, v \in Slots, o \in [Slots -> Request] : Puts(net, u, q, o) /\ Puts(o, v, w, net')
    BY <2>3, <2>4, <2>5, InvIs, SentBoth
  <2>8. net' \in [Slots -> Request]
    BY <2>7 DEF Puts
  <2>9. TabsAreWell(kind, o, page', r, db \cup {r}, deleted, told, oldTabs)
    <3>1. /\ kind \in PageKinds /\ net \in [Slots -> Request] /\ page \in Page
          /\ asked \in Ids \cup {0} /\ db \in SUBSET Ids /\ deleted \in SUBSET Ids
          /\ told \in BOOLEAN /\ oldTabs \in BOOLEAN
          /\ TabsAreWell(kind, net, page, asked, db, deleted, told, oldTabs)
      BY InvIs
    <3>2. page' \in Page /\ page.loaded /\ r \notin db \cup deleted
      BY <1>1, <2>2
    <3>3. Selects(kind, page, page', r)
      BY <1>4, <2>2 DEF Selects
    <3> QED  BY <2>3, <2>7, <3>1, <3>2, <3>3, TabsWhenCreated, SMTT(60)
  <2>10. TabsAreWell(kind, net', page', r, db \cup {r}, deleted, told, oldTabs)
    <3>1. db \cup {r} \in SUBSET Ids /\ r \in Ids \cup {0} /\ w.id # 0
      BY <1>1, <1>3, <2>4
    <3> QED  BY <2>2, <2>4, <2>7, <2>8, <2>9, <3>1, InvIs, TabsWhenTemplates
  <2>11. ListIsWell(kind, net', page', online, calls, deleted, oldTabs, muddled)
    BY <2>4, <2>7, ListWhenAsked
  <2>12. TypeOK'
    BY <1>1, <1>2, <1>3, <2>2, <2>6, <2>8, InvIs, DialogStays DEF TypeOK
  <2> QED  BY <1>1, <2>6, <2>10, <2>11, <2>12, InvIs, DialogStays DEF PageInv
<1>6. CASE Sel.create # "show"
  <2>1. page' = Restarted /\ net' \in Sent(net, {Of("init", 0, TRUE)}) /\ asked' = asked
    BY <1>6 DEF Create
  <2>2. page' \in Page /\ page'.id = page.route /\ page'.route = page.route
        /\ (page'.loaded <=> page.loaded) /\ page'.left = page.left /\ page'.of = page.of
        /\ page'.shown = page.shown
    BY <2>1, InvIs DEF Page, Restarted
  <2> DEFINE q == Of("init", 0, TRUE)
  <2>3. q \in Request /\ q.call = "init" /\ q.refresh /\ q.at = "sent"
    BY OfTabsIs
  <2>4. net' \in Sent(net, {q})
    BY <2>1
  <2> HIDE DEF q
  <2>5. PICK u \in Slots : Puts(net, u, q, net')
    BY <2>3, <2>4, InvIs, SentOne
  <2>6. net' \in [Slots -> Request]
    BY <2>5 DEF Puts
  <2>7. TabsAreWell(kind, net', page', asked, db', deleted, told, oldTabs)
    <3>1. Grows(db, db', deleted)
      BY <1>1, InvIs DEF SelectionIsWell, Grows
    <3>2. /\ kind \in PageKinds /\ net \in [Slots -> Request] /\ page \in Page
          /\ asked \in Ids \cup {0} /\ db \in SUBSET Ids /\ deleted \in SUBSET Ids
          /\ told \in BOOLEAN /\ oldTabs \in BOOLEAN
          /\ NetIsWell(net) /\ SelectionIsWell(kind, page, db, deleted, net)
      BY InvIs
    <3>3. db' \in SUBSET Ids
      BY <1>3
    <3>4. page' \in Page /\ Restarts(page, page')
      BY <2>2 DEF Restarts
    <3> QED  BY <2>3, <2>5, <2>6, <3>1, <3>2, <3>3, <3>4, TabsWhenRestarted, SMTT(60)
  <2>8. \A x \in Ids, cs \in SUBSET Clusters :
          Right(x, cs, kind, page, online, calls, deleted, oldTabs) =>
            Right(x, cs, kind, page', online, calls, deleted, oldTabs)
    BY <2>2, InvIs, RightStays
  <2>9. \A s \in Slots :
          /\ net'[s].call = "templates" /\ net'[s].latest =>
               net[s].call = "templates" /\ net[s].latest /\ net'[s].at = net[s].at
                 /\ net'[s].id = net[s].id /\ net'[s].clusters = net[s].clusters
          /\ net[s].call = "templates" /\ net[s].latest => net'[s].call = "templates" /\ net'[s].latest
    BY <2>3, <2>5, <2>6, InvIs, TemplatesAreKept
  <2>10. ListIsWell(kind, net', page', online, calls, deleted, oldTabs, muddled)
    BY <2>2, <2>8, <2>9, InvIs, ListStays
  <2>11. TypeOK'
    BY <1>1, <1>2, <1>3, <2>1, <2>2, <2>6, InvIs, DialogStays DEF TypeOK
  <2> QED  BY <1>1, <2>1, <2>7, <2>10, <2>11, InvIs, DialogStays DEF PageInv
<1> QED  BY <1>5, <1>6

(***************************************************************************)
(* The publish dialog, and other users.                                    *)
(***************************************************************************)
(* A change of publications that the dialog knows of leaves right what was *)
(* right.                                                                  *)
LEMMA RightWhenDirty ==
  ASSUME NEW r, NEW cs, NEW k, NEW p, NEW on, NEW on2, NEW cl, NEW cl2, NEW del, NEW old,
         Right(r, cs, k, p, on, cl, del, old),
         \A c \in Clusters : Dirty(cl[c]) => Dirty(cl2[c]),
         on2 # on => \E c \in Clusters : Dirty(cl2[c])
  PROVE  Right(r, cs, k, p, on2, cl2, del, old)
BY DEF Right

(* The calls change, and nothing else.                                     *)
LEMMA CallsKeep ==
  ASSUME PageInv, DialogTypeOK', CallsAreWell(kind, calls'), kind' = kind, online' = online,
         \A d \in Clusters : Dirty(calls[d]) => Dirty(calls'[d]), acts' \in 0..MaxActs,
         UNCHANGED <<load, db, page, entries, net, polls, others, history>>
  PROVE  PageInv'
<1>1. UNCHANGED <<asked, deleted, told, oldTabs, muddled>>
  BY DEF history
<1>2. \A r \in Ids, cs \in SUBSET Clusters :
        Right(r, cs, kind, page, online, calls, deleted, oldTabs) =>
          Right(r, cs, kind, page, online, calls', deleted, oldTabs)
  BY RightWhenDirty
<1>3. ListIsWell(kind, net, page, online, calls', deleted, oldTabs, muddled)
  BY <1>2, InvIs, ListStays
<1>4. TypeOK'
  BY <1>1, InvIs DEF TypeOK
<1> QED  BY <1>1, <1>3, <1>4, InvIs DEF PageInv

(* The user publishes, or takes offline.                                   *)
LEMMA SubmitsKeep ==
  ASSUME PageInv, NEW cs \in SUBSET Clusters,
         Publish(cs) \/ \E op \in {"offline", "force"} : Offline(op, cs)
  PROVE  PageInv'
<1>1. PICK op \in {"publish", "offline", "force"} : Submit(op, page.of, cs)
  BY DEF Publish, Offline
<1>2. Acts("publish") /\ UNCHANGED <<load, db, page, entries, net, polls, others, history>>
  BY DEF Publish, Offline
<1>3. page.of \in Ids \cup {0}
  BY InvIs, PageIs
<1>4. /\ DialogTypeOK' /\ CallsAreWell(kind, calls') /\ kind' = kind /\ online' = online
      /\ \A d \in Clusters : Dirty(calls[d]) => Dirty(calls'[d])
  BY <1>1, <1>3, InvIs, SubmitKeeps
<1>5. acts' \in 0..MaxActs
  BY <1>2, InvIs, ActsIs
<1> QED  BY <1>2, <1>4, <1>5, CallsKeep

(* An answer of the publish dialog that does not refresh the page.         *)
LEMMA DialogAnsweredKeeps ==
  ASSUME PageInv, NEW c \in Clusters, DialogAnswered(c)
  PROVE  PageInv'
<1>1. Goes(c) /\ UNCHANGED <<pageVars, history>>
  BY DEF DialogAnswered
<1>2. UNCHANGED <<load, db, page, entries, net, polls, others, history>> /\ acts' = acts
  BY <1>1 DEF pageVars
<1>3. DialogTypeOK' /\ CallsAreWell(kind, calls') /\ kind' = kind /\ online' = online
  BY <1>1, InvIs, AnsweredKeeps DEF Goes
<1>4. \A d \in Clusters : Dirty(calls[d]) => Dirty(calls'[d])
  BY <1>1, InvIs, GoesKeeps
<1> QED  BY <1>2, <1>3, <1>4, InvIs, CallsKeep

(* The table changes behind the page's back.                               *)
LEMMA MuddleKeeps ==
  ASSUME PageInv, Muddle
  PROVE  /\ net' \in [Slots -> Request] /\ muddled'
         /\ TabsAreWell(kind, net', page, asked, db, deleted, told, oldTabs)
         /\ \A on, cl : ListIsWell(kind, net', page, on, cl, deleted, oldTabs, TRUE)
<1> DEFINE over(s) == [net[s] EXCEPT !.latest = FALSE]
<1>1. muddled' /\ net' = [s \in Slots |-> IF net[s].at = "served" THEN over(s) ELSE net[s]]
  BY DEF Muddle
<1>2. \A s \in Slots : over(s) \in Request /\ SameRequest(over(s), net[s]) /\ ~over(s).latest
  BY InvIs, RequestIsOverdue
<1>3. \A s \in Slots : SameRequest(net[s], net[s])
  BY DEF SameRequest
<1> HIDE DEF over
<1>4. net' \in [Slots -> Request]
  BY <1>1, <1>2, InvIs
<1>5. \A s \in Slots : SameRequest(net'[s], net[s]) /\ (net'[s].latest => net[s].latest)
  BY <1>1, <1>2, <1>3
<1>6. TabsAreWell(kind, net', page, asked, db, deleted, told, oldTabs)
  BY <1>4, <1>5, InvIs, TabsWhenOverdue
<1>7. \A s \in Slots : net'[s].at = "served" => ~net'[s].latest
  BY <1>1, <1>2 DEF SameRequest
<1>8. \A on, cl : ListIsWell(kind, net', page, on, cl, deleted, oldTabs, TRUE)
  BY <1>7 DEF ListIsWell, AnswerIsRight, ListIsRight
<1> QED  BY <1>1, <1>4, <1>6, <1>8

(* Another user publishes, or takes offline: the answers on their way are  *)
(* out of date, and the list is muddled.                                   *)
LEMMA OthersKeep ==
  ASSUME PageInv, NEW r \in Ids, NEW c \in Clusters, Others(r, c)
  PROVE  PageInv'
<1>1. /\ others < MaxOthers /\ others' = others + 1 /\ Muddle
      /\ online' = [online EXCEPT ![r] = IF c \in @ THEN @ \ {c} ELSE @ \cup {c}]
      /\ UNCHANGED <<kind, calls, load, db, page, entries, polls, acts, asked, deleted, told, oldTabs>>
  BY DEF Others
<1>2. online' \in [Ids -> SUBSET Clusters]
  BY <1>1, InvIs
<1>3. /\ net' \in [Slots -> Request] /\ muddled'
      /\ TabsAreWell(kind, net', page, asked, db, deleted, told, oldTabs)
      /\ \A on, cl : ListIsWell(kind, net', page, on, cl, deleted, oldTabs, TRUE)
  BY <1>1, MuddleKeeps
<1>4. muddled' = TRUE
  BY <1>1 DEF Muddle
<1>5. others' \in 0..MaxOthers
  BY <1>1, InvIs, PageAssumption
<1>6. TypeOK'
  BY <1>1, <1>2, <1>3, <1>4, <1>5, InvIs DEF TypeOK, DialogTypeOK
<1>7. ListIsWell(kind, net', page, online', calls, deleted, oldTabs, muddled')
  BY <1>3, <1>4
<1> QED  BY <1>1, <1>3, <1>6, <1>7, InvIs DEF PageInv

(* A cluster serves a request of the publish dialog: where this changes    *)
(* what is online, the dialog will refresh the page, or the list is        *)
(* muddled.                                                                *)
LEMMA DialogServedKeeps ==
  ASSUME PageInv, NEW c \in Clusters, DialogServed(c)
  PROVE  PageInv'
<1>1. /\ Serves(c)
      /\ UNCHANGED <<load, db, page, entries, polls, acts, others, asked, deleted, told, oldTabs>>
  BY DEF DialogServed
<1>2. /\ DialogTypeOK' /\ CallsAreWell(kind, calls') /\ kind' = kind
      /\ \A d \in Clusters : Dirty(calls[d]) => Dirty(calls'[d])
      /\ online' # online => calls'[c].at \notin {"served", "removed"} \/ Dirty(calls'[c])
  BY <1>1, InvIs, ServesKeeps
<1>3. CASE online' # online /\ calls'[c].at \notin {"served", "removed"}
  <2>1. Muddle
    BY <1>3 DEF DialogServed
  <2>2. /\ net' \in [Slots -> Request] /\ muddled' = TRUE
        /\ TabsAreWell(kind, net', page, asked, db, deleted, told, oldTabs)
        /\ \A on, cl : ListIsWell(kind, net', page, on, cl, deleted, oldTabs, TRUE)
    BY <2>1, MuddleKeeps DEF Muddle
  <2>3. TypeOK'
    BY <1>1, <1>2, <2>2, InvIs DEF TypeOK
  <2>4. ListIsWell(kind, net', page, online', calls', deleted, oldTabs, muddled')
    BY <2>2
  <2> QED  BY <1>1, <1>2, <2>2, <2>3, <2>4, InvIs DEF PageInv
<1>4. CASE ~(online' # online /\ calls'[c].at \notin {"served", "removed"})
  <2>1. net' = net /\ muddled' = muddled
    BY <1>4 DEF DialogServed
  <2>2. \A r \in Ids, cs \in SUBSET Clusters :
          Right(r, cs, kind, page, online, calls, deleted, oldTabs) =>
            Right(r, cs, kind, page, online', calls', deleted, oldTabs)
    BY <1>2, <1>4, RightWhenDirty
  <2>3. ListIsWell(kind, net, page, online', calls', deleted, oldTabs, muddled)
    BY <2>2, InvIs, ListStays
  <2>4. TypeOK'
    BY <1>1, <1>2, <2>1, InvIs DEF TypeOK
  <2> QED  BY <1>1, <1>2, <2>1, <2>3, <2>4, InvIs DEF PageInv
<1> QED  BY <1>3, <1>4

(* The page retrieves, if it is still there; or it will when it selects.   *)
LEMMA PublishedKeeps ==
  ASSUME PageInv, NEW c \in Clusters, Published(c)
  PROVE  PageInv'
<1> DEFINE id == IF page.left THEN 0 ELSE page.id
<1>1. /\ Publishes(c) /\ net' \in Sent(net, Retrieve(id)) /\ Asks(id)
      /\ UNCHANGED <<load, db, page, entries, polls, acts, others, deleted, told, oldTabs, muddled>>
  BY DEF Published
<1>2. DialogTypeOK' /\ CallsAreWell(kind, calls') /\ kind' = kind /\ online' = online
  BY <1>1, InvIs, AnsweredKeeps DEF Publishes
<1>3. /\ kind \in PageKinds /\ net \in [Slots -> Request] /\ page \in Page
      /\ asked \in Ids \cup {0} /\ db \in SUBSET Ids /\ deleted \in SUBSET Ids
      /\ told \in BOOLEAN /\ oldTabs \in BOOLEAN /\ muddled \in BOOLEAN
      /\ TabsAreWell(kind, net, page, asked, db, deleted, told, oldTabs)
  BY InvIs
<1>4. page.id \in Ids \cup {0} /\ page.left \in BOOLEAN
  BY <1>3, PageIs
<1>5. /\ net' \in [Slots -> Request] /\ asked' \in Ids \cup {0}
      /\ TabsAreWell(kind, net', page, asked', db, deleted, told, oldTabs)
      /\ ListIsWell(kind, net', page, online, calls', deleted, oldTabs, muddled)
  <2>1. CASE page.left \/ page.id = 0
    <3>1. id = 0
      BY <2>1
    <3>2. net' = net /\ asked' = asked
      BY <1>1, <1>3, <3>1, RetrieveNothing
    <3>3. page.id = 0 => ~Features[kind].selection.keeps /\ page.loaded /\ page.route \in deleted
      BY InvIs DEF SelectionIsWell
    <3>4. ASSUME NEW r \in Ids, NEW cs
          PROVE  Right(r, cs, kind, page, online, calls', deleted, oldTabs)
      <4>1. r # 0
        BY IdsAre
      <4> QED  BY <2>1, <3>3, <4>1 DEF Right
    <3>5. ListIsWell(kind, net, page, online, calls', deleted, oldTabs, muddled)
      BY <1>3, <3>4, InvIs, ListStays
    <3> QED  BY <1>3, <3>2, <3>5
  <2>2. CASE ~page.left /\ page.id # 0
    <3>1. id = page.id
      BY <2>2
    <3>2. page.id \in Ids /\ net' \in Sent(net, Retrieve(page.id)) /\ Asks(page.id)
      BY <1>1, <1>4, <2>2, <3>1
    <3>3. TabsAreWell(kind, net, page, page.id, db, deleted, told, oldTabs)
      BY <1>3, <2>2, TabsWhenAsked
    <3> QED  BY <1>3, <3>2, <3>3, RetrieveKeeps
  <2> QED  BY <1>4, <2>1, <2>2
<1>6. TypeOK'
  BY <1>1, <1>2, <1>5, InvIs DEF TypeOK
<1> QED  BY <1>1, <1>2, <1>5, <1>6, InvIs DEF PageInv

(***************************************************************************)
(* The server.                                                             *)
(***************************************************************************)
LEMMA ServeKeeps ==
  ASSUME PageInv, NEW s \in Slots, Serve(s)
  PROVE  PageInv'
<1>1. /\ net[s].at = "sent"
      /\ UNCHANGED <<dialogVars, load, page, entries, polls, acts, others, asked, told, oldTabs, muddled>>
  BY DEF Serve
<1>2. net[s] \in Request /\ net \in [Slots -> Request]
  BY InvIs
<1>3. CASE /\ net[s].call # "delete"
           /\ net' = [net EXCEPT ![s].at = "served",
                        ![s].ids = IF net[s].call = "templates" THEN {} ELSE db,
                        ![s].clusters = IF net[s].call = "templates" THEN online[net[s].id] ELSE {}]
           /\ UNCHANGED <<db, deleted>>
  <2> DEFINE is == IF net[s].call = "templates" THEN {} ELSE db
             cs == IF net[s].call = "templates" THEN online[net[s].id] ELSE {}
             q == [[[net[s] EXCEPT !.at = "served"] EXCEPT !.ids = is] EXCEPT !.clusters = cs]
  <2>1. net' = [net EXCEPT ![s] = q]
    BY <1>2, <1>3
  <2>2. is \in SUBSET Ids
    BY InvIs
  <2>3. net[s].call = "templates" => net[s].id \in Ids
    BY <1>2, InvIs, RequestIs DEF NetIsWell
  <2>4. cs \in SUBSET Clusters
    BY <2>3, InvIs
  <2>5. /\ net[s].call = "templates" => cs = online[net[s].id]
        /\ net[s].call # "templates" => is = db
    OBVIOUS
  <2> HIDE DEF is, cs
  <2>6. q \in Request
    BY <1>2, <2>2, <2>4 DEF Request
  <2>7. /\ q.at = "served" /\ q.call = net[s].call /\ q.id = net[s].id
        /\ q.refresh = net[s].refresh /\ q.latest = net[s].latest /\ q.ids = is
        /\ q.clusters = cs
    BY <1>2 DEF Request
  <2> HIDE DEF q
  <2>8. net' \in [Slots -> Request] /\ net'[s] = q /\ \A u \in Slots \ {s} : net'[u] = net[u]
    BY <1>2, <2>1, <2>6
  <2>9. TabsAreWell(kind, net', page, asked, db, deleted, told, oldTabs)
    <3>1. /\ net[s].at = "sent" /\ net[s].call # "delete" /\ net'[s].at = "served"
          /\ (net[s].call # "templates" => net'[s].ids = db)
      BY <1>1, <1>3, <2>5, <2>7, <2>8
    <3>2. Turns(net, s, net') /\ net' \in [Slots -> Request]
      BY <2>7, <2>8 DEF Turns
    <3> QED  BY <3>1, <3>2, NowIs, TabsWhenServed
  <2>10. ListIsWell(kind, net', page, online, calls, deleted, oldTabs, muddled)
    <3>1. AnswerIsRight(kind, net', page, online, calls, deleted, oldTabs)
      <4>1. AnswerIsRight(kind, net, page, online, calls, deleted, oldTabs)
        BY InvIs DEF ListIsWell
      <4>2. net'[s].call = "templates" =>
              Right(net'[s].id, net'[s].clusters, kind, page, online, calls, deleted, oldTabs)
        BY <2>5, <2>7, <2>8 DEF Right
      <4> QED  BY <2>8, <4>1, <4>2 DEF AnswerIsRight
    <3>2. ListIsRight(kind, net', page, online, calls, deleted, oldTabs, muddled)
      <4>1. ListIsRight(kind, net, page, online, calls, deleted, oldTabs, muddled)
        BY InvIs DEF ListIsWell
      <4> QED  BY <2>7, <2>8, <4>1 DEF ListIsRight
    <3> QED  BY <3>1, <3>2 DEF ListIsWell
  <2>11. TypeOK'
    BY <1>1, <1>3, <2>8, InvIs, DialogStays DEF TypeOK
  <2> QED  BY <1>1, <1>3, <2>9, <2>10, <2>11, InvIs, DialogStays DEF PageInv
<1>4. ASSUME NEW at \in {"served", "failed"}, net' = [net EXCEPT ![s].at = at],
             at = "failed" \/ net[s].call = "delete"
      PROVE  /\ net' \in [Slots -> Request]
             /\ \A u \in Slots \ {s} : net'[u] = net[u]
             /\ net'[s].at = at /\ net'[s].call = net[s].call /\ net'[s].id = net[s].id
             /\ net'[s].refresh = net[s].refresh /\ net'[s].latest = net[s].latest
             /\ net'[s].clusters = net[s].clusters
  <2> DEFINE q == [net[s] EXCEPT !.at = at]
  <2>1. net' = [net EXCEPT ![s] = q]
    BY <1>4
  <2>2. q \in Request
    BY <1>2 DEF Request
  <2>3. /\ q.at = at /\ q.call = net[s].call /\ q.id = net[s].id /\ q.refresh = net[s].refresh
        /\ q.latest = net[s].latest /\ q.clusters = net[s].clusters
    BY <1>2 DEF Request
  <2> HIDE DEF q
  <2> QED  BY <1>2, <2>1, <2>2, <2>3
<1>5. CASE /\ net[s].call = "delete" /\ net[s].id \in db
           /\ db' = db \ {net[s].id} /\ deleted' = deleted \cup {net[s].id}
           /\ \E at \in {"served", "failed"} : net' = [net EXCEPT ![s].at = at]
  <2>1. PICK at \in {"served", "failed"} : net' = [net EXCEPT ![s].at = at]
    BY <1>5
  <2>2. /\ net' \in [Slots -> Request]
        /\ \A u \in Slots \ {s} : net'[u] = net[u]
        /\ net'[s].at = at /\ net'[s].call = net[s].call /\ net'[s].id = net[s].id
        /\ net'[s].refresh = net[s].refresh /\ net'[s].latest = net[s].latest
    BY <1>4, <1>5, <2>1
  <2>3. TabsAreWell(kind, net', page, asked, db', deleted', told, oldTabs)
    <3>1. TabsAreWell(kind, net', page, asked, db \ {net[s].id}, deleted \cup {net[s].id}, told, oldTabs)
      <4>1. Turns(net, s, net') /\ net' \in [Slots -> Request]
        BY <2>2 DEF Turns
      <4>2. net[s].call = "delete" /\ net[s].id \in db
        BY <1>5
      <4> QED  BY <4>1, <4>2, NowIs, TabsWhenDeleted
    <3> QED  BY <1>5, <3>1
  <2>4. \A r \in Ids, cs \in SUBSET Clusters :
          Right(r, cs, kind, page, online, calls, deleted, oldTabs) =>
            Right(r, cs, kind, page, online, calls, deleted', oldTabs)
    BY <1>5, InvIs, RightStays
  <2>5. ListIsWell(kind, net', page, online, calls, deleted', oldTabs, muddled)
    <3>1. \A u \in Slots : net'[u].call = "templates" => net'[u] = net[u]
      BY <1>5, <2>2
    <3>2. \A u \in Slots : net[u].call = "templates" => net'[u] = net[u]
      BY <1>5, <2>2
    <3> QED  BY <2>4, <3>1, <3>2, InvIs, ListStays
  <2>6. db' \in SUBSET Ids /\ deleted' \in SUBSET Ids
    BY <1>5, InvIs
  <2>7. TypeOK'
    BY <1>1, <2>2, <2>6, InvIs, DialogStays DEF TypeOK
  <2> QED  BY <1>1, <2>3, <2>5, <2>7, InvIs, DialogStays DEF PageInv
<1>6. CASE net' = [net EXCEPT ![s].at = "failed"] /\ UNCHANGED <<db, deleted>>
  <2>1. /\ net' \in [Slots -> Request]
        /\ \A u \in Slots \ {s} : net'[u] = net[u]
        /\ net'[s].at = "failed" /\ net'[s].call = net[s].call /\ net'[s].id = net[s].id
        /\ net'[s].refresh = net[s].refresh /\ net'[s].latest = net[s].latest
        /\ net'[s].clusters = net[s].clusters
    BY <1>4, <1>6
  <2>2. TabsAreWell(kind, net', page, asked, db, deleted, told, oldTabs)
    <3>1. Turns(net, s, net') /\ net' \in [Slots -> Request] /\ net'[s].at = "failed"
      BY <2>1 DEF Turns
    <3> QED  BY <3>1, NowIs, TabsWhenRefused
  <2>3. ListIsWell(kind, net', page, online, calls, deleted, oldTabs, muddled)
    BY <2>1, InvIs, ListStays
  <2>4. TypeOK'
    BY <1>1, <1>6, <2>1, InvIs, DialogStays DEF TypeOK
  <2> QED  BY <1>1, <1>6, <2>2, <2>3, <2>4, InvIs, DialogStays DEF PageInv
<1> QED  BY <1>3, <1>5, <1>6 DEF Serve

(***************************************************************************)
(* The answers.                                                            *)
(***************************************************************************)
LEMMA FreeIs ==
  ASSUME PageInv, NEW s \in Slots
  PROVE  Free(s) \in [Slots -> Request] /\ Frees(net, s, Free(s))
BY InvIs, NoRequestIs DEF Free, Frees

(* The slot of a request for something else is free again.                 *)
LEMMA TemplatesAreThere ==
  ASSUME PageInv, NEW s \in Slots, NEW m, Frees(net, s, m)
  PROVE  \A u \in Slots :
           /\ m[u].call = "templates" /\ m[u].latest =>
                net[u].call = "templates" /\ net[u].latest /\ m[u].at = net[u].at
                  /\ m[u].id = net[u].id /\ m[u].clusters = net[u].clusters
           /\ net[s].call # "templates" /\ net[u].call = "templates" /\ net[u].latest =>
                m[u].call = "templates" /\ m[u].latest
BY NoRequestIs DEF Frees

(* The answer of a list request sets the tabs.                             *)
LEMMA ListAnsweredKeeps ==
  ASSUME PageInv, NEW s \in Slots, ListAnswered(s)
  PROVE  PageInv'
<1>1. /\ net[s].call = "list" /\ net[s].at = "served"
      /\ page' = [page EXCEPT !.ids = net[s].ids] /\ net' = Free(s)
      /\ oldTabs' = (oldTabs \/ ~net[s].latest)
      /\ UNCHANGED <<dialogVars, load, db, entries, polls, acts, others, asked, deleted, told, muddled>>
  BY DEF ListAnswered
<1>2. net[s] \in Request /\ net[s].ids \in SUBSET Ids /\ net[s].latest \in BOOLEAN
  BY InvIs, RequestIs
<1>3. /\ page' \in Page /\ page'.ids = net[s].ids /\ (page'.loaded <=> page.loaded)
      /\ page'.id = page.id /\ page'.route = page.route /\ (page'.left <=> page.left)
      /\ page'.of = page.of /\ page'.shown = page.shown
  BY <1>1, <1>2, InvIs DEF Page
<1>4. net' \in [Slots -> Request] /\ Frees(net, s, net')
  BY <1>1, FreeIs
<1>5. TabsAreWell(kind, net', page', asked, db, deleted, told, oldTabs')
  <2>1. TabsAreWell(kind, net', page', asked, db, deleted, told, oldTabs \/ ~net[s].latest)
    <3>1. /\ page' \in Page /\ page'.ids = net[s].ids /\ (page'.loaded <=> page.loaded)
          /\ page'.id = page.id /\ page'.route = page.route
      BY <1>3
    <3>2. net[s].call = "list" /\ net[s].at = "served"
      BY <1>1
    <3>3. /\ kind \in PageKinds /\ net \in [Slots -> Request] /\ page \in Page
          /\ asked \in Ids \cup {0} /\ db \in SUBSET Ids /\ deleted \in SUBSET Ids
          /\ told \in BOOLEAN /\ oldTabs \in BOOLEAN
          /\ TabsAreWell(kind, net, page, asked, db, deleted, told, oldTabs)
      BY InvIs
    <3> QED  BY <1>4, <3>1, <3>2, <3>3, TabsWhenListed
  <2> QED  BY <1>1, <2>1
<1>6. oldTabs' \in BOOLEAN /\ (oldTabs => oldTabs')
  BY <1>1, <1>2, InvIs
<1>7. \A r \in Ids, cs \in SUBSET Clusters :
        Right(r, cs, kind, page, online, calls, deleted, oldTabs) =>
          Right(r, cs, kind, page', online, calls, deleted, oldTabs')
  BY <1>3, <1>6, InvIs, RightStays
<1>8. ListIsWell(kind, net', page', online, calls, deleted, oldTabs', muddled)
  <2>1. net[s].call # "templates"
    BY <1>1
  <2>2. \A u \in Slots :
           /\ net'[u].call = "templates" /\ net'[u].latest =>
                net[u].call = "templates" /\ net[u].latest /\ net'[u].at = net[u].at
                  /\ net'[u].id = net[u].id /\ net'[u].clusters = net[u].clusters
           /\ net[s].call # "templates" /\ net[u].call = "templates" /\ net[u].latest =>
                net'[u].call = "templates" /\ net'[u].latest
    BY <1>4, TemplatesAreThere
  <2>3. page'.of = page.of /\ page'.shown = page.shown
    BY <1>3
  <2> QED  BY <1>7, <2>1, <2>2, <2>3, InvIs, ListStays
<1>9. TypeOK'
  BY <1>1, <1>3, <1>4, <1>6, InvIs, DialogStays DEF TypeOK
<1> QED  BY <1>1, <1>5, <1>8, <1>9, InvIs, DialogStays DEF PageInv

(* The answer for the templates sets the list.                             *)
LEMMA TemplatesAnsweredKeeps ==
  ASSUME PageInv, NEW s \in Slots, TemplatesAnswered(s)
  PROVE  PageInv'
<1>1. /\ net[s].call = "templates" /\ net[s].at = "served"
      /\ page' = [page EXCEPT !.of = net[s].id, !.shown = net[s].clusters]
      /\ entries' = Entries(net[s].clusters) /\ muddled' = ~net[s].latest /\ net' = Free(s)
      /\ (UNCHANGED polls \/ SyncStatus(Entries(net[s].clusters)))
      /\ UNCHANGED <<dialogVars, load, db, acts, others, asked, deleted, told, oldTabs>>
  BY DEF TemplatesAnswered
<1>2. /\ net[s] \in Request /\ net[s].clusters \in SUBSET Clusters /\ net[s].latest \in BOOLEAN
      /\ net[s].id \in Ids \cup {0}
  BY InvIs, RequestIs
<1>3. /\ page' \in Page /\ SamePage(page', page) /\ (page'.left <=> page.left)
      /\ page'.of = net[s].id /\ page'.shown = net[s].clusters
  BY <1>1, <1>2, InvIs DEF Page, SamePage
<1>4. net' \in [Slots -> Request] /\ Frees(net, s, net')
  BY <1>1, FreeIs
<1>5. entries' \in Seq(Entry) /\ polls' \in [Keys -> Nat]
  BY <1>1, <1>2, InvIs, EntriesTyped, SyncTyped
<1>6. TabsAreWell(kind, net', page', asked, db, deleted, told, oldTabs)
  <2>1. TabsAreWell(kind, net', page, asked, db, deleted, told, oldTabs)
    <3>1. net[s].call = "templates"
      BY <1>1
    <3> QED  BY <1>4, <3>1, NowIs, TabsWhenTold
  <2> QED  BY <1>3, <1>4, <2>1, InvIs, TabsStay
<1>7. ListIsWell(kind, net', page', online, calls, deleted, oldTabs, muddled')
  <2>1. \A r \in Ids, cs \in SUBSET Clusters :
          Right(r, cs, kind, page, online, calls, deleted, oldTabs) =>
            Right(r, cs, kind, page', online, calls, deleted, oldTabs)
    BY <1>3, InvIs, RightStays DEF SamePage
  <2>2. \A u \in Slots : net[u].call = "templates" /\ net[u].latest /\ net[u].at = "served" =>
          Right(net[u].id, net[u].clusters, kind, page', online, calls, deleted, oldTabs)
    <3>1. \A u \in Slots : net[u].call = "templates" /\ net[u].latest /\ net[u].at = "served" =>
            Right(net[u].id, net[u].clusters, kind, page, online, calls, deleted, oldTabs)
      BY InvIs DEF ListIsWell, AnswerIsRight
    <3>2. \A u \in Slots : net[u].clusters \in SUBSET Clusters /\ net[u].id \in Ids \cup {0}
            /\ (net[u].call = "templates" => net[u].id # 0)
      BY InvIs, RequestIs DEF NetIsWell
    <3> QED  BY <2>1, <3>1, <3>2
  <2>3. AnswerIsRight(kind, net', page', online, calls, deleted, oldTabs)
    BY <1>4, <2>2, NoRequestIs DEF Frees, AnswerIsRight
  <2>4. ListIsRight(kind, net', page', online, calls, deleted, oldTabs, muddled')
    BY <1>1, <1>3, <2>2 DEF ListIsRight
  <2> QED  BY <2>3, <2>4 DEF ListIsWell
<1>8. TypeOK'
  BY <1>1, <1>2, <1>3, <1>4, <1>5, InvIs, DialogStays DEF TypeOK
<1> QED  BY <1>1, <1>6, <1>7, <1>8, InvIs, DialogStays DEF PageInv

(* A request fails.                                                        *)
LEMMA FailedKeeps ==
  ASSUME PageInv, NEW s \in Slots, Failed(s)
  PROVE  PageInv'
<1>1. /\ net' = Free(s) /\ told' = TRUE
      /\ muddled' = (muddled \/ net[s].call = "templates")
      /\ UNCHANGED <<dialogVars, load, db, page, entries, polls, acts, others, asked, deleted, oldTabs>>
  BY DEF Failed
<1>2. net' \in [Slots -> Request] /\ Frees(net, s, net')
  BY <1>1, FreeIs
<1>3. TabsAreWell(kind, net', page, asked, db, deleted, told', oldTabs)
  <2>1. TabsAreWell(kind, net', page, asked, db, deleted, TRUE, oldTabs)
    BY <1>2, InvIs, TabsWhenFailed
  <2> QED  BY <1>1, <2>1
<1>4. muddled' \in BOOLEAN /\ (~muddled' => ~muddled /\ net[s].call # "templates")
  BY <1>1, InvIs
<1>5. ListIsWell(kind, net', page, online, calls, deleted, oldTabs, muddled')
  BY <1>2, <1>4, InvIs, ListStays, TemplatesAreThere
<1>6. TypeOK'
  BY <1>1, <1>2, <1>4, InvIs, DialogStays DEF TypeOK
<1> QED  BY <1>1, <1>3, <1>5, <1>6, InvIs, DialogStays DEF PageInv

(* The answer of an init request sets the tabs and selects.                *)
LEMMA InitAnsweredKeeps ==
  ASSUME PageInv, NEW s \in Slots, InitAnswered(s)
  PROVE  PageInv'
<1> DEFINE id == Chosen(page.id, net[s].ids)
           asks == IF net[s].refresh THEN IF Sel.early THEN page.id ELSE id ELSE 0
           o == Free(s)
<1>1. /\ net[s].call = "init" /\ net[s].at = "served"
      /\ page' = [page EXCEPT !.id = id, !.ids = net[s].ids, !.loaded = TRUE,
                              !.route = IF Sel.navigates /\ id # page.id THEN id ELSE @]
      /\ net' \in Sent(o, Retrieve(asks)) /\ Asks(asks)
      /\ oldTabs' = (oldTabs \/ ~net[s].latest)
      /\ UNCHANGED <<dialogVars, load, db, entries, polls, acts, others, deleted, told, muddled>>
  BY DEF InitAnswered
<1>2. /\ net[s] \in Request /\ net[s].ids \in SUBSET Ids /\ net[s].latest \in BOOLEAN
      /\ net[s].refresh \in BOOLEAN
  BY InvIs, RequestIs
<1>3. /\ Features[kind].selection.keeps \in BOOLEAN /\ Features[kind].selection.early \in BOOLEAN
      /\ Features[kind].selection.navigates \in BOOLEAN
      /\ Features[kind].selection.navigates => Features[kind].selection.keeps
      /\ Features[kind].selection.early => Features[kind].selection.keeps
  BY InvIs, KindFacts
<1>4. page.id \in Ids \cup {0} /\ page.route \in Ids
  BY InvIs, PageIs
<1>5. net[s].ids # {} => Min(net[s].ids) \in net[s].ids
  BY <1>2, IdsAre, MinIs
<1>6. /\ net[s].ids # {} => id = (IF page.id \in net[s].ids THEN page.id ELSE Min(net[s].ids))
      /\ net[s].ids = {} => id = (IF Features[kind].selection.keeps THEN page.id ELSE 0)
  BY DEF Chosen, Sel
<1>7. id \in Ids \cup {0} /\ (id = 0 => net[s].ids = {})
  BY <1>2, <1>4, <1>5, <1>6, IdsAre
<1> HIDE DEF id
<1> DEFINE route == IF Sel.navigates /\ id # page.id THEN id ELSE page.route
<1>8. route \in Ids /\ (~Sel.navigates => route = page.route)
  <2>1. Sel.navigates /\ id # page.id => id \in Ids
    BY <1>3, <1>6, <1>7 DEF Sel
  <2> QED  BY <1>4, <2>1
<1>9. page' = [[[[page EXCEPT !.id = id] EXCEPT !.ids = net[s].ids] EXCEPT !.loaded = TRUE]
                 EXCEPT !.route = route]
  BY <1>1, InvIs DEF Page
<1> HIDE DEF route
<1>10. page' \in Page
  BY <1>2, <1>7, <1>8, <1>9, InvIs DEF Page
<1>11. /\ page'.id = id /\ page'.ids = net[s].ids /\ page'.loaded /\ page'.route = route
       /\ (page'.left <=> page.left) /\ page'.of = page.of /\ page'.shown = page.shown
  BY <1>9, InvIs DEF Page
<1>12. o \in [Slots -> Request] /\ Frees(net, s, o)
  BY FreeIs
<1> HIDE DEF o
<1>13. asks \in Ids \cup {0}
  BY <1>4, <1>7
<1>14. asked' = (IF asks = 0 THEN asked ELSE asks) /\ asked' \in Ids \cup {0}
  <2>1. asked \in Ids \cup {0}
    BY InvIs
  <2> QED  BY <1>1, <1>13, <2>1 DEF Asks
<1>15. Chooses(kind, page, page', net[s].ids)
  BY <1>3, <1>6, <1>8, <1>11 DEF Chooses, Sel
<1>16. AsksFor(kind, net[s], page'.id, asked, asked')
  BY <1>2, <1>11, <1>14 DEF AsksFor, Sel
<1>17. oldTabs' \in BOOLEAN /\ (oldTabs => oldTabs') /\ (~net[s].latest => oldTabs')
  BY <1>1, <1>2, InvIs
<1>18. TabsAreWell(kind, o, page', asked', db, deleted, told, oldTabs')
  <2>1. net[s].call = "init" /\ net[s].at = "served"
    BY <1>1
  <2>2. TabsAreWell(kind, o, page', asked', db, deleted, told, oldTabs \/ ~net[s].latest)
    BY <1>10, <1>12, <1>14, <1>15, <1>16, <2>1, NowIs, TabsWhenAnswered
  <2> QED  BY <1>1, <2>2
<1>19. /\ net' \in [Slots -> Request]
       /\ TabsAreWell(kind, net', page', asked', db, deleted, told, oldTabs')
       /\ ListIsWell(kind, net', page', online, calls, deleted, oldTabs', muddled)
  <2>1. CASE asks = 0
    <3>1. net' = o
      BY <1>1, <1>12, <2>1, RetrieveNothing
    <3>2. ASSUME NEW r \in Ids, NEW cs,
                 Right(r, cs, kind, page, online, calls, deleted, oldTabs)
          PROVE  Right(r, cs, kind, page', online, calls, deleted, oldTabs')
      <4> SUFFICES ASSUME ~Features[kind].selection.keeps, page.loaded, page.route # r, ~oldTabs'
                   PROVE  page'.id # r /\ page'.loaded /\ page'.route # r
        BY <1>11, <1>17, <3>2 DEF Right
      <4>1. net[s].refresh
        <5> SUFFICES ASSUME ~net[s].refresh  PROVE FALSE
          OBVIOUS
        <5>1. First(net[s])
          BY <1>1, <1>17, <1>2 DEF First
        <5> QED  BY <5>1, InvIs DEF FirstIsAlone
      <4>2. id = 0
        BY <1>3, <2>1, <4>1 DEF Sel
      <4>3. r # 0
        BY IdsAre
      <4> QED  BY <1>3, <1>8, <1>11, <4>2, <4>3 DEF Sel
    <3>3. net[s].call # "templates"
      BY <1>1
    <3>4. \A u \in Slots :
            /\ o[u].call = "templates" /\ o[u].latest =>
                 net[u].call = "templates" /\ net[u].latest /\ o[u].at = net[u].at
                   /\ o[u].id = net[u].id /\ o[u].clusters = net[u].clusters
            /\ net[s].call # "templates" /\ net[u].call = "templates" /\ net[u].latest =>
                 o[u].call = "templates" /\ o[u].latest
      BY <1>12, TemplatesAreThere
    <3>5. page'.of = page.of /\ page'.shown = page.shown
      BY <1>11
    <3>6. ListIsWell(kind, o, page', online, calls, deleted, oldTabs', muddled)
      BY <3>2, <3>3, <3>4, <3>5, InvIs, ListStays
    <3> QED  BY <1>12, <1>18, <3>1, <3>6
  <2>2. CASE asks # 0
    <3>1. asks \in Ids /\ asked' = asks
      BY <1>13, <1>14, <2>2
    <3>2. TabsAreWell(kind, o, page', asks, db, deleted, told, oldTabs')
      BY <1>18, <3>1
    <3>3. net' \in Sent(o, Retrieve(asks)) /\ Asks(asks)
      BY <1>1
    <3>4. oldTabs' \in BOOLEAN
      BY <1>17
    <3>5. /\ kind \in PageKinds /\ o \in [Slots -> Request] /\ page' \in Page
          /\ asked \in Ids \cup {0} /\ db \in SUBSET Ids /\ deleted \in SUBSET Ids
          /\ told \in BOOLEAN
      BY <1>10, <1>12, NowIs
    <3> HIDE DEF asks
    <3>6. /\ net' \in [Slots -> Request]
          /\ TabsAreWell(kind, net', page', asked', db, deleted, told, oldTabs')
          /\ \A on, cl, mud : ListIsWell(kind, net', page', on, cl, deleted, oldTabs', mud)
      BY <3>1, <3>2, <3>3, <3>4, <3>5, RetrieveKeeps, SMTT(60)
    <3> QED  BY <3>6
  <2> QED  BY <2>1, <2>2
<1>20. TypeOK'
  BY <1>1, <1>10, <1>14, <1>17, <1>19, InvIs, DialogStays DEF TypeOK
<1> QED  BY <1>1, <1>19, <1>20, InvIs, DialogStays DEF PageInv

(* The answer of a deletion starts the page again.                         *)
LEMMA DeleteAnsweredKeeps ==
  ASSUME PageInv, NEW s \in Slots, DeleteAnswered(s)
  PROVE  PageInv'
<1> DEFINE o == Free(s)
           q == Of("init", 0, TRUE)
<1>1. /\ net[s].call = "delete" /\ page' = Restarted /\ net' \in Sent(o, {q})
      /\ UNCHANGED <<dialogVars, load, db, entries, polls, acts, others, history>>
  BY DEF DeleteAnswered
<1>2. UNCHANGED <<asked, deleted, told, oldTabs, muddled>>
  BY <1>1 DEF history
<1>3. page' \in Page /\ page'.id = page.route /\ page'.route = page.route
      /\ (page'.loaded <=> page.loaded) /\ (page'.left <=> page.left) /\ page'.of = page.of
      /\ page'.shown = page.shown
  BY <1>1, InvIs DEF Page, Restarted
<1>4. q \in Request /\ q.call = "init" /\ q.refresh /\ q.at = "sent"
  BY OfTabsIs
<1>5. o \in [Slots -> Request] /\ Frees(net, s, o)
  BY FreeIs
<1> HIDE DEF o, q
<1>6. PICK u \in Slots : Puts(o, u, q, net')
  BY <1>1, <1>4, <1>5, SentOne
<1>7. net' \in [Slots -> Request]
  BY <1>6 DEF Puts
<1>8. TabsAreWell(kind, net', page', asked, db, deleted, told, oldTabs)
  <2>1. TabsAreWell(kind, o, page, asked, db, deleted, TRUE, oldTabs)
    BY <1>5, NowIs, TabsWhenFailed
  <2>2. NetIsWell(o) /\ SelectionIsWell(kind, page, db, deleted, o)
    BY <2>1 DEF TabsAreWell
  <2>3. Grows(db, db, deleted)
    BY InvIs DEF SelectionIsWell, Grows
  <2>4. page' \in Page /\ Restarts(page, page')
    BY <1>3 DEF Restarts
  <2> QED  BY <1>4, <1>5, <1>6, <1>7, <2>2, <2>3, <2>4, NowIs, TabsWhenRestarted, SMTT(60)
<1>9. \A x \in Ids, cs \in SUBSET Clusters :
        Right(x, cs, kind, page, online, calls, deleted, oldTabs) =>
          Right(x, cs, kind, page', online, calls, deleted, oldTabs)
  BY <1>3, InvIs, RightStays
<1>10. \A v \in Slots :
         /\ net'[v].call = "templates" /\ net'[v].latest =>
              net[v].call = "templates" /\ net[v].latest /\ net'[v].at = net[v].at
                /\ net'[v].id = net[v].id /\ net'[v].clusters = net[v].clusters
         /\ net[v].call = "templates" /\ net[v].latest => net'[v].call = "templates" /\ net'[v].latest
  <2>1. \A v \in Slots :
           /\ o[v].call = "templates" /\ o[v].latest =>
                net[v].call = "templates" /\ net[v].latest /\ o[v].at = net[v].at
                  /\ o[v].id = net[v].id /\ o[v].clusters = net[v].clusters
           /\ net[v].call = "templates" /\ net[v].latest => o[v].call = "templates" /\ o[v].latest
    BY <1>1, <1>5, TemplatesAreThere
  <2>2. \A v \in Slots :
          /\ net'[v].call = "templates" /\ net'[v].latest =>
               o[v].call = "templates" /\ o[v].latest /\ net'[v].at = o[v].at
                 /\ net'[v].id = o[v].id /\ net'[v].clusters = o[v].clusters
          /\ o[v].call = "templates" /\ o[v].latest => net'[v].call = "templates" /\ net'[v].latest
    BY <1>4, <1>5, <1>6, <1>7, TemplatesAreKept
  <2> QED  BY <2>1, <2>2
<1>11. ListIsWell(kind, net', page', online, calls, deleted, oldTabs, muddled)
  <2>1. page'.of = page.of /\ page'.shown = page.shown
    BY <1>3
  <2> QED  BY <1>9, <1>10, <2>1, InvIs, ListStays
<1>12. TypeOK'
  BY <1>1, <1>2, <1>3, <1>7, InvIs, DialogStays DEF TypeOK
<1> QED  BY <1>1, <1>2, <1>8, <1>11, <1>12, InvIs, DialogStays DEF PageInv

(***************************************************************************)
(* The polling, which touches the entries only.                            *)
(***************************************************************************)
LEMMA PollingKeeps ==
  ASSUME PageInv, Tick \/ \E j \in Keys, answer \in PollAnswers : PollAnswered(j, answer)
  PROVE  PageInv'
<1>1. UNCHANGED <<dialogVars, load, db, page, net, acts, others, history>>
  BY DEF Tick, PollAnswered
<1>2. UNCHANGED <<asked, deleted, told, oldTabs, muddled>>
  BY <1>1 DEF history
<1>3. entries' \in Seq(Entry) /\ polls' \in [Keys -> Nat]
  <2>1. CASE Tick
    BY <2>1, InvIs, SyncTyped DEF Tick
  <2>2. CASE \E j \in Keys, answer \in PollAnswers : PollAnswered(j, answer)
    BY <2>2, InvIs, AnsweredTyped
  <2> QED  BY <2>1, <2>2
<1>4. TypeOK'
  BY <1>1, <1>2, <1>3, InvIs, DialogStays DEF TypeOK
<1> QED  BY <1>1, <1>2, <1>4, InvIs, DialogStays DEF PageInv

(***************************************************************************)
(* The invariant.                                                          *)
(***************************************************************************)
LEMMA InitHolds ==
  ASSUME Init
  PROVE  PageInv
<1> DEFINE n == [s \in Slots |-> NoRequest]
           q == Of("init", 0, FALSE)
<1>1. /\ DialogInit /\ load \in Workloads /\ db \in SUBSET Ids /\ entries = <<>>
      /\ net \in Sent(n, {q}) /\ polls = [j \in Keys |-> 0] /\ acts = 0 /\ others = 0
      /\ asked = 0 /\ deleted = {} /\ told = FALSE /\ oldTabs = FALSE /\ muddled = FALSE
  BY DEF Init
<1>2. PICK r \in db :
        page = [id |-> r, route |-> r, ids |-> {}, loaded |-> FALSE, of |-> 0, shown |-> {},
                dialog |-> 0, left |-> FALSE]
  BY DEF Init
<1>3. r \in Ids /\ r # 0
  BY <1>1, IdsAre
<1>4. page \in Page /\ page.id = r /\ page.route = r /\ page.ids = {} /\ ~page.loaded /\ page.of = 0
  BY <1>2, <1>3 DEF Page
<1>5. n \in [Slots -> Request] /\ \A s \in Slots : n[s] = NoRequest
  BY NoRequestIs
<1>6. q \in Request /\ q.call = "init" /\ q.at = "sent"
  BY OfTabsIs
<1> HIDE DEF n, q
<1>7. PICK u \in Slots : Puts(n, u, q, net)
  BY <1>1, <1>5, <1>6, SentOne
<1>8. /\ net \in [Slots -> Request] /\ net[u] = q
      /\ \A s \in Slots \ {u} : net[s].call = "none" /\ net[s].at = "none"
  BY <1>5, <1>7, NoRequestIs DEF Puts, SameRequest
<1>9. kind \in Kinds /\ calls = [c \in Clusters |-> NoCall] /\ online \in [Ids -> SUBSET Clusters]
  BY <1>1 DEF DialogInit
<1>10. DialogTypeOK /\ CallsAreWell(kind, calls)
  BY <1>9, NoCallIs DEF DialogTypeOK, CallsAreWell
<1>11. TypeOK
  <2>1. entries \in Seq(Entry) /\ polls \in [Keys -> Nat] /\ acts \in 0..MaxActs /\ others \in 0..MaxOthers
    BY <1>1, PageAssumption
  <2> QED  BY <1>1, <1>4, <1>8, <1>10, <2>1 DEF TypeOK
<1>12. NetIsWell(net)
  BY <1>6, <1>8 DEF NetIsWell, ForTabs
<1>13. SelectionIsWell(kind, page, db, deleted, net)
  BY <1>1, <1>3, <1>4, <1>6, <1>8 DEF SelectionIsWell, ForTabs
<1>14. FirstIsAlone(net, page, asked, db, told)
  BY <1>1, <1>3, <1>4, <1>6, <1>8 DEF FirstIsAlone, First, ForTabs
<1>15. AnswersAreClean(net, deleted, told)
  BY <1>1 DEF AnswersAreClean
<1>16. TabsAreClean(kind, net, page, asked, deleted, told, oldTabs)
  BY <1>1, <1>4 DEF TabsAreClean
<1>17. ListIsWell(kind, net, page, online, calls, deleted, oldTabs, muddled)
  BY <1>4, <1>6, <1>8 DEF ListIsWell, AnswerIsRight, ListIsRight
<1> QED  BY <1>10, <1>11, <1>12, <1>13, <1>14, <1>15, <1>16, <1>17 DEF PageInv, TabsAreWell

(* A step in which nothing changes.                                        *)
LEMMA NothingKeeps ==
  ASSUME PageInv, UNCHANGED vars
  PROVE  PageInv'
<1>1. UNCHANGED <<dialogVars, load, db, page, entries, net, polls, acts, others>>
  BY DEF vars, pageVars
<1>2. UNCHANGED <<asked, deleted, told, oldTabs, muddled>>
  BY DEF vars, history
<1>3. TypeOK'
  BY <1>1, <1>2, InvIs, DialogStays DEF TypeOK
<1> QED  BY <1>1, <1>2, <1>3, InvIs, DialogStays DEF PageInv

(* Every step keeps the invariant.                                         *)
LEMMA NextKeeps ==
  ASSUME PageInv, [Next]_vars
  PROVE  PageInv'
<1>1. CASE \E r \in Ids : TabClick(r) \/ Create(r) \/ \E c \in Clusters : Others(r, c)
  BY <1>1, TabClickKeeps, CreateKeeps, OthersKeep
<1>2. CASE Refresh \/ OpenDelete \/ Confirm \/ Cancel \/ Leave
  BY <1>2, RefreshKeeps, DialogOpens, ConfirmKeeps
<1>3. CASE \E cs \in SUBSET Clusters : Publish(cs) \/ \E op \in {"offline", "force"} : Offline(op, cs)
  BY <1>3, SubmitsKeep
<1>4. CASE \E s \in Slots : \/ Serve(s) \/ InitAnswered(s) \/ ListAnswered(s)
                            \/ TemplatesAnswered(s) \/ DeleteAnswered(s) \/ Failed(s)
  BY <1>4, ServeKeeps, InitAnsweredKeeps, ListAnsweredKeeps, TemplatesAnsweredKeeps,
     DeleteAnsweredKeeps, FailedKeeps
<1>5. CASE \E c \in Clusters : DialogServed(c) \/ Published(c) \/ DialogAnswered(c)
  BY <1>5, DialogServedKeeps, PublishedKeeps, DialogAnsweredKeeps
<1>6. CASE Tick \/ \E j \in Keys, answer \in PollAnswers : PollAnswered(j, answer)
  BY <1>6, PollingKeeps
<1>7. CASE UNCHANGED vars
  BY <1>7, NothingKeeps
<1> QED  BY <1>1, <1>2, <1>3, <1>4, <1>5, <1>6, <1>7 DEF Next

(* The invariant holds in every state, for every value of the constants.   *)
THEOREM PortalInvariant == Spec => []PageInv
<1>1. Init => PageInv
  BY InitHolds
<1>2. PageInv /\ [Next]_vars => PageInv'
  BY NextKeeps
<1> QED  BY <1>1, <1>2, PTL DEF Spec

(* Every variable of the page keeps its type.                              *)
THEOREM PortalTyped == Spec => []TypeOK
<1>1. PageInv => TypeOK
  BY DEF PageInv
<1> QED  BY <1>1, PortalInvariant, PTL

(* The selection is as SelectionIsAsked says: nothing that is under way    *)
(* keeps the tabs from being clean.                                        *)
LEMMA SelectionFollows ==
  ASSUME PageInv
  PROVE  SelectionIsAsked
<1> SUFFICES ASSUME ~told, ~Starting, Deletions = {}, ~oldTabs
             PROVE  /\ page.id \in deleted => page.ids = {}
                    /\ ~Sel.early /\ asked # 0 /\ page.id # 0 => asked = page.id
  BY DEF SelectionIsAsked
<1>1. Undeleted(net) /\ \A s \in Slots : net[s].call # "init"
  BY DEF Deletions, Starting, Undeleted
<1>2. TabsAreClean(kind, net, page, asked, deleted, told, oldTabs)
  BY DEF PageInv, TabsAreWell
<1> QED  BY <1>1, <1>2 DEF TabsAreClean, Sel

(* The list is as ShownIsTrue says: nothing is under way that would        *)
(* refresh it.                                                             *)
LEMMA ListFollows ==
  ASSUME PageInv
  PROVE  ShownIsTrue
<1> SUFFICES ASSUME Quiet, ~page.left, ~muddled, ~oldTabs, page.of # 0, page.of = page.id,
                    page.of \notin deleted
             PROVE  page.shown = online[page.of]
  BY DEF ShownIsTrue
<1>1. \A s \in Slots : net[s].call = "none"
  BY DEF Quiet
<1>2. \A c \in Clusters : ~Dirty(calls[c])
  BY DEF Quiet, Idle, Dirty
<1>3. Right(page.of, page.shown, kind, page, online, calls, deleted, oldTabs)
  BY <1>1 DEF PageInv, ListIsWell, ListIsRight
<1> QED  BY <1>2, <1>3 DEF Right

(* The page leaves what it deleted, and what it shows is of the selected   *)
(* resource: answers that come late cannot bring back the old one, unless  *)
(* they are of an old list of the tabs.                                    *)
THEOREM PortalSelectionIsAsked == Spec => []SelectionIsAsked
<1>1. PageInv => SelectionIsAsked
  BY SelectionFollows
<1> QED  BY <1>1, PortalInvariant, PTL

(* When every answer has come, the list names the clusters where the       *)
(* selected resource is published, whatever its user has published and     *)
(* taken offline, and however the answers of the dialog came.              *)
THEOREM PortalListIsTrue == Spec => []ShownIsTrue
<1>1. PageInv => ShownIsTrue
  BY ListFollows
<1> QED  BY <1>1, PortalInvariant, PTL

(***************************************************************************)
(* What a step may not do.                                                 *)
(***************************************************************************)
(* No deletion is sent.                                                    *)
DeletesNothing(n, m) == \A s \in Slots : m[s].call = "delete" => n[s].call = "delete"

(* A request that is put in a slot deletes nothing, if it is not a         *)
(* deletion.                                                               *)
LEMMA PutDeletesNothing ==
  ASSUME NEW n, NEW u, NEW q, NEW m, Puts(n, u, q, m), q.call # "delete"
  PROVE  DeletesNothing(n, m)
BY DEF DeletesNothing, Puts, SameRequest

(* retrieve() deletes nothing.                                             *)
LEMMA RetrieveDeletesNothing ==
  ASSUME NEW n \in [Slots -> Request], NEW id \in Ids \cup {0}, asked \in Ids \cup {0},
         net' \in Sent(n, Retrieve(id)), Asks(id)
  PROVE  DeletesNothing(n, net')
<1>1. /\ id = 0 => net' = n
      /\ id # 0 => \E u, q : /\ Puts(n, u, q, net') /\ q.call = "templates" /\ q.id = id
                             /\ q.latest /\ q.at = "sent"
  BY RetrieveIs
<1>2. DeletesNothing(n, n)
  BY DEF DeletesNothing
<1>3. id # 0 => DeletesNothing(n, net')
  BY <1>1, PutDeletesNothing
<1> QED  BY <1>1, <1>2, <1>3

(* An answer that is taken deletes nothing.                                *)
LEMMA FreeDeletesNothing ==
  ASSUME PageInv, NEW s \in Slots
  PROVE  Free(s) \in [Slots -> Request] /\ DeletesNothing(net, Free(s))
BY FreeIs, NoRequestIs DEF Frees, DeletesNothing

(* A deletion is sent only where the user confirms one.                    *)
LEMMA DeletionsAreConfirmed ==
  ASSUME PageInv, [Next]_vars, ~Confirm
  PROVE  DeletesNothing(net, net')
<1>0. /\ net \in [Slots -> Request] /\ asked \in Ids \cup {0} /\ page.id \in Ids \cup {0}
      /\ page \in Page
  BY InvIs, PageIs
<1>1. net' = net => DeletesNothing(net, net')
  BY DEF DeletesNothing
<1>2. ASSUME NEW r \in Ids, TabClick(r)  PROVE DeletesNothing(net, net')
  BY <1>0, <1>2, RetrieveDeletesNothing DEF TabClick
<1>3. ASSUME NEW r \in Ids, Create(r)  PROVE DeletesNothing(net, net')
  <2>1. CASE Sel.create = "show"
    <3> DEFINE q == Of("list", 0, FALSE)
               w == Of("templates", r, FALSE)
    <3>1. net' \in Sent(net, {q} \cup Retrieve(r))
      BY <1>3, <2>1 DEF Create
    <3>2. q \in Request /\ q.call = "list" /\ w \in Request /\ w.call = "templates"
      BY OfTabsIs, OfTemplatesIs
    <3>3. {q} \cup Retrieve(r) = {q, w}
      BY IdsAre DEF Retrieve
    <3> HIDE DEF q, w
    <3>4. net' \in Sent(net, {q, w})
      BY <3>1, <3>3
    <3>5. PICK u, v \in Slots, o \in [Slots -> Request] : Puts(net, u, q, o) /\ Puts(o, v, w, net')
      BY <1>0, <3>2, <3>4, SentBoth
    <3>6. DeletesNothing(net, o) /\ DeletesNothing(o, net')
      BY <3>2, <3>5, PutDeletesNothing
    <3> QED  BY <3>6 DEF DeletesNothing
  <2>2. CASE Sel.create # "show"
    <3> DEFINE q == Of("init", 0, TRUE)
    <3>1. net' \in Sent(net, {q})
      BY <1>3, <2>2 DEF Create
    <3>2. q \in Request /\ q.call = "init"
      BY OfTabsIs
    <3> HIDE DEF q
    <3> QED  BY <1>0, <3>1, <3>2, SentOne, PutDeletesNothing
  <2> QED  BY <2>1, <2>2
<1>4. ASSUME Muddle  PROVE DeletesNothing(net, net')
  BY <1>0, <1>4 DEF Muddle, DeletesNothing, Request
<1>5. ASSUME Refresh  PROVE DeletesNothing(net, net')
  BY <1>0, <1>5, RetrieveDeletesNothing DEF Refresh
<1>6. ASSUME NEW s \in Slots, Serve(s)  PROVE DeletesNothing(net, net')
  <2>1. net[s] \in Request
    BY <1>0
  <2>2. \A t \in Slots : net'[t].call = net[t].call
    BY <1>0, <1>6, <2>1 DEF Serve, Request
  <2> QED  BY <2>2 DEF DeletesNothing
<1>7. ASSUME NEW s \in Slots, InitAnswered(s)  PROVE DeletesNothing(net, net')
  <2> DEFINE id == Chosen(page.id, net[s].ids)
             asks == IF net[s].refresh THEN IF Sel.early THEN page.id ELSE id ELSE 0
             o == Free(s)
  <2>1. net' \in Sent(o, Retrieve(asks)) /\ Asks(asks)
    BY <1>7 DEF InitAnswered
  <2>2. net[s].ids \in SUBSET Ids
    BY <1>0, RequestIs
  <2>3. net[s].ids # {} => Min(net[s].ids) \in net[s].ids
    BY <2>2, IdsAre, MinIs
  <2>4. id \in Ids \cup {0}
    BY <1>0, <2>2, <2>3 DEF Chosen
  <2>5. asks \in Ids \cup {0}
    BY <1>0, <2>4
  <2>6. o \in [Slots -> Request] /\ DeletesNothing(net, o)
    BY FreeDeletesNothing
  <2> HIDE DEF asks, o
  <2>7. DeletesNothing(o, net')
    BY <1>0, <2>1, <2>5, <2>6, RetrieveDeletesNothing
  <2> QED  BY <2>6, <2>7 DEF DeletesNothing
<1>8. ASSUME NEW s \in Slots, ListAnswered(s) \/ TemplatesAnswered(s) \/ Failed(s)
      PROVE  DeletesNothing(net, net')
  BY <1>8, FreeDeletesNothing DEF ListAnswered, TemplatesAnswered, Failed
<1>9. ASSUME NEW s \in Slots, DeleteAnswered(s)  PROVE DeletesNothing(net, net')
  <2> DEFINE q == Of("init", 0, TRUE)
             o == Free(s)
  <2>1. net' \in Sent(o, {q})
    BY <1>9 DEF DeleteAnswered
  <2>2. q \in Request /\ q.call = "init"
    BY OfTabsIs
  <2>3. o \in [Slots -> Request] /\ DeletesNothing(net, o)
    BY FreeDeletesNothing
  <2> HIDE DEF q, o
  <2>4. DeletesNothing(o, net')
    BY <2>1, <2>2, <2>3, SentOne, PutDeletesNothing
  <2> QED  BY <2>3, <2>4 DEF DeletesNothing
<1>10. ASSUME NEW c \in Clusters, Published(c)  PROVE DeletesNothing(net, net')
  <2> DEFINE id == IF page.left THEN 0 ELSE page.id
  <2>1. net' \in Sent(net, Retrieve(id)) /\ Asks(id)
    BY <1>10 DEF Published
  <2>2. id \in Ids \cup {0}
    BY <1>0
  <2> HIDE DEF id
  <2> QED  BY <1>0, <2>1, <2>2, RetrieveDeletesNothing
<1>11. ASSUME NEW c \in Clusters, DialogServed(c) \/ DialogAnswered(c)  PROVE DeletesNothing(net, net')
  BY <1>1, <1>4, <1>11 DEF DialogServed, DialogAnswered, pageVars
<1>12. ASSUME NEW r \in Ids, NEW c \in Clusters, Others(r, c)  PROVE DeletesNothing(net, net')
  BY <1>4, <1>12 DEF Others
<1>13. ASSUME NEW cs \in SUBSET Clusters,
              Publish(cs) \/ \E op \in {"offline", "force"} : Offline(op, cs)
       PROVE  DeletesNothing(net, net')
  BY <1>1, <1>13 DEF Publish, Offline
<1>14. ASSUME OpenDelete \/ Cancel \/ Leave \/ Tick  PROVE DeletesNothing(net, net')
  BY <1>1, <1>14 DEF OpenDelete, Cancel, Leave, Tick
<1>15. ASSUME NEW j \in Keys, NEW answer \in PollAnswers, PollAnswered(j, answer)
       PROVE  DeletesNothing(net, net')
  BY <1>1, <1>15 DEF PollAnswered
<1>16. ASSUME UNCHANGED vars  PROVE DeletesNothing(net, net')
  BY <1>1, <1>16 DEF vars, pageVars
<1> QED  BY <1>2, <1>3, <1>5, <1>6, <1>7, <1>8, <1>9, <1>10, <1>11, <1>12, <1>13, <1>14, <1>15, <1>16
         DEF Next

(* What a confirmation deletes.                                            *)
LEMMA ConfirmDeletes ==
  ASSUME PageInv, Confirm
  PROVE  /\ \A s \in Slots : net'[s].call = "delete" /\ net[s].call # "delete" => net'[s].id = page.dialog
         /\ page.left /\ End.drops => net' = net
<1> DEFINE q == Of("delete", page.dialog, FALSE)
<1>1. /\ net' = net \/ net' \in Sent(net, {q})
      /\ page.left /\ End.drops => net' = net
  BY DEF Confirm
<1>2. q \in Request /\ q.id = page.dialog
  BY InvIs, PageIs, OfDeleteIs
<1> HIDE DEF q
<1>3. ASSUME net' \in Sent(net, {q}), NEW s \in Slots, net'[s].call = "delete", net[s].call # "delete"
      PROVE  net'[s].id = page.dialog
  <2>1. PICK u \in Slots : Puts(net, u, q, net')
    BY <1>2, <1>3, InvIs, SentOne
  <2>2. s = u
    BY <1>3, <2>1 DEF Puts, SameRequest
  <2> QED  BY <1>2, <2>1, <2>2 DEF Puts
<1> QED  BY <1>1, <1>3

(* Who asks for a status.                                                  *)
LEMMA StatusIsAsked ==
  ASSUME PageInv, [Next]_vars, page.left, List.looks, End.stops, NEW j \in Keys
  PROVE  polls'[j] <= polls[j]
<1>1. polls \in [Keys -> Nat]
  BY InvIs
<1>2. polls' = polls => polls'[j] <= polls[j]
  BY <1>1
<1>3. CASE \E i \in Keys, answer \in PollAnswers : PollAnswered(i, answer)
  <2>1. PICK i \in Keys : polls' = [polls EXCEPT ![i] = @ - 1]
    BY <1>3 DEF PollAnswered
  <2> QED  BY <1>1, <2>1
<1>4. CASE \E s \in Slots : TemplatesAnswered(s)
  BY <1>2, <1>4 DEF TemplatesAnswered
<1>5. ~Tick
  BY DEF Tick
<1>6. CASE \E r \in Ids : TabClick(r) \/ Create(r) \/ \E c \in Clusters : Others(r, c)
  BY <1>2, <1>6 DEF TabClick, Create, Others
<1>7. CASE Refresh \/ OpenDelete \/ Confirm \/ Cancel \/ Leave
  BY <1>2, <1>7 DEF Refresh, OpenDelete, Confirm, Cancel, Leave
<1>8. CASE \E cs \in SUBSET Clusters : Publish(cs) \/ \E op \in {"offline", "force"} : Offline(op, cs)
  BY <1>2, <1>8 DEF Publish, Offline
<1>9. CASE \E s \in Slots : \/ Serve(s) \/ InitAnswered(s) \/ ListAnswered(s)
                            \/ DeleteAnswered(s) \/ Failed(s)
  BY <1>2, <1>9 DEF Serve, InitAnswered, ListAnswered, DeleteAnswered, Failed
<1>10. CASE \E c \in Clusters : DialogServed(c) \/ Published(c) \/ DialogAnswered(c)
  BY <1>2, <1>10 DEF DialogServed, Published, DialogAnswered, pageVars
<1>11. CASE UNCHANGED vars
  BY <1>2, <1>11 DEF vars, pageVars
<1> QED  BY <1>3, <1>4, <1>5, <1>6, <1>7, <1>8, <1>9, <1>10, <1>11 DEF Next

(* What is deleted is what the dialog had named, whatever was selected     *)
(* since.                                                                  *)
THEOREM PortalDeletes == Spec => DeletesWhatWasAsked
<1> DEFINE Deletes == \A s \in Slots :
             net'[s].call = "delete" /\ net[s].call # "delete" => net'[s].id = page.dialog
<1>1. PageInv /\ [Next]_vars => Deletes
  <2> SUFFICES ASSUME PageInv, [Next]_vars  PROVE Deletes
    OBVIOUS
  <2>1. CASE Confirm
    BY <2>1, ConfirmDeletes
  <2>2. CASE ~Confirm
    BY <2>2, DeletionsAreConfirmed DEF DeletesNothing
  <2> QED  BY <2>1, <2>2
<1> QED  BY <1>1, PortalInvariant, PTL DEF Spec, DeletesWhatWasAsked

(* A page that was left asks for no status and deletes nothing, although   *)
(* answers arrive and its dialog may be confirmed.                         *)
THEOREM PortalLeftIsSilent == Spec => LeftPageIsSilent
<1> DEFINE Silent == page.left /\ kind # "autoscale" =>
             /\ \A k \in Keys : polls'[k] <= polls[k]
             /\ \A s \in Slots : net'[s].call = "delete" => net[s].call = "delete"
<1>1. PageInv /\ [Next]_vars => Silent
  <2> SUFFICES ASSUME PageInv, [Next]_vars, page.left, kind # "autoscale"
               PROVE  /\ \A k \in Keys : polls'[k] <= polls[k]
                      /\ DeletesNothing(net, net')
    BY DEF DeletesNothing
  <2>1. List.looks /\ End.stops /\ End.drops
    BY InvIs, KindFacts DEF List, End
  <2>2. \A k \in Keys : polls'[k] <= polls[k]
    BY <2>1, StatusIsAsked
  <2>3. DeletesNothing(net, net')
    <3>1. CASE Confirm
      BY <2>1, <3>1, ConfirmDeletes DEF DeletesNothing
    <3>2. CASE ~Confirm
      BY <3>2, DeletionsAreConfirmed
    <3> QED  BY <3>1, <3>2
  <2> QED  BY <2>2, <2>3
<1> QED  BY <1>1, PortalInvariant, PTL DEF Spec, LeftPageIsSilent
===============================================================================
