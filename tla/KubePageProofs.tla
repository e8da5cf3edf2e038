---------------------------- MODULE KubePageProofs ----------------------------
(***************************************************************************)
(* Theorems of KubePage, for every choice of the kinds of object, of the   *)
(* workloads, of the clusters and of the bounds: what an administrator     *)
(* sees, edits and migrates is what was meant.                             *)
(***************************************************************************)
EXTENDS KubePage, TLAPS

(***************************************************************************)
(* The inductive invariant.                                                *)
(***************************************************************************)
(* Before a cluster is chosen there is nothing on the page, and nothing    *)
(* under way but the request for the clusters.                             *)
NothingYet ==
  chosen = NoCluster =>
    /\ shown = {} /\ box = Nothing /\ editor.mode = "closed" /\ ~dialog.open
    /\ \A i \in DOMAIN net : net[i].call = "clusters"

(* x is no later than the object in its cluster, of all the objects os:    *)
(* of the same incarnation it has at most the resourceVersion, and with    *)
(* the same one the same rest.  An object is of a cluster from its         *)
(* creation on.                                                            *)
NoLater(os, x) ==
  /\ x.there => x.cluster \in Clusters
  /\ x.cluster \in Clusters =>
       /\ 1 <= x.uid /\ x.uid <= os[x.cluster].uid
       /\ x.uid = os[x.cluster].uid =>
            /\ x.rev <= os[x.cluster].rev
            /\ x.rev = os[x.cluster].rev => x.rest = os[x.cluster].rest

(* The text of x is its own, but for the texts that were merged into       *)
(* another incarnation, or, once one has strayed, into any object.         *)
OwnText(k, s, x) ==
  /\ Pages[k].saves # "merge" => x.text = <<x.cluster, x.uid>>
  /\ ~s => x.text[1] = x.cluster

(* What the server has of the cluster c.                                   *)
InCluster(c, x) ==
  /\ x.rev >= 1
  /\ x.there => x.cluster = c
  /\ x.cluster \in {c, NoCluster}
WorldIsWell ==
  \A c \in Clusters :
    /\ InCluster(c, objects[c]) /\ InCluster(c, cached[c])
    /\ objects[c].cluster = c => objects[c].uid >= 1
    /\ NoLater(objects, cached[c])
    /\ OwnText(kind, strayed, objects[c]) /\ OwnText(kind, strayed, cached[c])

(* What the page has.                                                      *)
ReadWell(os, k, s, x) == x.rev >= 1 /\ NoLater(os, x) /\ OwnText(k, s, x)
EditorIsWell ==
  /\ ReadWell(objects, kind, strayed, editor.obj)
  /\ editor.mode = "edit" => editor.obj.there

(* A request carries what was read; one that changes an object, an object  *)
(* with a resourceVersion, unless the kind drops it.  Objects are read     *)
(* again where the text is merged into them.                               *)
Asked(os, k, s, q) ==
  /\ NoLater(os, q.obj) /\ OwnText(k, s, q.obj)
  /\ q.call # "update" \/ Pages[k].saves # "blind" => q.obj.rev >= 1
  /\ q.call \in {"update", "reread"} => q.obj.there
  /\ q.call \in {"read", "reread"} /\ q.at = "served" => q.obj.there
  /\ q.call = "reread" => Pages[k].saves = "merge"
  /\ q.call = "reread" /\ q.at = "sent" /\ ~s => q.obj.cluster = q.cluster
NetIsWell == \A i \in DOMAIN net : Asked(objects, kind, strayed, net[i])
PageIsWell ==
  /\ \A x \in shown : ReadWell(objects, kind, strayed, x)
  /\ ReadWell(objects, kind, strayed, box)
  /\ ReadWell(objects, kind, strayed, dialog.obj)

(* Something under way leads to a new list, or to the end of one; a list   *)
(* that was not overtaken is of what is chosen, and tells what is there,   *)
(* unless a new one will be asked for.                                     *)
Changes == {"create", "delete", "update"}
WillAsk == \E i \in DOMAIN net : net[i].call \in {"clusters", "names"} \cup Changes
Right(c, s) == IF objects[c].there /\ s = "all" THEN objects[c] ELSE Nothing
ShownOrAwaited ==
  failed \/ muddled \/ WillAsk \/ (\E i \in DOMAIN net : net[i].call = "list")
    \/ (chosen # NoCluster /\ shown = {Right(chosen, scope)} \ {Nothing})
LatestIsRight ==
  \A i \in DOMAIN net :
    net[i].call = "list" /\ net[i].latest =>
      \/ failed \/ WillAsk
      \/ /\ net[i].cluster = chosen /\ net[i].scope = scope
         /\ net[i].at = "served" => net[i].obj = Right(chosen, scope)

(* Only rows that offer it are migrated, and a resource has its entry in   *)
(* the database when it is answered, and none before.                      *)
Migrates(q) == q.call \in {"copy", "resource", "template"}
MigrationIsOffered ==
  /\ dialog.open => "migrate" \in Rows[kind]
  /\ \A i \in DOMAIN net :
       /\ Migrates(net[i]) => "migrate" \in Rows[kind]
       /\ net[i].call = "resource" /\ net[i].at = "sent" => net[i].n = 0
       /\ net[i].call = "resource" /\ net[i].at = "served" => net[i].n \in DOMAIN made
(* While no migration is hurried, there is one at a time: the dialog keeps *)
(* the object until its resource is answered, and a resource that has no   *)
(* template yet is waited for, or waits for it.                            *)
Whole(m) == m.template = m.resource
OneMigration ==
  ~hurried =>
    /\ \A i, j \in DOMAIN net : Migrates(net[i]) /\ Migrates(net[j]) => i = j
    /\ \A i \in DOMAIN net :
         /\ net[i].call = "resource" =>
              /\ ~dialog.open /\ dialog.app /\ dialog.obj = net[i].obj
              /\ net[i].at = "served" => made[net[i].n].resource = net[i].obj
         /\ net[i].call = "template" =>
              /\ made[net[i].n].resource = net[i].obj
              /\ net[i].at = "served" => Whole(made[net[i].n])
    /\ ~failed => \A n \in DOMAIN made :
         Whole(made[n]) \/ \E i \in DOMAIN net : net[i].call \in {"resource", "template"} /\ net[i].n = n

KubeInv ==
  /\ TypeOK
  /\ NothingYet
  /\ WorldIsWell
  /\ EditorIsWell
  /\ PageIsWell
  /\ NetIsWell
  /\ ShownOrAwaited
  /\ LatestIsRight
  /\ MigrationIsOffered
  /\ OneMigration

(***************************************************************************)
(* The requests under way.  Their order does not matter: a step removes    *)
(* the one at i, if i is one, and adds those in Q, one at most.  The       *)
(* others stay, but may be overtaken.                                      *)
(***************************************************************************)
Like(r, q) ==
  /\ r.call = q.call /\ r.cluster = q.cluster /\ r.scope = q.scope /\ r.obj = q.obj
  /\ r.n = q.n /\ r.at = q.at /\ (r.latest => q.latest)

Moved(m, n, i, Q) ==
  /\ m \in Seq(Requests)
  /\ \A j \in DOMAIN m : m[j] \in Q \/ \E k \in DOMAIN n \ {i} : Like(m[j], n[k])
  /\ \A k \in DOMAIN n \ {i} : \E j \in DOMAIN m : Like(m[j], n[k])
  /\ \A q \in Q : \E j \in DOMAIN m : m[j] = q
  /\ \A j, l \in DOMAIN m : j # l =>
       \/ \E k, h \in DOMAIN n \ {i} : k # h /\ Like(m[j], n[k]) /\ Like(m[l], n[h])
       \/ m[j] \in Q /\ \E k \in DOMAIN n \ {i} : Like(m[l], n[k])
       \/ m[l] \in Q /\ \E k \in DOMAIN n \ {i} : Like(m[j], n[k])

(* A list that was asked for last overtakes the others.                    *)
Overtakes(m, q) == q.call = "list" => \A j \in DOMAIN m : m[j].call = "list" /\ m[j].latest => m[j] = q

(* A request is like itself.                                               *)
LEMMA AlikeIsLike == ASSUME NEW q PROVE Like(q, q)
  BY DEF Like

(* A request with another mark of being the latest.                        *)
LEMMA MarkedIsLike ==
  ASSUME NEW q \in Requests
  PROVE  /\ [q EXCEPT !.latest = FALSE] \in Requests
         /\ Like([q EXCEPT !.latest = FALSE], q)
         /\ [q EXCEPT !.latest = FALSE].latest = FALSE
         /\ [q EXCEPT !.latest = FALSE].call = q.call
  BY DEF Requests, Like

(* A step may leave the requests alone.                                    *)
LEMMA NothingMoves == ASSUME NEW n \in Seq(Requests) PROVE Moved(n, n, 0, {})
  BY AlikeIsLike DEF Moved

(* RemoveAt, with the places that the requests come from.                  *)
LEMMA RestMoved ==
  ASSUME NEW n \in Seq(Requests), NEW i \in DOMAIN n
  PROVE  /\ Moved(RemoveAt(n, i), n, i, {})
         /\ RemoveAt(n, i) \in Seq(Requests)
  <1> DEFINE m == RemoveAt(n, i)
             From(j) == IF j < i THEN j ELSE j + 1
  <1>1. Len(n) \in Nat /\ i \in 1..Len(n) /\ DOMAIN n = 1..Len(n)
    OBVIOUS
  <1>2. m = SubSeq(n, 1, i - 1) \o SubSeq(n, i + 1, Len(n))
    BY DEF RemoveAt
  <1>3. /\ SubSeq(n, 1, i - 1) \in Seq(Requests) /\ Len(SubSeq(n, 1, i - 1)) = i - 1
        /\ \A j \in 1..(i - 1) : SubSeq(n, 1, i - 1)[j] = n[j]
    BY <1>1
  <1>4. /\ SubSeq(n, i + 1, Len(n)) \in Seq(Requests) /\ Len(SubSeq(n, i + 1, Len(n))) = Len(n) - i
        /\ \A j \in 1..(Len(n) - i) : SubSeq(n, i + 1, Len(n))[j] = n[j + i]
    BY <1>1
  <1>5. m \in Seq(Requests) /\ Len(m) = Len(n) - 1 /\ \A j \in 1..(Len(n) - 1) : m[j] = n[From(j)]
    <2> DEFINE a == SubSeq(n, 1, i - 1)
               b == SubSeq(n, i + 1, Len(n))
    <2>1. m = a \o b
      BY <1>2
    <2>2. /\ a \in Seq(Requests) /\ Len(a) = i - 1 /\ \A j \in 1..(i - 1) : a[j] = n[j]
          /\ b \in Seq(Requests) /\ Len(b) = Len(n) - i /\ \A j \in 1..(Len(n) - i) : b[j] = n[j + i]
      BY <1>3, <1>4
    <2> HIDE DEF a, b, m
    <2>3. m \in Seq(Requests) /\ Len(m) = Len(a) + Len(b)
      BY <2>1, <2>2
    <2>4. \A j \in 1..Len(m) : m[j] = IF j <= Len(a) THEN a[j] ELSE b[j - Len(a)]
      BY <2>1, <2>2, <2>3
    <2>5. ASSUME NEW j \in 1..(Len(n) - 1)
          PROVE  m[j] = n[From(j)]
      <3>1. CASE j < i
        BY <1>1, <2>2, <2>3, <2>4, <3>1
      <3>2. CASE i <= j
        <4>1. m[j] = b[j - (i - 1)] /\ j - (i - 1) \in 1..(Len(n) - i)
          BY <1>1, <2>2, <2>3, <2>4, <3>2
        <4>2. b[j - (i - 1)] = n[(j - (i - 1)) + i] /\ (j - (i - 1)) + i = j + 1
          BY <1>1, <2>2, <4>1
        <4>3. QED
          BY <1>1, <3>2, <4>1, <4>2
      <3>3. QED
        BY <1>1, <3>1, <3>2
    <2>6. Len(m) = Len(n) - 1
      BY <1>1, <2>2, <2>3
    <2>7. QED
      BY <2>3, <2>5, <2>6
  <1> HIDE DEF m
  <1>6. \A j \in DOMAIN m : From(j) \in DOMAIN n \ {i} /\ m[j] = n[From(j)]
    BY <1>1, <1>5
  <1>7. \A j, l \in DOMAIN m : j # l => From(j) # From(l)
    BY <1>5
  <1>8. ASSUME NEW k \in DOMAIN n \ {i}
        PROVE  \E j \in DOMAIN m : m[j] = n[k]
    <2>1. CASE k < i
      BY <1>1, <1>5, <2>1
    <2>2. CASE i < k
      <3>1. k - 1 \in DOMAIN m /\ From(k - 1) = k
        BY <1>1, <1>5, <2>2
      <3>2. QED
        BY <1>6, <3>1
    <2>3. QED
      BY <1>1, <2>1, <2>2
  <1> HIDE DEF From
  <1>9. Moved(m, n, i, {})
    BY <1>5, <1>6, <1>7, <1>8, AlikeIsLike DEF Moved
  <1>10. QED
    BY <1>5, <1>9 DEF m

(* A request is sent, after another was removed or none.                   *)
LEMMA SendsMoved ==
  ASSUME NEW n \in Seq(Requests), NEW m \in Seq(Requests), NEW i, Moved(m, n, i, {}),
         NEW q \in Requests, Sends(m, q)
  PROVE  Moved(net', n, i, {q}) /\ Overtakes(net', q)
  <1> DEFINE o == [j \in DOMAIN m |-> IF q.call = "list" /\ m[j].call = "list"
                                        THEN [m[j] EXCEPT !.latest = FALSE] ELSE m[j]]
  <1>1. net' = Append(o, q)
    BY DEF Sends
  <1>2. ASSUME NEW j \in DOMAIN m
        PROVE  /\ o[j] \in Requests /\ Like(o[j], m[j])
               /\ q.call = "list" /\ o[j].call = "list" => ~o[j].latest
    <2>1. m[j] \in Requests
      OBVIOUS
    <2>2. QED
      BY <2>1, MarkedIsLike, AlikeIsLike
  <1>3. DOMAIN m = 1..Len(m) /\ Len(m) \in Nat
    OBVIOUS
  <1>4. o \in Seq(Requests) /\ Len(o) = Len(m)
    BY <1>2, <1>3
  <1>5. DOMAIN o = DOMAIN m
    OBVIOUS
  <1> HIDE DEF o
  <1>6. /\ net' \in Seq(Requests) /\ Len(net') = Len(m) + 1 /\ net'[Len(m) + 1] = q
        /\ \A j \in 1..Len(m) : net'[j] = o[j]
    BY <1>1, <1>4
  <1>7. DOMAIN net' = 1..(Len(m) + 1)
    BY <1>3, <1>6
  <1>8. \A j \in DOMAIN m : \A k \in DOMAIN n : Like(m[j], n[k]) => Like(net'[j], n[k])
    BY <1>2, <1>3, <1>6 DEF Like
  <1>9. \A j \in DOMAIN net' : j \in DOMAIN m \/ (j = Len(m) + 1 /\ net'[j] = q)
    BY <1>3, <1>6, <1>7
  <1>10. /\ \A j \in DOMAIN m : \E k \in DOMAIN n \ {i} : Like(m[j], n[k])
         /\ \A k \in DOMAIN n \ {i} : \E j \in DOMAIN m : Like(m[j], n[k])
         /\ \A j, l \in DOMAIN m : j # l =>
              \E k, h \in DOMAIN n \ {i} : k # h /\ Like(m[j], n[k]) /\ Like(m[l], n[h])
    BY DEF Moved
  <1>11. DOMAIN m \subseteq DOMAIN net' /\ Len(m) + 1 \in DOMAIN net'
    BY <1>3, <1>7
  <1>12. Moved(net', n, i, {q})
    <2>1. \A j \in DOMAIN net' : net'[j] \in {q} \/ \E k \in DOMAIN n \ {i} : Like(net'[j], n[k])
      BY <1>8, <1>9, <1>10
    <2>2. \A k \in DOMAIN n \ {i} : \E j \in DOMAIN net' : Like(net'[j], n[k])
      BY <1>8, <1>10, <1>11
    <2>3. \A r \in {q} : \E j \in DOMAIN net' : net'[j] = r
      BY <1>6, <1>11
    <2>4. ASSUME NEW j \in DOMAIN net', NEW l \in DOMAIN net', j # l
          PROVE  \/ \E k, h \in DOMAIN n \ {i} : k # h /\ Like(net'[j], n[k]) /\ Like(net'[l], n[h])
                 \/ net'[j] \in {q} /\ \E k \in DOMAIN n \ {i} : Like(net'[l], n[k])
                 \/ net'[l] \in {q} /\ \E k \in DOMAIN n \ {i} : Like(net'[j], n[k])
      <3>1. CASE j \in DOMAIN m /\ l \in DOMAIN m
        BY <1>8, <1>10, <2>4, <3>1
      <3>2. CASE j \notin DOMAIN m
        BY <1>8, <1>9, <1>10, <2>4, <3>2
      <3>3. CASE l \notin DOMAIN m
        BY <1>8, <1>9, <1>10, <2>4, <3>3
      <3>4. QED
        BY <3>1, <3>2, <3>3
    <2>5. QED
      BY <1>6, <2>1, <2>2, <2>3, <2>4 DEF Moved
  <1>13. Overtakes(net', q)
    <2>1. \A j \in DOMAIN m : q.call = "list" /\ net'[j].call = "list" => ~net'[j].latest
      BY <1>2, <1>3, <1>6
    <2>2. QED
      BY <1>9, <2>1 DEF Overtakes
  <1>14. QED
    BY <1>12, <1>13

(* Lists that were read before a change are marked.                        *)
LEMMA StaleMoved ==
  ASSUME NEW n \in Seq(Requests), NEW c
  PROVE  /\ Stale(n, c) \in Seq(Requests) /\ DOMAIN Stale(n, c) = DOMAIN n
         /\ \A j \in DOMAIN n :
              /\ Like(Stale(n, c)[j], n[j])
              /\ n[j].call # "list" => Stale(n, c)[j] = n[j]
              /\ n[j].call = "list" /\ n[j].cluster = c /\ n[j].at = "served" =>
                   ~Stale(n, c)[j].latest
         /\ Moved(Stale(n, c), n, 0, {})
  <1> DEFINE o == Stale(n, c)
  <1>1. o = [j \in DOMAIN n |-> IF n[j].call = "list" /\ n[j].cluster = c /\ n[j].at = "served"
                                  THEN [n[j] EXCEPT !.latest = FALSE] ELSE n[j]]
    BY DEF Stale
  <1>2. ASSUME NEW j \in DOMAIN n
        PROVE  /\ o[j] \in Requests /\ Like(o[j], n[j])
               /\ n[j].call # "list" => o[j] = n[j]
               /\ n[j].call = "list" /\ n[j].cluster = c /\ n[j].at = "served" => ~o[j].latest
    <2>1. n[j] \in Requests
      OBVIOUS
    <2>2. QED
      BY <1>1, <2>1, MarkedIsLike, AlikeIsLike
  <1>3. DOMAIN n = 1..Len(n) /\ Len(n) \in Nat /\ DOMAIN o = DOMAIN n
    BY <1>1
  <1>4. o \in [1..Len(n) -> Requests]
    BY <1>1, <1>2, <1>3
  <1> HIDE DEF o
  <1>5. o \in Seq(Requests)
    BY <1>3, <1>4
  <1>6. Moved(o, n, 0, {})
    BY <1>2, <1>3, <1>5 DEF Moved
  <1>7. QED
    BY <1>2, <1>3, <1>5, <1>6 DEF o

(* The request at i becomes another.                                       *)
LEMMA ChangedMoved ==
  ASSUME NEW n \in Seq(Requests), NEW m \in Seq(Requests), DOMAIN m = DOMAIN n,
         \A j \in DOMAIN n : Like(m[j], n[j]),
         NEW i \in DOMAIN n, NEW q \in Requests, net' = [m EXCEPT ![i] = q]
  PROVE  Moved(net', n, i, {q})
  <1>1. /\ net' \in Seq(Requests) /\ DOMAIN net' = DOMAIN n /\ net'[i] = q
        /\ \A j \in DOMAIN n \ {i} : net'[j] = m[j]
    OBVIOUS
  <1>2. \A j \in DOMAIN n \ {i} : Like(net'[j], n[j])
    BY <1>1
  <1>3. ASSUME NEW j \in DOMAIN net', NEW l \in DOMAIN net', j # l
        PROVE  \/ \E k, h \in DOMAIN n \ {i} : k # h /\ Like(net'[j], n[k]) /\ Like(net'[l], n[h])
               \/ net'[j] \in {q} /\ \E k \in DOMAIN n \ {i} : Like(net'[l], n[k])
               \/ net'[l] \in {q} /\ \E k \in DOMAIN n \ {i} : Like(net'[j], n[k])
    BY <1>1, <1>2, <1>3
  <1>4. QED
    BY <1>1, <1>2, <1>3 DEF Moved

(***************************************************************************)
(* Objects and requests.                                                   *)
(***************************************************************************)
LEMMA ObjectIs ==
  ASSUME NEW c \in Clusters \cup {NoCluster}, NEW u \in Nat
  PROVE  /\ Object(c, u) \in Objects
         /\ Object(c, u).cluster = c /\ Object(c, u).uid = u /\ Object(c, u).there = TRUE
         /\ Object(c, u).rev = 1 /\ Object(c, u).text = <<c, u>> /\ Object(c, u).rest = 1
  <1>1. <<c, u>> \in (Clusters \cup {NoCluster}) \X Nat
    OBVIOUS
  <1>2. QED
    BY <1>1 DEF Object, Objects

(* The fields of Nothing.                                                  *)
LEMMA NothingIs ==
  /\ Nothing \in Objects
  /\ Nothing.cluster = NoCluster /\ Nothing.uid = 0 /\ Nothing.there = FALSE
  /\ Nothing.rev = 1 /\ Nothing.text = <<NoCluster, 0>>
  <1>1. Object(NoCluster, 0) \in Objects
    BY ObjectIs
  <1>2. Nothing \in Objects
    BY <1>1 DEF Nothing, Objects
  <1>3. QED
    BY <1>2, ObjectIs DEF Nothing, Object

(* Nothing is well everywhere.                                             *)
LEMMA NothingIsWell ==
  ASSUME NEW os, NEW k, NEW s
  PROVE  ReadWell(os, k, s, Nothing)
  BY NothingIs, KubeAssumption DEF ReadWell, NoLater, OwnText

(* The fields of a request when it is sent.                                *)
LEMMA AskIs ==
  ASSUME TypeOK, NEW call \in Calls, NEW c \in Clusters \cup {NoCluster}, NEW x \in Objects
  PROVE  /\ Ask(call, c, x) \in Requests
         /\ Ask(call, c, x).call = call /\ Ask(call, c, x).cluster = c
         /\ Ask(call, c, x).scope = scope /\ Ask(call, c, x).obj = x /\ Ask(call, c, x).n = 0
         /\ Ask(call, c, x).at = "sent" /\ Ask(call, c, x).latest = TRUE
  BY DEF Ask, Requests, TypeOK

(* The request for a list of the namespace s.                              *)
AskList(c, s) == [Ask("list", c, Nothing) EXCEPT !.scope = s]
(* Its fields.                                                             *)
LEMMA AskListIs ==
  ASSUME TypeOK, NEW c \in Clusters \cup {NoCluster}, NEW s \in {"all", "other"}
  PROVE  /\ AskList(c, s) \in Requests
         /\ AskList(c, s).call = "list" /\ AskList(c, s).cluster = c /\ AskList(c, s).scope = s
         /\ AskList(c, s).obj = Nothing /\ AskList(c, s).at = "sent"
  <1>1. "list" \in Calls /\ Nothing \in Objects
    BY NothingIs DEF Calls
  <1>2. Ask("list", c, Nothing) \in Requests
    BY <1>1, AskIs
  <1>3. QED
    BY <1>1, <1>2, AskIs DEF AskList, Requests

(* The request for the names of the namespaces.                            *)
LEMMA AskNamesIs ==
  ASSUME TypeOK, NEW c \in Clusters \cup {NoCluster}
  PROVE  LET q == Ask("names", c, Nothing)
         IN /\ q \in Requests /\ q.call = "names" /\ q.cluster = c
            /\ q.obj = Nothing /\ q.at = "sent"
  <1>1. "names" \in Calls /\ Nothing \in Objects
    BY NothingIs DEF Calls
  <1>2. Ask("names", c, Nothing) \in Requests
    BY <1>1, AskIs
  <1>3. QED
    BY <1>1, <1>2, AskIs DEF Requests

(* The requests that a step leaves and adds are typed.                     *)
AskTyped(q, D) ==
  /\ q \in Requests
  /\ q.call \notin {"clusters", "resource", "template"} => q.cluster \in Clusters
  /\ q.call = "template" => q.n \in D
NetTyped == net \in Seq(Requests) /\ \A i \in DOMAIN net : AskTyped(net[i], DOMAIN made)

(* The requests of a typed state are typed.                                *)
LEMMA TypedNet == TypeOK => NetTyped
  BY DEF TypeOK, NetTyped, AskTyped

(* Typed requests, and one more or less of them, are typed.                *)
LEMMA NetStaysTyped ==
  ASSUME NetTyped, NEW i, NEW Q, Moved(net', net, i, Q), DOMAIN made \subseteq DOMAIN made',
         \A q \in Q : AskTyped(q, DOMAIN made')
  PROVE  NetTyped'
  <1>1. net' \in Seq(Requests)
    BY DEF Moved
  <1>2. ASSUME NEW j \in DOMAIN net'
        PROVE  AskTyped(net'[j], DOMAIN made')
    <2>1. CASE net'[j] \in Q
      BY <2>1
    <2>2. ASSUME NEW k \in DOMAIN net, Like(net'[j], net[k])
          PROVE  AskTyped(net'[j], DOMAIN made')
      <3>1. net'[j] \in Requests
        BY <1>1
      <3>2. AskTyped(net[k], DOMAIN made)
        BY DEF NetTyped
      <3>3. QED
        BY <2>2, <3>1, <3>2 DEF AskTyped, Like
    <2>3. QED
      BY <2>1, <2>2 DEF Moved
  <1>3. QED
    BY <1>1, <1>2 DEF NetTyped

(* What is asked for stays well while objects grow later and texts stray.  *)
LEMMA AskedStays ==
  ASSUME NEW os, NEW ps, NEW k, NEW s, NEW r, s => r, NEW q \in Requests, NEW p,
         \A x \in Objects : NoLater(os, x) => NoLater(ps, x),
         Asked(os, k, s, q), Like(p, q)
  PROVE  Asked(ps, k, r, p)
  <1>1. q.obj \in Objects
    BY DEF Requests
  <1>2. QED
    BY <1>1 DEF Asked, Like, OwnText

(* The same of the requests under way.                                     *)
LEMMA NetStaysWell ==
  ASSUME NetTyped, NetIsWell, NEW i, NEW Q, Moved(net', net, i, Q), kind' = kind,
         strayed => strayed',
         \A x \in Objects : NoLater(objects, x) => NoLater(objects', x),
         \A q \in Q : Asked(objects', kind, strayed', q)
  PROVE  NetIsWell'
  <1>1. ASSUME NEW j \in DOMAIN net'
        PROVE  Asked(objects', kind, strayed', net'[j])
    <2>1. CASE net'[j] \in Q
      BY <2>1
    <2>2. ASSUME NEW k \in DOMAIN net, Like(net'[j], net[k])
          PROVE  Asked(objects', kind, strayed', net'[j])
      <3>1. Asked(objects, kind, strayed, net[k]) /\ net[k] \in Requests
        BY DEF NetIsWell, NetTyped
      <3>2. QED
        BY <2>2, <3>1, AskedStays
    <2>3. QED
      BY <2>1, <2>2 DEF Moved
  <1>2. QED
    BY <1>1 DEF NetIsWell

(* The same of what the page has.                                          *)
LEMMA ReadStaysWell ==
  ASSUME NEW os, NEW ps, NEW k, NEW s, NEW r, s => r, NEW x \in Objects,
         \A y \in Objects : NoLater(os, y) => NoLater(ps, y), ReadWell(os, k, s, x)
  PROVE  ReadWell(ps, k, r, x)
  BY DEF ReadWell, OwnText

(* The server's side is left alone, and so is well.                        *)
LEMMA WorldStaysWell ==
  ASSUME WorldIsWell, UNCHANGED <<kind, objects, cached>>, strayed => strayed'
  PROVE  WorldIsWell'
  BY DEF WorldIsWell, OwnText

(* The objects of one cluster change, to a later state of the object.      *)
Later(y, x) ==
  \/ y.uid > x.uid
  \/ y.uid = x.uid /\ (y.rev > x.rev \/ (y.rev = x.rev /\ y.rest = x.rest))
(* A later object leaves what was read no later, and the server's side     *)
(* well.                                                                   *)
LEMMA ObjectsGrow ==
  ASSUME TypeOK, WorldIsWell, NEW c \in Clusters, NEW y \in Objects, objects' = [objects EXCEPT ![c] = y],
         Later(y, objects[c]), InCluster(c, y), y.cluster = c => y.uid >= 1,
         OwnText(kind, strayed, y), UNCHANGED <<kind, cached, strayed>>
  PROVE  /\ \A x \in Objects : NoLater(objects, x) => NoLater(objects', x)
         /\ WorldIsWell' /\ objects' \in [Clusters -> Objects]
  <1>1. /\ objects \in [Clusters -> Objects] /\ cached \in [Clusters -> Objects]
        /\ objects' \in [Clusters -> Objects] /\ objects'[c] = y
        /\ \A d \in Clusters \ {c} : objects'[d] = objects[d]
    BY DEF TypeOK
  <1>2. /\ objects[c] \in Objects
        /\ \A x \in Objects : x.uid \in Nat /\ x.rev \in Nat
    BY <1>1 DEF Objects
  <1>3. ASSUME NEW x \in Objects, NoLater(objects, x)
        PROVE  NoLater(objects', x)
    <2>1. CASE x.cluster = c
      BY <1>1, <1>2, <1>3, <2>1 DEF NoLater, Later
    <2>2. CASE x.cluster # c
      BY <1>1, <1>3, <2>2 DEF NoLater
    <2>3. QED
      BY <2>1, <2>2
  <1>4. ASSUME NEW d \in Clusters
        PROVE  /\ InCluster(d, objects'[d]) /\ InCluster(d, cached[d])
               /\ objects'[d].cluster = d => objects'[d].uid >= 1
               /\ NoLater(objects', cached[d])
               /\ OwnText(kind, strayed, objects'[d]) /\ OwnText(kind, strayed, cached[d])
    BY <1>1, <1>3 DEF WorldIsWell
  <1>5. QED
    BY <1>1, <1>3, <1>4 DEF WorldIsWell

(***************************************************************************)
(* The tables.                                                             *)
(***************************************************************************)
(* Three ways to save.                                                     *)
LEMMA SavesOneWay == ASSUME NEW k \in KubeKinds PROVE Pages[k].saves \in {"blind", "merge", "form"}
  BY SMTT(60) DEF KubeKinds, Pages, Namespaced, Unnamespaced, ClusterrolePage, ClusterrolebindingPage,
     ConfigmapPage, CrdPage, CronjobPage, DaemonsetPage, DeploymentPage, EndpointPage, HpaPage,
     IngressPage, JobPage, NamespacePage, PodPage, PvcPage, ReplicasetPage, RolePage,
     RolebindingPage, SecretPage, ServicePage, ServiceaccountPage, StatefulsetPage,
     StorageclassPage, NodePage, PersistentvolumePage

(* The template of a migration looks for its owner where it was created.   *)
LEMMA OwnersAreFound ==
  ASSUME NEW k \in KubeKinds, "migrate" \in Rows[k]
  PROVE  Migrations[k].creates = Migrations[k].owner
  <1>1. k \in DOMAIN Migrations
    BY SMTT(60) DEF KubeKinds, Pages, Migrations, Rows, ClusterroleRows, ClusterrolebindingRows,
       CrdRows, EndpointRows, JobRows, NamespaceRows, PodRows, ReplicasetRows, RoleRows,
       RolebindingRows, ServiceaccountRows, StorageclassRows, NodeRows, PersistentvolumeRows
  <1>2. QED
    BY <1>1, SMTT(60) DEF Migrations, Migration, ConfigmapMigration, CronjobMigration,
       DaemonsetMigration, DeploymentMigration, HpaMigration, IngressMigration, PvcMigration,
       SecretMigration, ServiceMigration, StatefulsetMigration

(***************************************************************************)
(* What a step leaves as it was.                                           *)
(***************************************************************************)
(* The types of all but the requests.                                      *)
Editors == [mode : {"closed", "edit", "create"}, obj : Objects, busy : BOOLEAN]
RestTyped ==
  /\ kind \in Kinds /\ load \in Workloads
  /\ objects \in [Clusters -> Objects] /\ cached \in [Clusters -> Objects]
  /\ chosen \in Clusters \cup {NoCluster}
  /\ memory \in [cluster : Clusters \cup {NoCluster}, scope : {"all", "other"}]
  /\ scope \in {"all", "other"}
  /\ shown \subseteq Objects /\ box \in Objects
  /\ editor \in Editors
  /\ dialog \in [open : BOOLEAN, app : BOOLEAN, busy : BOOLEAN, obj : Objects]
  /\ made \in Seq([resource : Objects, template : Objects])
  /\ acts \in 0..MaxActs
  /\ failed \in BOOLEAN /\ muddled \in BOOLEAN /\ strayed \in BOOLEAN /\ hurried \in BOOLEAN

(* The two parts of TypeOK.                                                *)
LEMMA TypeIs == TypeOK <=> RestTyped /\ NetTyped
  BY DEF TypeOK, RestTyped, NetTyped, AskTyped, Editors

(* The same after a step.                                                  *)
LEMMA TypeIsThen == ASSUME RestTyped', NetTyped' PROVE TypeOK'
  BY DEF TypeOK, RestTyped, NetTyped, AskTyped, Editors

(* The administrator has acted once more, within the bound.                *)
LEMMA Acted == ASSUME TypeOK, NEW name, Acts(name) PROVE acts' \in 0..MaxActs
  BY KubeAssumption DEF TypeOK, Acts

(* Where a cluster is chosen there is nothing to show.                     *)
LEMMA ChosenAtLast == ASSUME chosen' \in Clusters PROVE NothingYet'
  BY KubeAssumption DEF NothingYet

(* Before, all that is under way is the request for the clusters.          *)
LEMMA NothingStays ==
  ASSUME NothingYet, NEW i, NEW Q, Moved(net', net, i, Q),
         \A q \in Q : \E k \in DOMAIN net : q.call = net[k].call,
         UNCHANGED <<chosen, shown, box, dialog>>, editor'.mode = editor.mode
  PROVE  NothingYet'
  <1>1. \A j \in DOMAIN net' : \E k \in DOMAIN net : net'[j].call = net[k].call
    BY DEF Moved, Like
  <1>2. QED
    BY <1>1 DEF NothingYet

(* The editor is as it was, or has been closed.                            *)
StaysOrCloses(f, e) ==
  /\ f \in Editors /\ f.obj \in {e.obj, Nothing}
  /\ f.mode = "edit" => e.mode = "edit" /\ f.obj = e.obj

(* What the page has is well where it was.                                 *)
LEMMA PageStaysWell ==
  ASSUME TypeOK, PageIsWell, EditorIsWell, UNCHANGED kind, strayed => strayed',
         \A x \in Objects : NoLater(objects, x) => NoLater(objects', x),
         shown' \subseteq shown, box' = box, StaysOrCloses(editor', editor), dialog'.obj = dialog.obj
  PROVE  PageIsWell' /\ EditorIsWell'
  <1>1. /\ shown \subseteq Objects /\ box \in Objects /\ editor.obj \in Objects
        /\ dialog.obj \in Objects
    BY DEF TypeOK
  <1>2. ASSUME NEW x \in Objects, ReadWell(objects, kind, strayed, x)
        PROVE  ReadWell(objects', kind', strayed', x)
    BY <1>2, ReadStaysWell
  <1>3. PageIsWell'
    BY <1>1, <1>2 DEF PageIsWell
  <1>4. EditorIsWell'
    <2>1. ReadWell(objects', kind', strayed', Nothing)
      BY NothingIsWell
    <2>2. QED
      BY <1>1, <1>2, <2>1 DEF EditorIsWell, StaysOrCloses
  <1>5. QED
    BY <1>3, <1>4

(* While another request will ask for a list, the lists do not matter.     *)
LEMMA WillAskStays ==
  ASSUME NEW i, NEW Q, Moved(net', net, i, Q), WillAsk,
         i \in DOMAIN net /\ net[i].call \in {"clusters", "names"} \cup Changes =>
           \E q \in Q : q.call = net[i].call
  PROVE  WillAsk'
  <1>1. PICK k \in DOMAIN net : net[k].call \in {"clusters", "names"} \cup Changes
    BY DEF WillAsk
  <1>2. CASE k = i
    BY <1>1, <1>2 DEF Moved, WillAsk
  <1>3. CASE k # i
    BY <1>1, <1>3 DEF Moved, WillAsk, Like
  <1>4. QED
    BY <1>2, <1>3

(* The list is as it was, and so is what it is compared with.              *)
LatestOne(q, f, w, c, s, x) ==
  f \/ w \/ (q.cluster = c /\ q.scope = s /\ (q.at = "served" => q.obj = x))
(* A step that leaves the list alone keeps what is known of it.            *)
LEMMA ListStays ==
  ASSUME ShownOrAwaited, LatestIsRight, NEW i, NEW Q, Moved(net', net, i, Q),
         UNCHANGED <<objects, chosen, scope, shown, muddled>>, failed => failed',
         i \in DOMAIN net /\ net[i].call \in {"clusters", "names", "list"} \cup Changes =>
           \E q \in Q : q.call = net[i].call,
         \A q \in Q : q.call = "list" /\ q.latest =>
           LatestOne(q, failed', WillAsk', chosen', scope', Right(chosen, scope)')
  PROVE  ShownOrAwaited' /\ LatestIsRight'
  <1>1. WillAsk => WillAsk'
    BY WillAskStays
  <1>2. (\E k \in DOMAIN net : net[k].call = "list") => \E j \in DOMAIN net' : net'[j].call = "list"
    <2>1. ASSUME NEW k \in DOMAIN net, net[k].call = "list"
          PROVE  \E j \in DOMAIN net' : net'[j].call = "list"
      <3>1. CASE k = i
        BY <2>1, <3>1 DEF Moved
      <3>2. CASE k # i
        BY <2>1, <3>2 DEF Moved, Like
      <3>3. QED
        BY <3>1, <3>2
    <2>2. QED
      BY <2>1
  <1>3. ShownOrAwaited'
    BY <1>1, <1>2 DEF ShownOrAwaited, Right
  <1>4. ASSUME NEW j \in DOMAIN net', net'[j].call = "list", net'[j].latest
        PROVE  LatestOne(net'[j], failed', WillAsk', chosen', scope', Right(chosen, scope)')
    <2>1. CASE net'[j] \in Q
      BY <1>4, <2>1 DEF LatestOne
    <2>2. ASSUME NEW k \in DOMAIN net, Like(net'[j], net[k])
          PROVE  LatestOne(net'[j], failed', WillAsk', chosen', scope', Right(chosen, scope)')
      <3>1. LatestOne(net[k], failed, WillAsk, chosen, scope, Right(chosen, scope))
        BY <1>4, <2>2 DEF Like, LatestIsRight, LatestOne
      <3>2. QED
        BY <1>1, <2>2, <3>1 DEF Like, LatestOne, Right
    <2>3. QED
      BY <2>1, <2>2 DEF Moved
  <1>5. QED
    BY <1>3, <1>4 DEF LatestIsRight, LatestOne

(* A request that changes an object will ask for the list.                 *)
LEMMA ListWillCome ==
  ASSUME NEW n \in Seq(Requests), NEW i, NEW Q, Moved(net', n, i, Q),
         NEW q \in Q, q.call \in {"clusters", "names"} \cup Changes
  PROVE  ShownOrAwaited' /\ LatestIsRight'
  <1>1. WillAsk'
    BY DEF Moved, WillAsk
  <1>2. QED
    BY <1>1 DEF ShownOrAwaited, LatestIsRight

(* No migration takes part in the step.                                    *)
LEMMA MigrationStays ==
  ASSUME MigrationIsOffered, OneMigration, NEW i, NEW Q, Moved(net', net, i, Q),
         i \in DOMAIN net => ~Migrates(net[i]), \A q \in Q : ~Migrates(q),
         UNCHANGED <<kind, dialog, made, hurried>>, failed => failed'
  PROVE  MigrationIsOffered' /\ OneMigration'
  <1>1. \A j \in DOMAIN net' : Migrates(net'[j]) => \E k \in DOMAIN net : Like(net'[j], net[k])
    BY DEF Moved
  <1>2. MigrationIsOffered'
    BY <1>1 DEF MigrationIsOffered, Like, Migrates
  <1>3. ASSUME ~hurried', NEW j \in DOMAIN net', NEW l \in DOMAIN net',
               Migrates(net'[j]), Migrates(net'[l]), j # l
        PROVE  FALSE
    <2>1. \E k, h \in DOMAIN net \ {i} : k # h /\ Like(net'[j], net[k]) /\ Like(net'[l], net[h])
      BY <1>3 DEF Moved
    <2>2. QED
      BY <1>3, <2>1 DEF OneMigration, Migrates, Like
  <1>4. ASSUME ~hurried', NEW j \in DOMAIN net'
        PROVE  /\ net'[j].call = "resource" =>
                    /\ ~dialog'.open /\ dialog'.app /\ dialog'.obj = net'[j].obj
                    /\ net'[j].at = "served" => made'[net'[j].n].resource = net'[j].obj
               /\ net'[j].call = "template" =>
                    /\ made'[net'[j].n].resource = net'[j].obj
                    /\ net'[j].at = "served" => Whole(made'[net'[j].n])
    <2>1. CASE ~Migrates(net'[j])
      BY <2>1 DEF Migrates
    <2>2. ASSUME NEW k \in DOMAIN net, Like(net'[j], net[k])
          PROVE  /\ net'[j].call = "resource" =>
                      /\ ~dialog'.open /\ dialog'.app /\ dialog'.obj = net'[j].obj
                      /\ net'[j].at = "served" => made'[net'[j].n].resource = net'[j].obj
                 /\ net'[j].call = "template" =>
                      /\ made'[net'[j].n].resource = net'[j].obj
                      /\ net'[j].at = "served" => Whole(made'[net'[j].n])
      BY <1>4, <2>2 DEF OneMigration, Like
    <2>3. QED
      BY <1>1, <2>1, <2>2
  <1>5. ASSUME ~hurried', ~failed', NEW n \in DOMAIN made'
        PROVE  \/ Whole(made'[n])
               \/ \E j \in DOMAIN net' : net'[j].call \in {"resource", "template"} /\ net'[j].n = n
    <2>1. CASE Whole(made[n])
      BY <2>1
    <2>2. ASSUME NEW k \in DOMAIN net, net[k].call \in {"resource", "template"}, net[k].n = n
          PROVE  \E j \in DOMAIN net' : net'[j].call \in {"resource", "template"} /\ net'[j].n = n
      <3>1. k # i
        BY <2>2 DEF Migrates
      <3>2. QED
        BY <2>2, <3>1 DEF Moved, Like
    <2>3. QED
      BY <1>5, <2>1, <2>2 DEF OneMigration
  <1>6. OneMigration'
    BY <1>3, <1>4, <1>5 DEF OneMigration
  <1>7. QED
    BY <1>2, <1>6

(***************************************************************************)
(* Asking for a list.                                                      *)
(***************************************************************************)
(* A list of s in c is asked for, or first the names of the namespaces.    *)
AsksFor(q, c, s) ==
  /\ q \in Requests /\ q.call \in {"names", "list"} /\ q.cluster = c
  /\ q.call = "list" => q.scope = s
  /\ q.obj = Nothing /\ q.at = "sent"
Asks(i, c, s) == \E q \in Requests : AsksFor(q, c, s) /\ Moved(net', net, i, {q}) /\ Overtakes(net', q)

Memory == [cluster : Clusters \cup {NoCluster}, scope : {"all", "other"}]

(* retrieveResource asks for the list, if a cluster is chosen.             *)
LEMMA RetrievesAsks ==
  ASSUME TypeOK, NEW n \in Seq(Requests), NEW i, Moved(n, net, i, {}), NEW m \in Memory,
         NEW c \in Clusters \cup {NoCluster}, NEW s \in {"all", "other"}, Retrieves(n, m, c, s)
  PROVE  /\ memory' \in Memory
         /\ c = NoCluster => net' = n
         /\ c # NoCluster => Asks(i, c, s)
  <1> DEFINE q == AskList(c, s)
  <1>1. /\ q \in Requests /\ q.call = "list" /\ q.cluster = c /\ q.scope = s
        /\ q.obj = Nothing /\ q.at = "sent"
    BY AskListIs
  <1>2. CASE c = NoCluster
    BY <1>2 DEF Retrieves
  <1>3. CASE c # NoCluster
    <2>1. Sends(n, q) /\ memory' = [m EXCEPT !.scope = IF Pages[kind].scoped THEN s ELSE @]
      BY <1>3 DEF Retrieves, AskList
    <2> HIDE DEF q
    <2>2. memory' \in Memory
      BY <2>1 DEF Memory
    <2>3. net \in Seq(Requests)
      BY DEF TypeOK
    <2>4. Moved(net', net, i, {q}) /\ Overtakes(net', q)
      BY <1>1, <2>1, <2>3, SendsMoved
    <2>5. Asks(i, c, s)
      BY <1>1, <2>4 DEF Asks, AsksFor
    <2>6. QED
      BY <1>3, <2>2, <2>5
  <1>4. QED
    BY <1>2, <1>3

(* jumpToHref asks for the list, or for the names first.                   *)
LEMMA JumpsAsks ==
  ASSUME TypeOK, NEW n \in Seq(Requests), NEW i, Moved(n, net, i, {}), NEW c \in Clusters, Jumps(n, c)
  PROVE  memory' \in Memory /\ chosen' = c /\ Asks(i, c, scope)
  <1> DEFINE m == [memory EXCEPT !.cluster = c]
  <1>1. m \in Memory /\ scope \in {"all", "other"} /\ net \in Seq(Requests)
    BY DEF TypeOK, Memory
  <1>2. /\ chosen' = c
        /\ IF Pages[kind].scoped THEN Sends(n, Ask("names", c, Nothing)) /\ memory' = m
                                 ELSE Retrieves(n, m, c, scope)
    BY DEF Jumps
  <1> HIDE DEF m
  <1>3. CASE Pages[kind].scoped
    <2> DEFINE q == Ask("names", c, Nothing)
    <2>1. c \in Clusters \cup {NoCluster}
      OBVIOUS
    <2>2. q \in Requests /\ q.call = "names" /\ q.cluster = c /\ q.obj = Nothing /\ q.at = "sent"
      BY <2>1, AskNamesIs
    <2>3. Sends(n, q)
      BY <1>2, <1>3
    <2> HIDE DEF q
    <2>4. Moved(net', net, i, {q}) /\ Overtakes(net', q)
      BY <1>1, <2>2, <2>3, SendsMoved
    <2>5. Asks(i, c, scope)
      BY <2>2, <2>4 DEF Asks, AsksFor
    <2>6. QED
      BY <1>1, <1>2, <1>3, <2>5
  <1>4. CASE ~Pages[kind].scoped
    <2>1. c # NoCluster
      BY KubeAssumption
    <2>2. QED
      BY <1>1, <1>2, <1>4, <2>1, RetrievesAsks
  <1>5. QED
    BY <1>3, <1>4

(* A step that asks for the list of what is chosen by then, and takes the  *)
(* answer of a request that is not for a migration, if it takes one.       *)
LEMMA AsksStep ==
  ASSUME KubeInv, NEW i, i \in DOMAIN net => ~Migrates(net[i]),
         Asks(i, chosen', scope'), chosen' \in Clusters, scope' \in {"all", "other"},
         memory' \in Memory, acts' \in 0..MaxActs,
         StaysOrCloses(editor', editor),
         UNCHANGED <<kind, load, world, shown, box, dialog, history>>
  PROVE  KubeInv'
  <1>1. PICK q \in Requests : /\ AsksFor(q, chosen', scope') /\ Moved(net', net, i, {q})
                              /\ Overtakes(net', q)
    BY DEF Asks
  <1> USE DEF world, history
  <1>2. TypeOK /\ NetTyped /\ RestTyped
    BY TypeIs DEF KubeInv
  <1>3. RestTyped'
    BY <1>2 DEF RestTyped, Memory, StaysOrCloses
  <1>4. AskTyped(q, DOMAIN made')
    BY <1>1 DEF AskTyped, AsksFor
  <1>5. NetTyped'
    BY <1>1, <1>2, <1>4, NetStaysTyped
  <1>6. TypeOK' /\ NothingYet'
    BY <1>3, <1>5, TypeIsThen, ChosenAtLast
  <1>7. WorldIsWell' /\ PageIsWell' /\ EditorIsWell'
    BY <1>2, WorldStaysWell, PageStaysWell DEF KubeInv
  <1>8. Asked(objects', kind, strayed', q)
    <2>1. ReadWell(objects', kind, strayed', Nothing)
      BY NothingIsWell
    <2>2. QED
      BY <1>1, <2>1 DEF AsksFor, Asked, ReadWell
  <1>9. NetIsWell'
    BY <1>1, <1>2, <1>8, NetStaysWell DEF KubeInv
  <1>10. MigrationIsOffered' /\ OneMigration'
    <2>1. ~Migrates(q)
      BY <1>1 DEF AsksFor, Migrates
    <2>2. QED
      BY <1>1, <2>1, MigrationStays DEF KubeInv
  <1>11. ShownOrAwaited' /\ LatestIsRight'
    <2>1. CASE q.call = "names"
      <3>1. net \in Seq(Requests)
        BY <1>2 DEF NetTyped
      <3>2. QED
        BY <1>1, <2>1, <3>1, ListWillCome
    <2>2. CASE q.call = "list"
      <3>1. \E j \in DOMAIN net' : net'[j].call = "list"
        BY <1>1, <2>2 DEF Moved
      <3>2. ShownOrAwaited'
        BY <3>1 DEF ShownOrAwaited
      <3>3. LatestIsRight'
        BY <1>1, <2>2 DEF LatestIsRight, Overtakes, AsksFor
      <3>4. QED
        BY <3>2, <3>3
    <2>3. QED
      BY <1>1, <2>1, <2>2 DEF AsksFor
  <1>12. QED
    BY <1>6, <1>7, <1>9, <1>10, <1>11 DEF KubeInv

(* Nothing that the invariant speaks of changes, but the count.            *)
LEMMA IdleStep ==
  ASSUME KubeInv, acts' \in 0..MaxActs, memory' \in Memory,
         UNCHANGED <<kind, load, world, chosen, scope, shown, box, editor, dialog, net, history>>
  PROVE  KubeInv'
  <1> USE DEF world, history
  <1>1. TypeOK'
    BY DEF KubeInv, TypeOK, Memory
  <1>2. NothingYet' /\ WorldIsWell' /\ EditorIsWell' /\ PageIsWell' /\ NetIsWell'
    BY DEF KubeInv, NothingYet, WorldIsWell, EditorIsWell, PageIsWell, NetIsWell
  <1>3. ShownOrAwaited' /\ LatestIsRight'
    BY DEF KubeInv, ShownOrAwaited, LatestIsRight, WillAsk, Right
  <1>4. MigrationIsOffered' /\ OneMigration'
    BY DEF KubeInv, MigrationIsOffered, OneMigration
  <1>5. QED
    BY <1>1, <1>2, <1>3, <1>4 DEF KubeInv

(* The fields of the closed editor.                                        *)
LEMMA ClosedIs ==
  /\ NoEditor \in Editors /\ NoEditor.obj = Nothing /\ NoEditor.mode = "closed"
  BY NothingIs DEF NoEditor, Editors

(* The saves of a form that is left: their marks change, no more.          *)
LEMMA LeaveMoved ==
  ASSUME NEW n \in Seq(Requests)
  PROVE  /\ Leave(n) \in Seq(Requests)
         /\ \A k \in Seq(Requests) : \A i : Moved(n, k, i, {}) => Moved(Leave(n), k, i, {})
  <1> DEFINE o == Leave(n)
  <1>1. o = [j \in DOMAIN n |-> IF OfForm(n[j]) THEN [n[j] EXCEPT !.latest = FALSE] ELSE n[j]]
    BY DEF Leave
  <1>2. ASSUME NEW j \in DOMAIN n
        PROVE  o[j] \in Requests /\ Like(o[j], n[j])
    <2>1. n[j] \in Requests
      OBVIOUS
    <2>2. QED
      BY <1>1, <2>1, MarkedIsLike, AlikeIsLike
  <1>3. DOMAIN n = 1..Len(n) /\ Len(n) \in Nat /\ DOMAIN o = DOMAIN n
    BY <1>1
  <1>4. o \in [1..Len(n) -> Requests]
    BY <1>1, <1>2, <1>3
  <1> HIDE DEF o
  <1>5. o \in Seq(Requests)
    BY <1>3, <1>4
  <1>6. ASSUME NEW k \in Seq(Requests), NEW i, Moved(n, k, i, {})
        PROVE  Moved(o, k, i, {})
    <2>1. \A j \in DOMAIN n : \A h \in DOMAIN k : Like(n[j], k[h]) => Like(o[j], k[h])
      BY <1>2 DEF Like
    <2>2. QED
      BY <1>3, <1>5, <1>6, <2>1 DEF Moved
  <1>7. QED
    BY <1>5, <1>6 DEF o

(* An editor that is left alone.                                           *)
LEMMA EditorStays ==
  ASSUME TypeOK, editor' = editor
  PROVE  StaysOrCloses(editor', editor)
  BY DEF TypeOK, StaysOrCloses, Editors

(* The list is asked for again.                                            *)
LEMMA RefreshKeeps == ASSUME KubeInv, Refresh PROVE KubeInv'
  <1>1. TypeOK /\ acts' \in 0..MaxActs
    BY Acted DEF Refresh, KubeInv
  <1>2. /\ net \in Seq(Requests) /\ memory \in Memory /\ scope \in {"all", "other"}
        /\ chosen \in Clusters \cup {NoCluster}
    BY <1>1 DEF TypeOK, Memory
  <1>3. Moved(net, net, 0, {})
    BY <1>2, NothingMoves
  <1>4. Retrieves(net, memory, chosen, scope)
    BY DEF Refresh
  <1>5. /\ memory' \in Memory
        /\ chosen = NoCluster => net' = net
        /\ chosen # NoCluster => Asks(0, chosen, scope)
    BY <1>1, <1>2, <1>3, <1>4, RetrievesAsks
  <1>6. CASE chosen = NoCluster
    BY <1>1, <1>5, <1>6, IdleStep DEF Refresh
  <1>7. CASE chosen # NoCluster
    <2>1. 0 \notin DOMAIN net
      BY <1>2
    <2>2. chosen' = chosen /\ scope' = scope
      BY DEF Refresh
    <2>3. QED
      BY <1>1, <1>2, <1>5, <1>7, <2>1, <2>2, EditorStays, AsksStep DEF Refresh
  <1>8. QED
    BY <1>6, <1>7

(* Another cluster is chosen, and its list asked for.                      *)
LEMMA SwitchKeeps == ASSUME KubeInv, NEW c \in Clusters, Switch(c) PROVE KubeInv'
  <1>1. TypeOK /\ acts' \in 0..MaxActs
    BY Acted DEF Switch, KubeInv
  <1>2. net \in Seq(Requests) /\ scope \in {"all", "other"}
    BY <1>1 DEF TypeOK
  <1>3. Moved(net, net, 0, {}) /\ 0 \notin DOMAIN net
    BY <1>2, NothingMoves
  <1>4. memory' \in Memory /\ chosen' = c /\ Asks(0, c, scope)
    BY <1>1, <1>2, <1>3, JumpsAsks DEF Switch
  <1>5. scope' = scope
    BY DEF Switch
  <1>6. QED
    BY <1>1, <1>2, <1>3, <1>4, <1>5, EditorStays, AsksStep DEF Switch

(* Another namespace is chosen, and its list asked for.                    *)
LEMMA ScopeKeeps == ASSUME KubeInv, NEW s \in {"all", "other"}, Scope(s) PROVE KubeInv'
  <1>1. TypeOK /\ acts' \in 0..MaxActs
    BY Acted DEF Scope, KubeInv
  <1>2. /\ net \in Seq(Requests) /\ memory \in Memory /\ chosen \in Clusters /\ chosen # NoCluster
        /\ scope' = s /\ chosen' = chosen
    BY <1>1 DEF TypeOK, Memory, Scope
  <1>3. Moved(net, net, 0, {}) /\ 0 \notin DOMAIN net
    BY <1>2, NothingMoves
  <1>4. memory' \in Memory /\ Asks(0, chosen, s)
    BY <1>1, <1>2, <1>3, RetrievesAsks DEF Scope
  <1>5. QED
    BY <1>1, <1>2, <1>3, <1>4, EditorStays, AsksStep DEF Scope

(* After an answer was taken.                                              *)
LEMMA TakenIs ==
  ASSUME KubeInv, NEW i \in DOMAIN net
  PROVE  /\ TypeOK /\ NetTyped /\ RestTyped /\ net[i] \in Requests
         /\ Rest(i) \in Seq(Requests) /\ Moved(Rest(i), net, i, {})
         /\ AskTyped(net[i], DOMAIN made) /\ Asked(objects, kind, strayed, net[i])
         /\ chosen = NoCluster => net[i].call = "clusters"
         /\ acts \in 0..MaxActs /\ memory \in Memory /\ scope \in {"all", "other"}
         /\ chosen \in Clusters \cup {NoCluster}
  <1>1. TypeOK /\ NetTyped /\ RestTyped
    BY TypeIs DEF KubeInv
  <1>2. net \in Seq(Requests) /\ net[i] \in Requests
    BY <1>1 DEF NetTyped
  <1>3. Rest(i) \in Seq(Requests) /\ Moved(Rest(i), net, i, {})
    BY <1>2, RestMoved DEF Rest
  <1>4. /\ AskTyped(net[i], DOMAIN made) /\ Asked(objects, kind, strayed, net[i])
        /\ chosen = NoCluster => net[i].call = "clusters"
    BY <1>1 DEF KubeInv, NetTyped, NetIsWell, NothingYet
  <1>5. QED
    BY <1>1, <1>2, <1>3, <1>4 DEF RestTyped, Memory

(* The first cluster is chosen, and its list asked for.                    *)
LEMMA ClustersAnsweredKeeps ==
  ASSUME KubeInv, NEW i \in DOMAIN net, ClustersAnswered(i)
  PROVE  KubeInv'
  <1>1. PICK c \in Clusters : Jumps(Rest(i), c)
    BY DEF ClustersAnswered
  <1>2. memory' \in Memory /\ chosen' = c /\ Asks(i, c, scope)
    BY <1>1, TakenIs, JumpsAsks
  <1>3. ~Migrates(net[i]) /\ scope' = scope
    BY DEF ClustersAnswered, Answers, Migrates
  <1>4. acts' \in 0..MaxActs /\ scope \in {"all", "other"}
    BY TakenIs DEF ClustersAnswered
  <1>5. QED
    BY <1>2, <1>3, <1>4, TakenIs, EditorStays, AsksStep DEF ClustersAnswered

(* The names have come, and the list is asked for.                         *)
LEMMA NamesAnsweredKeeps ==
  ASSUME KubeInv, NEW i \in DOMAIN net, NamesAnswered(i)
  PROVE  KubeInv'
  <1>1. net[i].call = "names" /\ scope' = memory.scope /\ chosen' = chosen
    BY DEF NamesAnswered, Answers
  <1>2. chosen \in Clusters /\ chosen # NoCluster /\ memory.scope \in {"all", "other"}
    BY <1>1, TakenIs, KubeAssumption DEF Memory
  <1>3. Retrieves(Rest(i), memory, chosen, memory.scope)
    BY <1>1 DEF NamesAnswered
  <1>4. memory' \in Memory /\ Asks(i, chosen, memory.scope)
    BY <1>2, <1>3, TakenIs, RetrievesAsks
  <1>5. ~Migrates(net[i]) /\ acts' \in 0..MaxActs
    BY <1>1, TakenIs DEF NamesAnswered, Migrates
  <1>6. QED
    BY <1>1, <1>2, <1>4, <1>5, TakenIs, EditorStays, AsksStep DEF NamesAnswered

(* A change has been answered, and the list is asked for.                  *)
LEMMA ChangeAnsweredKeeps ==
  ASSUME KubeInv, NEW i \in DOMAIN net, ChangeAnswered(i)
  PROVE  KubeInv'
  <1>1. net[i].call \in {"create", "delete", "update"} /\ chosen' = chosen /\ scope' = scope
    BY DEF ChangeAnswered, Answers
  <1>2. chosen \in Clusters /\ chosen # NoCluster /\ scope \in {"all", "other"}
    BY <1>1, TakenIs, KubeAssumption
  <1> DEFINE m == IF OfForm(net[i]) THEN Leave(Rest(i)) ELSE Rest(i)
  <1>3. Retrieves(m, memory, chosen, scope)
    BY DEF ChangeAnswered
  <1>4. m \in Seq(Requests) /\ Moved(m, net, i, {})
    <2>1. net \in Seq(Requests)
      BY TakenIs DEF NetTyped
    <2>2. QED
      BY <2>1, TakenIs, LeaveMoved
  <1> HIDE DEF m
  <1>5. memory' \in Memory /\ Asks(i, chosen, scope)
    BY <1>2, <1>3, <1>4, TakenIs, RetrievesAsks
  <1>6. ~Migrates(net[i]) /\ acts' \in 0..MaxActs
    BY <1>1, TakenIs DEF ChangeAnswered, Migrates
  <1>7. StaysOrCloses(editor', editor)
    <2>1. CASE OfForm(net[i])
      <3>1. editor' = NoEditor
        BY <2>1 DEF ChangeAnswered
      <3>2. QED
        BY <3>1, ClosedIs DEF StaysOrCloses
    <2>2. CASE ~OfForm(net[i])
      <3>1. editor' = editor
        BY <2>2 DEF ChangeAnswered
      <3>2. QED
        BY <3>1, EditorStays, TakenIs
    <2>3. QED
      BY <2>1, <2>2
  <1>8. UNCHANGED <<kind, load, world, shown, box, dialog, history>>
    BY DEF ChangeAnswered
  <1>9. QED
    BY <1>1, <1>2, <1>5, <1>6, <1>7, <1>8, AsksStep

(***************************************************************************)
(* The box and the editor.                                                 *)
(***************************************************************************)
(* A step at the box or the editor, which takes what was read, if it takes *)
(* an answer, and asks neither for a list nor for a migration.             *)
EditorWell(os, k, s, e) == ReadWell(os, k, s, e.obj) /\ (e.mode = "edit" => e.obj.there)
LEMMA EditorStep ==
  ASSUME KubeInv, NEW i, i \in DOMAIN net => net[i].call \in {"read", "reread"},
         NEW Q, Moved(net', net, i, Q), chosen \in Clusters,
         \A q \in Q : /\ AskTyped(q, DOMAIN made) /\ Asked(objects, kind, strayed', q)
                      /\ q.call \in Changes \cup {"read", "reread"},
         box' \in Objects, ReadWell(objects, kind, strayed', box'),
         editor' \in Editors, EditorWell(objects, kind, strayed', editor'),
         strayed' \in BOOLEAN, strayed => strayed', acts' \in 0..MaxActs,
         UNCHANGED <<kind, load, world, chosen, memory, scope, shown, dialog, failed, muddled, hurried>>
  PROVE  KubeInv'
  <1> USE DEF world
  <1>1. TypeOK /\ NetTyped /\ RestTyped
    BY TypeIs DEF KubeInv
  <1>2. RestTyped'
    BY <1>1 DEF RestTyped, Editors
  <1>3. NetTyped'
    BY <1>1, NetStaysTyped
  <1>4. TypeOK' /\ NothingYet'
    BY <1>2, <1>3, TypeIsThen, ChosenAtLast
  <1>5. WorldIsWell'
    BY WorldStaysWell DEF KubeInv
  <1>6. PageIsWell' /\ EditorIsWell'
    <2>1. ASSUME NEW x \in Objects, ReadWell(objects, kind, strayed, x)
          PROVE  ReadWell(objects', kind', strayed', x)
      BY <2>1, ReadStaysWell
    <2>2. shown \subseteq Objects /\ dialog.obj \in Objects
      BY <1>1 DEF RestTyped
    <2>3. PageIsWell'
      BY <2>1, <2>2 DEF KubeInv, PageIsWell
    <2>4. EditorIsWell'
      BY DEF EditorIsWell, EditorWell
    <2>5. QED
      BY <2>3, <2>4
  <1>7. NetIsWell'
    BY <1>1, NetStaysWell DEF KubeInv
  <1>8. ShownOrAwaited' /\ LatestIsRight'
    BY ListStays DEF KubeInv, Changes
  <1>9. MigrationIsOffered' /\ OneMigration'
    <2>1. /\ i \in DOMAIN net => ~Migrates(net[i])
          /\ \A q \in Q : ~Migrates(q)
      BY DEF Migrates, Changes
    <2>2. QED
      BY <2>1, MigrationStays DEF KubeInv
  <1>10. QED
    BY <1>4, <1>5, <1>6, <1>7, <1>8, <1>9 DEF KubeInv

(* What holds of the page before a step.                                   *)
LEMMA PageIs ==
  ASSUME KubeInv
  PROVE  /\ TypeOK /\ net \in Seq(Requests) /\ Moved(net, net, 0, {}) /\ 0 \notin DOMAIN net
         /\ box \in Objects /\ ReadWell(objects, kind, strayed, box)
         /\ editor \in Editors /\ EditorWell(objects, kind, strayed, editor)
         /\ dialog.obj \in Objects /\ ReadWell(objects, kind, strayed, dialog.obj)
         /\ shown \subseteq Objects
         /\ \A x \in shown : ReadWell(objects, kind, strayed, x)
         /\ chosen \in Clusters \cup {NoCluster} /\ strayed \in BOOLEAN /\ acts \in 0..MaxActs
         /\ shown # {} \/ box # Nothing \/ editor.mode # "closed" \/ dialog.open => chosen \in Clusters
         /\ kind \in KubeKinds
  <1>1. TypeOK /\ net \in Seq(Requests)
    BY DEF KubeInv, TypeOK
  <1>2. Moved(net, net, 0, {}) /\ 0 \notin DOMAIN net
    BY <1>1, NothingMoves
  <1>3. /\ box \in Objects /\ editor \in Editors /\ dialog.obj \in Objects /\ shown \subseteq Objects
        /\ chosen \in Clusters \cup {NoCluster} /\ strayed \in BOOLEAN /\ acts \in 0..MaxActs
        /\ kind \in KubeKinds
    BY <1>1, KubeAssumption DEF TypeOK, Editors
  <1>4. /\ ReadWell(objects, kind, strayed, box) /\ EditorWell(objects, kind, strayed, editor)
        /\ ReadWell(objects, kind, strayed, dialog.obj)
        /\ \A x \in shown : ReadWell(objects, kind, strayed, x)
    BY DEF KubeInv, PageIsWell, EditorIsWell, EditorWell
  <1>5. shown # {} \/ box # Nothing \/ editor.mode # "closed" \/ dialog.open => chosen \in Clusters
    BY <1>3 DEF KubeInv, NothingYet
  <1>6. QED
    BY <1>1, <1>2, <1>3, <1>4, <1>5

(* What is closed is well.                                                 *)
LEMMA ClosedIsWell ==
  ASSUME NEW os, NEW k, NEW s
  PROVE  ReadWell(os, k, s, Nothing) /\ EditorWell(os, k, s, NoEditor)
  BY NothingIsWell, ClosedIs DEF EditorWell

(* The box asks about a row that is shown.                                 *)
LEMMA AskDeleteKeeps == ASSUME KubeInv, NEW r \in shown, AskDelete(r) PROVE KubeInv'
  <1>1. chosen \in Clusters /\ acts' \in 0..MaxActs
    BY PageIs, Acted DEF AskDelete
  <1>2. /\ box' = r /\ editor' = editor /\ net' = net /\ strayed' = strayed
        /\ UNCHANGED <<kind, load, world, chosen, memory, scope, shown, dialog, failed, muddled, hurried>>
    BY DEF AskDelete, history
  <1>3. box' \in Objects /\ ReadWell(objects, kind, strayed', box')
    BY <1>2, PageIs
  <1>4. editor' \in Editors /\ EditorWell(objects, kind, strayed', editor')
    BY <1>2, PageIs
  <1>5. Moved(net', net, 0, {}) /\ 0 \notin DOMAIN net /\ strayed' \in BOOLEAN
    BY <1>2, PageIs
  <1>6. QED
    BY <1>1, <1>2, <1>3, <1>4, <1>5, EditorStep

(* The box is declined.                                                    *)
LEMMA DeclineKeeps == ASSUME KubeInv, Decline PROVE KubeInv'
  <1>1. chosen \in Clusters
    BY PageIs DEF Decline
  <1>2. /\ box' = Nothing /\ editor' = editor /\ net' = net /\ strayed' = strayed /\ acts' = acts
        /\ UNCHANGED <<kind, load, world, chosen, memory, scope, shown, dialog, failed, muddled, hurried>>
    BY DEF Decline, history
  <1>3. box' \in Objects /\ ReadWell(objects, kind, strayed', box')
    BY <1>2, NothingIs, ClosedIsWell
  <1>4. editor' \in Editors /\ EditorWell(objects, kind, strayed', editor') /\ acts' \in 0..MaxActs
    BY <1>2, PageIs
  <1>5. Moved(net', net, 0, {}) /\ 0 \notin DOMAIN net /\ strayed' \in BOOLEAN
    BY <1>2, PageIs
  <1>6. QED
    BY <1>1, <1>2, <1>3, <1>4, <1>5, EditorStep

(* The editor opens for a new object.                                      *)
LEMMA CreateKeeps == ASSUME KubeInv, Create PROVE KubeInv'
  <1>1. chosen \in Clusters /\ acts' \in 0..MaxActs
    BY PageIs, Acted DEF Create
  <1>2. /\ box' = box /\ editor' = [NoEditor EXCEPT !.mode = "create"] /\ net' = net
        /\ strayed' = strayed
        /\ UNCHANGED <<kind, load, world, chosen, memory, scope, shown, dialog, failed, muddled, hurried>>
    BY DEF Create, history
  <1>3. box' \in Objects /\ ReadWell(objects, kind, strayed', box')
    BY <1>2, PageIs
  <1>4. editor' \in Editors /\ EditorWell(objects, kind, strayed', editor')
    <2>1. /\ editor' \in Editors /\ editor'.mode = "create" /\ editor'.obj = Nothing
      BY <1>2, ClosedIs DEF Editors
    <2>2. QED
      BY <2>1, ClosedIsWell DEF EditorWell
  <1>5. Moved(net', net, 0, {}) /\ 0 \notin DOMAIN net /\ strayed' \in BOOLEAN
    BY <1>2, PageIs
  <1>6. QED
    BY <1>1, <1>2, <1>3, <1>4, <1>5, EditorStep

(* The editor is closed.                                                   *)
LEMMA CloseEditorKeeps == ASSUME KubeInv, CloseEditor PROVE KubeInv'
  <1>1. chosen \in Clusters
    BY PageIs DEF CloseEditor
  <1>2. /\ box' = box /\ editor' = NoEditor /\ net' = Leave(net)
        /\ strayed' = strayed /\ acts' = acts
        /\ UNCHANGED <<kind, load, world, chosen, memory, scope, shown, dialog, failed, muddled, hurried>>
    BY DEF CloseEditor, history
  <1>3. box' \in Objects /\ ReadWell(objects, kind, strayed', box') /\ acts' \in 0..MaxActs
    BY <1>2, PageIs
  <1>4. editor' \in Editors /\ EditorWell(objects, kind, strayed', editor')
    BY <1>2, ClosedIs, ClosedIsWell
  <1>5. Moved(net', net, 0, {}) /\ 0 \notin DOMAIN net /\ strayed' \in BOOLEAN
    BY <1>2, PageIs, LeaveMoved
  <1>6. QED
    BY <1>1, <1>2, <1>3, <1>4, <1>5, EditorStep

(* A request with an object that was read.                                 *)
LEMMA SentIsWell ==
  ASSUME TypeOK, NEW x \in Objects, NEW k, NEW s, ReadWell(objects, k, s, x), NEW c \in Clusters,
         NEW call \in {"create", "delete", "update", "read", "reread"},
         call \in {"update", "reread"} => x.there,
         call = "reread" => Pages[k].saves = "merge" /\ (~s => x.cluster = c)
  PROVE  /\ Ask(call, c, x) \in Requests
         /\ AskTyped(Ask(call, c, x), DOMAIN made)
         /\ Asked(objects, k, s, Ask(call, c, x))
         /\ Ask(call, c, x).call \in Changes \cup {"read", "reread"}
  <1>1. call \in Calls /\ c \in Clusters \cup {NoCluster}
    BY DEF Calls, Gets
  <1> DEFINE q == Ask(call, c, x)
  <1>2. q \in Requests /\ q.call = call /\ q.cluster = c /\ q.obj = x /\ q.at = "sent"
    <2>1. q \in Requests
      BY <1>1, AskIs
    <2>2. QED
      BY <1>1, <2>1, AskIs DEF Requests
  <1> HIDE DEF q
  <1>3. AskTyped(q, DOMAIN made)
    BY <1>2 DEF AskTyped
  <1>4. Asked(objects, k, s, q)
    BY <1>2 DEF Asked, ReadWell
  <1>5. q.call \in Changes \cup {"read", "reread"}
    BY <1>2 DEF Changes
  <1>6. QED
    BY <1>2, <1>3, <1>4, <1>5 DEF q

(* The deletion of the row in the box is sent.                             *)
LEMMA ConfirmKeeps == ASSUME KubeInv, Confirm PROVE KubeInv'
  <1> DEFINE q == Ask("delete", chosen, box)
  <1>1. chosen \in Clusters
    BY PageIs DEF Confirm
  <1>2. /\ box' = Nothing /\ editor' = editor /\ strayed' = strayed /\ acts' = acts
        /\ Sends(net, q)
        /\ UNCHANGED <<kind, load, world, chosen, memory, scope, shown, dialog, failed, muddled, hurried>>
    BY DEF Confirm, history
  <1>3. /\ q \in Requests /\ AskTyped(q, DOMAIN made) /\ Asked(objects, kind, strayed, q)
        /\ q.call \in Changes \cup {"read", "reread"}
    BY <1>1, PageIs, SentIsWell
  <1> HIDE DEF q
  <1>4. Moved(net', net, 0, {q}) /\ 0 \notin DOMAIN net
    BY <1>2, <1>3, PageIs, SendsMoved
  <1>5. box' \in Objects /\ ReadWell(objects, kind, strayed', box')
    BY <1>2, NothingIs, ClosedIsWell
  <1>6. /\ editor' \in Editors /\ EditorWell(objects, kind, strayed', editor') /\ acts' \in 0..MaxActs
        /\ strayed' \in BOOLEAN
    BY <1>2, PageIs
  <1>7. QED
    BY <1>1, <1>2, <1>3, <1>4, <1>5, <1>6, EditorStep

(* A row is read for the editor.                                           *)
LEMMA EditKeeps == ASSUME KubeInv, NEW r \in shown, Edit(r) PROVE KubeInv'
  <1> DEFINE q == Ask("read", chosen, r)
  <1>1. chosen \in Clusters /\ acts' \in 0..MaxActs
    BY PageIs, Acted DEF Edit
  <1>2. /\ box' = box /\ editor' = editor /\ strayed' = strayed
        /\ Sends(net, q)
        /\ UNCHANGED <<kind, load, world, chosen, memory, scope, shown, dialog, failed, muddled, hurried>>
    BY DEF Edit, page, history
  <1>3. /\ q \in Requests /\ AskTyped(q, DOMAIN made) /\ Asked(objects, kind, strayed, q)
        /\ q.call \in Changes \cup {"read", "reread"}
    BY <1>1, PageIs, SentIsWell
  <1> HIDE DEF q
  <1>4. Moved(net', net, 0, {q}) /\ 0 \notin DOMAIN net
    BY <1>2, <1>3, PageIs, SendsMoved
  <1>5. box' \in Objects /\ ReadWell(objects, kind, strayed', box')
    BY <1>2, PageIs
  <1>6. /\ editor' \in Editors /\ EditorWell(objects, kind, strayed', editor') /\ strayed' \in BOOLEAN
    BY <1>2, PageIs
  <1>7. QED
    BY <1>1, <1>2, <1>3, <1>4, <1>5, <1>6, EditorStep

(* What is submitted stays well.                                           *)
LEMMA SubmittedIsWell ==
  ASSUME editor \in Editors, NEW os, NEW k, NEW s, EditorWell(os, k, s, editor)
  PROVE  Submitted \in Editors /\ EditorWell(os, k, s, Submitted)
  <1>1. CASE Pages[kind].saves = "form"
    <2> DEFINE e == [editor EXCEPT !.busy = TRUE]
    <2>1. e \in Editors /\ e.obj = editor.obj /\ e.mode = editor.mode
      BY DEF Editors
    <2>2. Submitted = e
      BY <1>1 DEF Submitted
    <2> HIDE DEF e
    <2>3. QED
      BY <2>1, <2>2 DEF EditorWell
  <1>2. CASE Pages[kind].saves # "form"
    BY <1>2, ClosedIs, ClosedIsWell DEF Submitted
  <1>3. QED
    BY <1>1, <1>2

(* The creation is sent.                                                   *)
LEMMA SubmitCreateKeeps == ASSUME KubeInv, SubmitCreate PROVE KubeInv'
  <1> DEFINE q == Ask("create", chosen, Nothing)
  <1>1. chosen \in Clusters
    BY PageIs DEF SubmitCreate
  <1>2. /\ box' = box /\ editor' = Submitted /\ strayed' = strayed /\ acts' = acts
        /\ Sends(net, q)
        /\ UNCHANGED <<kind, load, world, chosen, memory, scope, shown, dialog, failed, muddled, hurried>>
    BY DEF SubmitCreate, history
  <1>3. /\ q \in Requests /\ AskTyped(q, DOMAIN made) /\ Asked(objects, kind, strayed, q)
        /\ q.call \in Changes \cup {"read", "reread"}
    BY <1>1, PageIs, SentIsWell, NothingIs, ClosedIsWell
  <1> HIDE DEF q
  <1>4. Moved(net', net, 0, {q}) /\ 0 \notin DOMAIN net
    BY <1>2, <1>3, PageIs, SendsMoved
  <1>5. box' \in Objects /\ ReadWell(objects, kind, strayed', box') /\ acts' \in 0..MaxActs
    BY <1>2, PageIs
  <1>6. /\ editor' \in Editors /\ EditorWell(objects, kind, strayed', editor') /\ strayed' \in BOOLEAN
    BY <1>2, PageIs, SubmittedIsWell
  <1>7. QED
    BY <1>1, <1>2, <1>3, <1>4, <1>5, <1>6, EditorStep

(* Without its resourceVersion an object is later than none.               *)
LEMMA BlindIsWell ==
  ASSUME KubeInv, NEW x \in Objects, NEW s, ReadWell(objects, kind, s, x), x.there
  PROVE  /\ Blind(x) \in Objects /\ Blind(x).there
         /\ NoLater(objects, Blind(x)) /\ OwnText(kind, s, Blind(x))
  <1>1. /\ Blind(x) \in Objects /\ Blind(x).there = x.there /\ Blind(x).rev = 0
        /\ Blind(x).cluster = x.cluster /\ Blind(x).uid = x.uid /\ Blind(x).text = x.text
    BY DEF Blind, Objects
  <1>2. ASSUME x.cluster \in Clusters
        PROVE  objects[x.cluster].rev >= 1 /\ objects[x.cluster].rev \in Nat
    BY <1>2 DEF KubeInv, TypeOK, Objects, WorldIsWell, InCluster
  <1>3. NoLater(objects, Blind(x))
    BY <1>1, <1>2 DEF ReadWell, NoLater
  <1>4. OwnText(kind, s, Blind(x))
    BY <1>1 DEF ReadWell, OwnText
  <1>5. QED
    BY <1>1, <1>3, <1>4

(* A text without resourceVersion, where texts are saved so.               *)
LEMMA BlindSentIsWell ==
  ASSUME KubeInv, NEW x \in Objects, NEW s, ReadWell(objects, kind, s, x), x.there,
         Pages[kind].saves = "blind", NEW c \in Clusters
  PROVE  /\ Ask("update", c, Blind(x)) \in Requests
         /\ AskTyped(Ask("update", c, Blind(x)), DOMAIN made)
         /\ Asked(objects, kind, s, Ask("update", c, Blind(x)))
         /\ Ask("update", c, Blind(x)).call \in Changes \cup {"read", "reread"}
  <1> DEFINE q == Ask("update", c, Blind(x))
  <1>1. /\ Blind(x) \in Objects /\ Blind(x).there
        /\ NoLater(objects, Blind(x)) /\ OwnText(kind, s, Blind(x))
    BY BlindIsWell
  <1>2. "update" \in Calls /\ c \in Clusters \cup {NoCluster} /\ TypeOK
    BY DEF Calls, KubeInv
  <1>3. q \in Requests /\ q.call = "update" /\ q.cluster = c /\ q.obj = Blind(x) /\ q.at = "sent"
    <2>1. q \in Requests
      BY <1>1, <1>2, AskIs
    <2>2. QED
      BY <1>1, <1>2, <2>1, AskIs DEF Requests
  <1> HIDE DEF q
  <1>4. AskTyped(q, DOMAIN made) /\ Asked(objects, kind, s, q) /\ q.call \in Changes \cup {"read", "reread"}
    BY <1>1, <1>3 DEF AskTyped, Asked, Changes
  <1>5. QED
    BY <1>3, <1>4 DEF q

(* The text is sent as the kind sends it; in another cluster it has        *)
(* strayed.                                                                *)
LEMMA SaveKeeps == ASSUME KubeInv, Save PROVE KubeInv'
  <1>1. chosen \in Clusters /\ editor.obj \in Objects /\ editor.obj.there
    BY PageIs DEF Save, Editors, EditorWell
  <1>2. /\ box' = box /\ editor' = Submitted /\ acts' = acts
        /\ strayed' = (strayed \/ (Pages[kind].saves # "form" /\ editor.obj.cluster # chosen))
        /\ UNCHANGED <<kind, load, world, chosen, memory, scope, shown, dialog, failed, muddled, hurried>>
    BY DEF Save
  <1>3. strayed' \in BOOLEAN /\ (strayed => strayed')
    BY <1>2, PageIs
  <1>4. /\ ReadWell(objects, kind, strayed', editor.obj)
        /\ ReadWell(objects, kind, strayed', box)
    <2>1. ReadWell(objects, kind, strayed, editor.obj) /\ ReadWell(objects, kind, strayed, box)
      BY PageIs DEF EditorWell
    <2>2. QED
      BY <1>3, <2>1 DEF ReadWell, OwnText
  <1>5. editor.obj.cluster \in Clusters
    BY <1>1, <1>4 DEF ReadWell, NoLater
  <1>6. \E q \in Requests :
          /\ Sends(net, q) /\ AskTyped(q, DOMAIN made) /\ Asked(objects, kind, strayed', q)
          /\ q.call \in Changes \cup {"read", "reread"}
    <2>1. CASE Pages[kind].saves = "blind"
      <3>1. Sends(net, Ask("update", chosen, Blind(editor.obj)))
        BY <2>1 DEF Save
      <3>2. QED
        BY <1>1, <1>4, <2>1, <3>1, BlindSentIsWell
    <2>2. CASE Pages[kind].saves = "merge"
      <3>1. Sends(net, Ask("reread", chosen, editor.obj))
        BY <2>2 DEF Save
      <3>2. ~strayed' => editor.obj.cluster = chosen
        BY <1>2, <2>2
      <3>3. QED
        BY <1>1, <1>4, <2>2, <3>1, <3>2, PageIs, SentIsWell
    <2>3. CASE Pages[kind].saves = "form"
      <3>1. Sends(net, Ask("update", editor.obj.cluster, editor.obj))
        BY <2>3 DEF Save
      <3>2. QED
        BY <1>1, <1>4, <1>5, <3>1, PageIs, SentIsWell
    <2>4. QED
      BY <2>1, <2>2, <2>3, PageIs, SavesOneWay
  <1>7. PICK q \in Requests :
          /\ Sends(net, q) /\ AskTyped(q, DOMAIN made) /\ Asked(objects, kind, strayed', q)
          /\ q.call \in Changes \cup {"read", "reread"}
    BY <1>6
  <1>8. Moved(net', net, 0, {q}) /\ 0 \notin DOMAIN net
    BY <1>7, PageIs, SendsMoved
  <1>9. box' \in Objects /\ ReadWell(objects, kind, strayed', box') /\ acts' \in 0..MaxActs
    BY <1>2, <1>4, PageIs
  <1>10. editor' \in Editors /\ EditorWell(objects, kind, strayed', editor')
    <2>1. editor \in Editors
      BY PageIs
    <2>2. EditorWell(objects, kind, strayed', editor)
      BY <1>1, <1>4 DEF EditorWell
    <2>3. QED
      BY <1>2, <2>1, <2>2, SubmittedIsWell
  <1>11. QED
    BY <1>1, <1>2, <1>3, <1>7, <1>8, <1>9, <1>10, EditorStep

(* The editor opens with what was read.                                    *)
LEMMA ReadAnsweredKeeps ==
  ASSUME KubeInv, NEW i \in DOMAIN net, ReadAnswered(i)
  PROVE  KubeInv'
  <1>1. /\ net[i].call = "read" /\ net[i].at = "served"
        /\ box' = box /\ editor' = [NoEditor EXCEPT !.mode = "edit", !.obj = net[i].obj]
        /\ strayed' = strayed /\ acts' = acts /\ net' = Leave(Rest(i))
        /\ UNCHANGED <<kind, load, world, chosen, memory, scope, shown, dialog, failed, muddled, hurried>>
    BY DEF ReadAnswered, Answers, history
  <1>2. /\ chosen \in Clusters /\ Moved(net', net, i, {})
        /\ net[i] \in Requests /\ Asked(objects, kind, strayed, net[i])
    <2>1. net \in Seq(Requests)
      BY TakenIs DEF NetTyped
    <2>2. QED
      BY <1>1, <2>1, TakenIs, LeaveMoved
  <1>3. editor' \in Editors /\ EditorWell(objects, kind, strayed', editor')
    <2>1. net[i].obj \in Objects
      BY <1>2 DEF Requests
    <2>2. editor' \in Editors /\ editor'.obj = net[i].obj
      BY <1>1, <2>1, ClosedIs DEF Editors
    <2>3. QED
      BY <1>1, <1>2, <2>2 DEF Asked, EditorWell, ReadWell
  <1>4. /\ box' \in Objects /\ ReadWell(objects, kind, strayed', box') /\ acts' \in 0..MaxActs
        /\ strayed' \in BOOLEAN
    BY <1>1, PageIs
  <1>5. QED
    BY <1>1, <1>2, <1>3, <1>4, EditorStep

(* What was read again is sent with the text.                              *)
LEMMA RereadAnsweredKeeps ==
  ASSUME KubeInv, NEW i \in DOMAIN net, RereadAnswered(i)
  PROVE  KubeInv'
  <1> DEFINE q == Ask("update", chosen, net[i].obj)
  <1>1. /\ net[i].call = "reread" /\ net[i].at = "served"
        /\ box' = box /\ editor' = editor /\ strayed' = strayed /\ acts' = acts
        /\ Sends(Rest(i), q)
        /\ UNCHANGED <<kind, load, world, chosen, memory, scope, shown, dialog, failed, muddled, hurried>>
    BY DEF RereadAnswered, Answers, page, history
  <1>2. /\ chosen \in Clusters /\ Rest(i) \in Seq(Requests) /\ Moved(Rest(i), net, i, {})
        /\ net[i] \in Requests /\ Asked(objects, kind, strayed, net[i])
    BY <1>1, TakenIs
  <1>3. /\ net[i].obj \in Objects /\ net[i].obj.there
        /\ ReadWell(objects, kind, strayed, net[i].obj)
    BY <1>1, <1>2 DEF Requests, Asked, ReadWell
  <1>4. /\ q \in Requests /\ AskTyped(q, DOMAIN made) /\ Asked(objects, kind, strayed, q)
        /\ q.call \in Changes \cup {"read", "reread"}
    BY <1>2, <1>3, PageIs, SentIsWell
  <1> HIDE DEF q
  <1>5. Moved(net', net, i, {q})
    BY <1>1, <1>2, <1>4, PageIs, SendsMoved
  <1>6. /\ box' \in Objects /\ ReadWell(objects, kind, strayed', box') /\ acts' \in 0..MaxActs
        /\ editor' \in Editors /\ EditorWell(objects, kind, strayed', editor') /\ strayed' \in BOOLEAN
    BY <1>1, PageIs
  <1>7. QED
    BY <1>1, <1>2, <1>4, <1>5, <1>6, EditorStep

(***************************************************************************)
(* The migrations.                                                         *)
(***************************************************************************)
Dialogs == [open : BOOLEAN, app : BOOLEAN, busy : BOOLEAN, obj : Objects]
Entries == [resource : Objects, template : Objects]

(* A step of a migration leaves the rest as it is.                         *)
LEMMA MigrationStep ==
  ASSUME KubeInv, NEW i, i \in DOMAIN net => Migrates(net[i]),
         NEW Q, Moved(net', net, i, Q), chosen \in Clusters,
         \A q \in Q : Migrates(q) /\ AskTyped(q, DOMAIN made') /\ Asked(objects, kind, strayed, q),
         dialog' \in Dialogs, ReadWell(objects, kind, strayed, dialog'.obj),
         made' \in Seq(Entries), DOMAIN made \subseteq DOMAIN made',
         hurried' \in BOOLEAN, acts' \in 0..MaxActs,
         MigrationIsOffered', OneMigration',
         UNCHANGED <<kind, load, objects, cached, chosen, memory, scope, shown, box, editor,
                     failed, muddled, strayed>>
  PROVE  KubeInv'
  <1>1. TypeOK /\ NetTyped /\ RestTyped
    BY TypeIs DEF KubeInv
  <1>2. RestTyped'
    BY <1>1 DEF RestTyped, Dialogs, Entries
  <1>3. NetTyped'
    BY <1>1, NetStaysTyped
  <1>4. TypeOK' /\ NothingYet'
    BY <1>2, <1>3, TypeIsThen, ChosenAtLast
  <1>5. WorldIsWell'
    BY WorldStaysWell DEF KubeInv
  <1>6. PageIsWell' /\ EditorIsWell'
    BY DEF KubeInv, PageIsWell, EditorIsWell
  <1>7. NetIsWell'
    BY <1>1, NetStaysWell DEF KubeInv
  <1>8. ShownOrAwaited' /\ LatestIsRight'
    <2>1. /\ i \in DOMAIN net => net[i].call \notin {"clusters", "names", "list"} \cup Changes
          /\ \A q \in Q : q.call # "list"
      BY DEF Migrates, Changes
    <2>2. QED
      BY <2>1, ListStays DEF KubeInv
  <1>9. QED
    BY <1>4, <1>5, <1>6, <1>7, <1>8 DEF KubeInv

(* The parts of OneMigration, of the requests and the database after a     *)
(* step.                                                                   *)
OneAtATime(m) == \A i, j \in DOMAIN m : Migrates(m[i]) /\ Migrates(m[j]) => i = j
InDialog(q, d, md) ==
  /\ q.call = "resource" =>
       /\ ~d.open /\ d.app /\ d.obj = q.obj
       /\ q.at = "served" => md[q.n].resource = q.obj
  /\ q.call = "template" =>
       /\ md[q.n].resource = q.obj
       /\ q.at = "served" => Whole(md[q.n])
Awaited(m, md) ==
  \A n \in DOMAIN md :
    Whole(md[n]) \/ \E i \in DOMAIN m : m[i].call \in {"resource", "template"} /\ m[i].n = n
(* OneMigration in parts.                                                  *)
LEMMA OneMigrationIs ==
  OneMigration <=>
    (~hurried => /\ OneAtATime(net) /\ \A i \in DOMAIN net : InDialog(net[i], dialog, made)
                 /\ ~failed => Awaited(net, made))
  BY DEF OneMigration, OneAtATime, InDialog, Awaited
(* The same after a step.                                                  *)
LEMMA OneMigrationIsThen ==
  ASSUME ~hurried' => /\ OneAtATime(net') /\ \A i \in DOMAIN net' : InDialog(net'[i], dialog', made')
                      /\ ~failed' => Awaited(net', made')
  PROVE  OneMigration'
  BY DEF OneMigration, OneAtATime, InDialog, Awaited

(* When no migration is under way, or the one that is takes the step, at   *)
(* most the one that was added is under way after it.                      *)
LEMMA OneIsLeft ==
  ASSUME NEW i, NEW Q, Moved(net', net, i, Q), \A k \in DOMAIN net \ {i} : ~Migrates(net[k]),
         \A q, r \in Q : q = r
  PROVE  /\ OneAtATime(net')
         /\ \A j \in DOMAIN net' : Migrates(net'[j]) => net'[j] \in Q
         /\ \A q \in Q : \E j \in DOMAIN net' : net'[j] = q
  <1>1. \A j \in DOMAIN net' : \A k \in DOMAIN net \ {i} : Like(net'[j], net[k]) => ~Migrates(net'[j])
    BY DEF Like, Migrates
  <1>2. \A j \in DOMAIN net' : Migrates(net'[j]) => net'[j] \in Q
    BY <1>1 DEF Moved
  <1>3. OneAtATime(net')
    BY <1>1 DEF Moved, OneAtATime
  <1>4. QED
    BY <1>2, <1>3 DEF Moved

(* A request that takes part in a migration.                               *)
LEMMA MigrationAskIs ==
  ASSUME TypeOK, NEW x \in Objects, ReadWell(objects, kind, strayed, x),
         NEW c \in Clusters \cup {NoCluster}, NEW call \in {"copy", "resource", "template"},
         NEW n \in Nat, NEW D, call = "copy" => c \in Clusters, call = "template" => n \in D
  PROVE  /\ [Ask(call, c, x) EXCEPT !.n = n] \in Requests
         /\ AskTyped([Ask(call, c, x) EXCEPT !.n = n], D)
         /\ Asked(objects, kind, strayed, [Ask(call, c, x) EXCEPT !.n = n])
         /\ [Ask(call, c, x) EXCEPT !.n = n].call = call /\ [Ask(call, c, x) EXCEPT !.n = n].obj = x
         /\ [Ask(call, c, x) EXCEPT !.n = n].n = n /\ [Ask(call, c, x) EXCEPT !.n = n].at = "sent"
         /\ Ask(call, c, x).n = 0 /\ Ask(call, c, x) \in Requests
  <1> DEFINE p == Ask(call, c, x)
             q == [p EXCEPT !.n = n]
  <1>1. call \in Calls
    BY DEF Calls, Gets
  <1>2. p \in Requests
    BY <1>1, AskIs
  <1>3. p.call = call /\ p.cluster = c /\ p.obj = x /\ p.n = 0 /\ p.at = "sent"
    BY <1>1, <1>2, AskIs DEF Requests
  <1> HIDE DEF p
  <1>4. /\ q \in Requests /\ q.call = call /\ q.cluster = c /\ q.obj = x /\ q.n = n /\ q.at = "sent"
    BY <1>2, <1>3 DEF Requests
  <1> HIDE DEF q
  <1>5. AskTyped(q, D) /\ Asked(objects, kind, strayed, q)
    BY <1>4 DEF AskTyped, Asked, ReadWell
  <1>6. QED
    BY <1>2, <1>3, <1>4, <1>5 DEF p, q

(* The same, as it is sent at first.                                       *)
LEMMA MigrationAskedIs ==
  ASSUME TypeOK, NEW x \in Objects, ReadWell(objects, kind, strayed, x),
         NEW c \in Clusters \cup {NoCluster}, NEW call \in {"copy", "resource"}, NEW D,
         call = "copy" => c \in Clusters
  PROVE  /\ Ask(call, c, x) \in Requests /\ AskTyped(Ask(call, c, x), D)
         /\ Asked(objects, kind, strayed, Ask(call, c, x))
         /\ Ask(call, c, x).call = call /\ Ask(call, c, x).obj = x /\ Ask(call, c, x).at = "sent"
         /\ Ask(call, c, x).n = 0
  <1> DEFINE p == Ask(call, c, x)
  <1>1. call \in Calls
    BY DEF Calls, Gets
  <1>2. p \in Requests
    BY <1>1, AskIs
  <1>3. p.call = call /\ p.cluster = c /\ p.obj = x /\ p.n = 0 /\ p.at = "sent"
    BY <1>1, <1>2, AskIs DEF Requests
  <1> HIDE DEF p
  <1>4. AskTyped(p, D) /\ Asked(objects, kind, strayed, p)
    BY <1>2, <1>3 DEF AskTyped, Asked, ReadWell
  <1>5. QED
    BY <1>2, <1>3, <1>4 DEF p

(* What holds of the migrations before a step.                             *)
LEMMA MigrationIs ==
  ASSUME KubeInv
  PROVE  /\ dialog \in Dialogs /\ made \in Seq(Entries) /\ hurried \in BOOLEAN
         /\ dialog.obj \in Objects /\ ReadWell(objects, kind, strayed, dialog.obj)
         /\ dialog.open => "migrate" \in Rows[kind]
         /\ \A k \in DOMAIN net : Migrates(net[k]) => "migrate" \in Rows[kind]
         /\ ~hurried => /\ OneAtATime(net) /\ \A k \in DOMAIN net : InDialog(net[k], dialog, made)
                        /\ ~failed => Awaited(net, made)
         /\ Migrating <=> \E k \in DOMAIN net : Migrates(net[k])
  <1>1. dialog \in Dialogs /\ made \in Seq(Entries) /\ hurried \in BOOLEAN
    BY DEF KubeInv, TypeOK, Dialogs, Entries
  <1>2. dialog.obj \in Objects /\ ReadWell(objects, kind, strayed, dialog.obj)
    BY PageIs
  <1>3. /\ dialog.open => "migrate" \in Rows[kind]
        /\ \A k \in DOMAIN net : Migrates(net[k]) => "migrate" \in Rows[kind]
    BY DEF KubeInv, MigrationIsOffered
  <1>4. ~hurried => /\ OneAtATime(net) /\ \A k \in DOMAIN net : InDialog(net[k], dialog, made)
                    /\ ~failed => Awaited(net, made)
    BY OneMigrationIs DEF KubeInv
  <1>5. Migrating <=> \E k \in DOMAIN net : Migrates(net[k])
    BY DEF Migrating, Migrates
  <1>6. QED
    BY <1>1, <1>2, <1>3, <1>4, <1>5

(* A migration begins: unless it is hurried it is the only one.            *)
LEMMA MigrateKeeps == ASSUME KubeInv, NEW r \in shown, Migrate(r) PROVE KubeInv'
  <1> DEFINE q == Ask("copy", chosen, r)
  <1>1. chosen \in Clusters /\ acts' \in 0..MaxActs
    BY PageIs, Acted DEF Migrate
  <1>2. /\ "migrate" \in Rows[kind]
        /\ dialog' = [dialog EXCEPT !.open = TRUE, !.busy = FALSE]
        /\ Sends(net, q)
        /\ hurried' = (hurried \/ Migrating)
        /\ UNCHANGED <<kind, load, objects, cached, made, chosen, memory, scope, shown, box, editor,
                       failed, muddled, strayed>>
    BY DEF Migrate, world
  <1>3. /\ q \in Requests /\ AskTyped(q, DOMAIN made) /\ Asked(objects, kind, strayed, q)
        /\ q.call = "copy" /\ q.at = "sent"
    BY <1>1, PageIs, MigrationAskedIs
  <1> HIDE DEF q
  <1>4. Moved(net', net, 0, {q}) /\ 0 \notin DOMAIN net
    BY <1>2, <1>3, PageIs, SendsMoved
  <1>5. dialog' \in Dialogs /\ dialog'.obj = dialog.obj /\ hurried' \in BOOLEAN
    BY <1>2, MigrationIs DEF Dialogs
  <1>6. MigrationIsOffered'
    <2>1. \A j \in DOMAIN net' : net'[j] = q \/ \E k \in DOMAIN net : Like(net'[j], net[k])
      BY <1>4 DEF Moved
    <2>2. QED
      BY <1>2, <1>3, <2>1 DEF KubeInv, MigrationIsOffered, Like, Migrates
  <1>7. OneMigration'
    <2>1. SUFFICES ASSUME ~hurried'
                   PROVE  /\ OneAtATime(net')
                          /\ \A j \in DOMAIN net' : InDialog(net'[j], dialog', made')
                          /\ ~failed' => Awaited(net', made')
      BY OneMigrationIsThen
    <2>2. ~hurried /\ \A k \in DOMAIN net : ~Migrates(net[k])
      BY <1>2, <2>1, MigrationIs
    <2>3. /\ OneAtATime(net')
          /\ \A j \in DOMAIN net' : Migrates(net'[j]) => net'[j] = q
      BY <1>4, <2>2, OneIsLeft
    <2>4. \A j \in DOMAIN net' : InDialog(net'[j], dialog', made')
      BY <1>3, <2>3 DEF InDialog, Migrates
    <2>5. ~failed' => Awaited(net', made')
      BY <1>2, <2>2, MigrationIs DEF Awaited, Migrates
    <2>6. QED
      BY <2>3, <2>4, <2>5
  <1>8. /\ made' \in Seq(Entries) /\ DOMAIN made \subseteq DOMAIN made'
        /\ ReadWell(objects, kind, strayed, dialog'.obj)
        /\ Migrates(q) /\ AskTyped(q, DOMAIN made')
    BY <1>2, <1>3, <1>5, MigrationIs DEF Migrates
  <1>9. QED
    BY <1>1, <1>2, <1>3, <1>4, <1>5, <1>6, <1>7, <1>8, MigrationStep

(* The dialog is closed, and no resource waits for it.                     *)
LEMMA CloseDialogKeeps == ASSUME KubeInv, CloseDialog PROVE KubeInv'
  <1>1. chosen \in Clusters /\ acts' \in 0..MaxActs /\ dialog.open
    BY PageIs DEF CloseDialog
  <1>2. PICK app \in {FALSE, dialog.app} : dialog' = [dialog EXCEPT !.open = FALSE, !.app = app]
    BY DEF CloseDialog
  <1>3. UNCHANGED <<kind, load, objects, cached, made, chosen, memory, scope, shown, box, editor,
                    net, failed, muddled, strayed, hurried>>
    BY DEF CloseDialog, world, history
  <1>4. /\ dialog' \in Dialogs /\ dialog'.obj = dialog.obj /\ ~dialog'.open
    BY <1>2, MigrationIs DEF Dialogs
  <1>5. Moved(net', net, 0, {}) /\ 0 \notin DOMAIN net
    BY <1>3, PageIs
  <1>6. MigrationIsOffered'
    BY <1>3, <1>4 DEF KubeInv, MigrationIsOffered
  <1>7. OneMigration'
    <2>1. \A k \in DOMAIN net : ~hurried => net[k].call # "resource"
      BY <1>1, MigrationIs DEF InDialog
    <2>2. QED
      BY <1>3, <2>1 DEF KubeInv, OneMigration
  <1>8. /\ made' \in Seq(Entries) /\ hurried' \in BOOLEAN
        /\ ReadWell(objects, kind, strayed, dialog'.obj)
    BY <1>3, <1>4, MigrationIs
  <1>9. QED
    BY <1>1, <1>3, <1>4, <1>5, <1>6, <1>7, <1>8, MigrationStep

(* The resource is sent with what the dialog holds.                        *)
LEMMA SubmitMigrationKeeps == ASSUME KubeInv, SubmitMigration PROVE KubeInv'
  <1> DEFINE q == Ask("resource", NoCluster, dialog.obj)
  <1>1. chosen \in Clusters /\ acts' \in 0..MaxActs /\ dialog.open
    BY PageIs DEF SubmitMigration
  <1>2. /\ hurried' = (hurried \/ Migrating)
        /\ UNCHANGED <<kind, load, objects, cached, made, chosen, memory, scope, shown, box, editor,
                       failed, muddled, strayed>>
    BY DEF SubmitMigration, world
  <1>3. /\ made' \in Seq(Entries) /\ hurried' \in BOOLEAN /\ DOMAIN made \subseteq DOMAIN made'
    BY <1>2, MigrationIs
  <1>4. ASSUME ~hurried' PROVE ~hurried /\ \A k \in DOMAIN net : ~Migrates(net[k])
    BY <1>2, <1>4, MigrationIs
  <1>5. CASE dialog.obj = Nothing
    <2>1. dialog' = [dialog EXCEPT !.app = TRUE, !.busy = TRUE] /\ net' = net
      BY <1>5 DEF SubmitMigration
    <2>2. dialog' \in Dialogs /\ dialog'.obj = dialog.obj /\ dialog'.open = dialog.open
      BY <2>1, MigrationIs DEF Dialogs
    <2>3. Moved(net', net, 0, {}) /\ 0 \notin DOMAIN net
      BY <2>1, PageIs
    <2>4. MigrationIsOffered'
      BY <1>2, <2>1, <2>2 DEF KubeInv, MigrationIsOffered
    <2>5. OneMigration'
      <3>1. ~hurried' => ~hurried /\ \A k \in DOMAIN net : net[k].call \notin {"resource", "template"}
        BY <1>4 DEF Migrates
      <3>2. QED
        BY <1>2, <2>1, <3>1 DEF KubeInv, OneMigration
    <2>6. ReadWell(objects, kind, strayed, dialog'.obj)
      BY <2>2, MigrationIs
    <2>7. QED
      BY <1>1, <1>2, <1>3, <2>2, <2>3, <2>4, <2>5, <2>6, MigrationStep
  <1>6. CASE dialog.obj # Nothing
    <2>1. /\ dialog' = [dialog EXCEPT !.app = TRUE, !.busy = TRUE, !.open = FALSE]
          /\ Sends(net, q)
      BY <1>6 DEF SubmitMigration
    <2>2. /\ dialog' \in Dialogs /\ dialog'.obj = dialog.obj /\ ~dialog'.open /\ dialog'.app
      BY <2>1, MigrationIs DEF Dialogs
    <2>3. /\ q \in Requests /\ AskTyped(q, DOMAIN made) /\ Asked(objects, kind, strayed, q)
          /\ q.call = "resource" /\ q.at = "sent" /\ q.obj = dialog.obj /\ q.n = 0
      <3>1. /\ TypeOK /\ dialog.obj \in Objects /\ ReadWell(objects, kind, strayed, dialog.obj)
            /\ NoCluster \in Clusters \cup {NoCluster}
        BY PageIs
      <3>2. q \in Requests
        BY <3>1, MigrationAskedIs
      <3>3. QED
        BY <3>1, <3>2, MigrationAskedIs
    <2> HIDE DEF q
    <2>4. Moved(net', net, 0, {q}) /\ 0 \notin DOMAIN net
      BY <2>1, <2>3, PageIs, SendsMoved
    <2>5. MigrationIsOffered'
      <3>1. \A j \in DOMAIN net' : net'[j] = q \/ \E k \in DOMAIN net : Like(net'[j], net[k])
        BY <2>4 DEF Moved
      <3>2. "migrate" \in Rows[kind]
        BY <1>1, MigrationIs
      <3>3. QED
        BY <1>2, <2>2, <2>3, <3>1, <3>2 DEF KubeInv, MigrationIsOffered, Like, Migrates
    <2>6. OneMigration'
      <3>1. SUFFICES ASSUME ~hurried'
                     PROVE  /\ OneAtATime(net')
                            /\ \A j \in DOMAIN net' : InDialog(net'[j], dialog', made')
                            /\ ~failed' => Awaited(net', made')
        BY OneMigrationIsThen
      <3>2. ~hurried /\ \A k \in DOMAIN net : ~Migrates(net[k])
        BY <1>4, <3>1
      <3>3. /\ OneAtATime(net')
            /\ \A j \in DOMAIN net' : Migrates(net'[j]) => net'[j] = q
        BY <2>4, <3>2, OneIsLeft
      <3>4. \A j \in DOMAIN net' : InDialog(net'[j], dialog', made')
        BY <2>2, <2>3, <3>3 DEF InDialog, Migrates
      <3>5. ~failed' => Awaited(net', made')
        BY <1>2, <3>2, MigrationIs DEF Awaited, Migrates
      <3>6. QED
        BY <3>3, <3>4, <3>5
    <2>7. ReadWell(objects, kind, strayed, dialog'.obj) /\ Migrates(q) /\ AskTyped(q, DOMAIN made')
      BY <1>2, <2>2, <2>3, MigrationIs DEF Migrates
    <2>8. QED
      BY <1>1, <1>2, <1>3, <2>2, <2>3, <2>4, <2>5, <2>6, <2>7, MigrationStep
  <1>7. QED
    BY <1>5, <1>6

(* When a migration is answered, and none was hurried, no other is under   *)
(* way.                                                                    *)
LEMMA OthersAreNone ==
  ASSUME KubeInv, NEW i \in DOMAIN net, Migrates(net[i]), ~hurried
  PROVE  \A k \in DOMAIN net \ {i} : ~Migrates(net[k])
  BY MigrationIs DEF OneAtATime

(* What is offered stays offered while only what was under way is.         *)
LEMMA OfferedStays ==
  ASSUME KubeInv, NEW i, NEW Q, Moved(net', net, i, Q), UNCHANGED kind, DOMAIN made \subseteq DOMAIN made',
         dialog'.open => dialog.open,
         \A q \in Q : /\ Migrates(q) => "migrate" \in Rows[kind]
                      /\ q.call = "resource" /\ q.at = "sent" => q.n = 0
                      /\ q.call = "resource" /\ q.at = "served" => q.n \in DOMAIN made'
  PROVE  MigrationIsOffered'
  <1>1. \A j \in DOMAIN net' : net'[j] \in Q \/ \E k \in DOMAIN net : Like(net'[j], net[k])
    BY DEF Moved
  <1>2. QED
    BY <1>1 DEF KubeInv, MigrationIsOffered, Like, Migrates

(* The dialog takes the object.                                            *)
LEMMA CopyAnsweredKeeps ==
  ASSUME KubeInv, NEW i \in DOMAIN net, CopyAnswered(i)
  PROVE  KubeInv'
  <1>1. /\ net[i].call = "copy" /\ net[i].at = "served"
        /\ dialog' = [dialog EXCEPT !.obj = net[i].obj] /\ net' = Rest(i) /\ acts' = acts
        /\ UNCHANGED <<kind, load, objects, cached, made, chosen, memory, scope, shown, box, editor,
                       failed, muddled, strayed, hurried>>
    BY DEF CopyAnswered, Answers, world, history
  <1>2. /\ chosen \in Clusters /\ Moved(net', net, i, {}) /\ acts' \in 0..MaxActs
        /\ net[i] \in Requests /\ Asked(objects, kind, strayed, net[i])
    BY <1>1, TakenIs
  <1>3. dialog' \in Dialogs /\ dialog'.obj = net[i].obj /\ dialog'.open = dialog.open
    BY <1>1, <1>2, MigrationIs DEF Dialogs, Requests
  <1>4. ReadWell(objects, kind, strayed, dialog'.obj)
    BY <1>1, <1>2, <1>3 DEF Asked, ReadWell
  <1>5. Migrates(net[i])
    BY <1>1 DEF Migrates
  <1>6. MigrationIsOffered'
    BY <1>1, <1>2, <1>3, OfferedStays
  <1>7. OneMigration'
    <2>1. SUFFICES ASSUME ~hurried'
                   PROVE  /\ OneAtATime(net')
                          /\ \A j \in DOMAIN net' : InDialog(net'[j], dialog', made')
                          /\ ~failed' => Awaited(net', made')
      BY OneMigrationIsThen
    <2>2. \A k \in DOMAIN net \ {i} : ~Migrates(net[k])
      BY <1>1, <1>5, <2>1, OthersAreNone
    <2>3. OneAtATime(net') /\ \A j \in DOMAIN net' : ~Migrates(net'[j])
      BY <1>2, <2>2, OneIsLeft
    <2>4. \A j \in DOMAIN net' : InDialog(net'[j], dialog', made')
      BY <2>3 DEF InDialog, Migrates
    <2>5. \A k \in DOMAIN net : net[k].call \notin {"resource", "template"}
      BY <1>1, <2>2 DEF Migrates
    <2>6. ~failed' => Awaited(net', made')
      BY <1>1, <2>1, <2>5, MigrationIs DEF Awaited
    <2>7. QED
      BY <2>3, <2>4, <2>6
  <1>8. /\ made' \in Seq(Entries) /\ hurried' \in BOOLEAN /\ DOMAIN made \subseteq DOMAIN made'
    BY <1>1, MigrationIs
  <1>9. QED
    BY <1>1, <1>2, <1>3, <1>4, <1>5, <1>6, <1>7, <1>8, MigrationStep

(* The template is sent with what the dialog holds, which is the object of *)
(* the resource.                                                           *)
LEMMA ResourceAnsweredKeeps ==
  ASSUME KubeInv, NEW i \in DOMAIN net, ResourceAnswered(i)
  PROVE  KubeInv'
  <1> DEFINE q == [Ask("template", NoCluster, dialog.obj) EXCEPT !.n = net[i].n]
  <1>1. /\ net[i].call = "resource" /\ net[i].at = "served" /\ acts' = acts
        /\ IF dialog.app THEN Sends(Rest(i), q) ELSE net' = Rest(i)
        /\ UNCHANGED <<kind, load, objects, cached, made, chosen, memory, scope, shown, box, editor,
                       dialog, failed, muddled, strayed, hurried>>
    BY DEF ResourceAnswered, Answers, page, world, history
  <1>2. /\ chosen \in Clusters /\ Rest(i) \in Seq(Requests) /\ Moved(Rest(i), net, i, {})
        /\ acts' \in 0..MaxActs /\ net[i] \in Requests
    BY <1>1, TakenIs
  <1>3. net[i].n \in Nat /\ net[i].n \in DOMAIN made /\ "migrate" \in Rows[kind] /\ Migrates(net[i])
    BY <1>1, <1>2 DEF KubeInv, MigrationIsOffered, Requests, Migrates
  <1>4. /\ q \in Requests /\ AskTyped(q, DOMAIN made) /\ Asked(objects, kind, strayed, q)
        /\ q.call = "template" /\ q.at = "sent" /\ q.obj = dialog.obj /\ q.n = net[i].n
    BY <1>3, PageIs, MigrationAskIs
  <1> HIDE DEF q
  <1>5. /\ dialog' \in Dialogs /\ made' \in Seq(Entries) /\ hurried' \in BOOLEAN
        /\ DOMAIN made \subseteq DOMAIN made' /\ ReadWell(objects, kind, strayed, dialog'.obj)
        /\ (dialog'.open => dialog.open)
    BY <1>1, MigrationIs
  <1>6. ASSUME ~hurried
        PROVE  /\ dialog.app /\ dialog.obj = net[i].obj /\ made[net[i].n].resource = net[i].obj
               /\ \A k \in DOMAIN net \ {i} : ~Migrates(net[k])
               /\ ~failed => Awaited(net, made)
    BY <1>1, <1>3, <1>6, MigrationIs, OthersAreNone DEF InDialog
  <1>7. CASE dialog.app
    <2>1. Moved(net', net, i, {q})
      BY <1>1, <1>2, <1>4, <1>7, PageIs, SendsMoved
    <2>2. MigrationIsOffered'
      BY <1>1, <1>3, <1>4, <1>5, <2>1, OfferedStays
    <2>3. OneMigration'
      <3>1. SUFFICES ASSUME ~hurried'
                     PROVE  /\ OneAtATime(net')
                            /\ \A j \in DOMAIN net' : InDialog(net'[j], dialog', made')
                            /\ ~failed' => Awaited(net', made')
        BY OneMigrationIsThen
      <3>2. ~hurried
        BY <1>1, <3>1
      <3>3. /\ OneAtATime(net')
            /\ \A j \in DOMAIN net' : Migrates(net'[j]) => net'[j] = q
            /\ \E j \in DOMAIN net' : net'[j] = q
        BY <1>6, <2>1, <3>2, OneIsLeft
      <3>4. \A j \in DOMAIN net' : InDialog(net'[j], dialog', made')
        BY <1>1, <1>4, <1>6, <3>2, <3>3 DEF InDialog, Migrates
      <3>5. ASSUME ~failed', NEW n \in DOMAIN made'
            PROVE  \/ Whole(made'[n])
                   \/ \E j \in DOMAIN net' : net'[j].call \in {"resource", "template"} /\ net'[j].n = n
        <4>1. \/ Whole(made[n])
              \/ \E k \in DOMAIN net : net[k].call \in {"resource", "template"} /\ net[k].n = n
          BY <1>1, <1>6, <3>2, <3>5 DEF Awaited
        <4>2. CASE Whole(made[n])
          BY <1>1, <4>2
        <4>3. CASE \E k \in DOMAIN net : net[k].call \in {"resource", "template"} /\ net[k].n = n
          <5>1. n = q.n
            BY <1>4, <1>6, <3>2, <4>3 DEF Migrates
          <5>2. QED
            BY <1>4, <3>3, <5>1
        <4>4. QED
          BY <4>1, <4>2, <4>3
      <3>6. QED
        BY <3>3, <3>4, <3>5 DEF Awaited
    <2>4. Migrates(q) /\ AskTyped(q, DOMAIN made')
      BY <1>1, <1>4 DEF Migrates
    <2>5. QED
      BY <1>1, <1>2, <1>3, <1>4, <1>5, <2>1, <2>2, <2>3, <2>4, MigrationStep
  <1>8. CASE ~dialog.app
    <2>1. net' = Rest(i)
      BY <1>1, <1>8
    <2>2. Moved(net', net, i, {})
      BY <1>2, <2>1
    <2>3. MigrationIsOffered'
      BY <1>1, <1>5, <2>2, OfferedStays
    <2>4. OneMigration'
      BY <1>1, <1>6, <1>8 DEF OneMigration
    <2>5. QED
      BY <1>1, <1>2, <1>3, <1>5, <2>2, <2>3, <2>4, MigrationStep
  <1>9. QED
    BY <1>7, <1>8

(* The template that was awaited has come.                                 *)
LEMMA TemplateAnsweredKeeps ==
  ASSUME KubeInv, NEW i \in DOMAIN net, TemplateAnswered(i)
  PROVE  KubeInv'
  <1>1. /\ net[i].call = "template" /\ net[i].at = "served" /\ acts' = acts /\ net' = Rest(i)
        /\ UNCHANGED <<kind, load, objects, cached, made, chosen, memory, scope, shown, box, editor,
                       dialog, failed, muddled, strayed, hurried>>
    BY DEF TemplateAnswered, Answers, page, world, history
  <1>2. chosen \in Clusters /\ Moved(net', net, i, {}) /\ acts' \in 0..MaxActs
    BY <1>1, TakenIs
  <1>3. /\ dialog' \in Dialogs /\ made' \in Seq(Entries) /\ hurried' \in BOOLEAN
        /\ DOMAIN made \subseteq DOMAIN made' /\ ReadWell(objects, kind, strayed, dialog'.obj)
        /\ (dialog'.open => dialog.open) /\ Migrates(net[i])
    BY <1>1, MigrationIs DEF Migrates
  <1>4. MigrationIsOffered'
    BY <1>1, <1>2, <1>3, OfferedStays
  <1>5. OneMigration'
    <2>1. SUFFICES ASSUME ~hurried'
                   PROVE  /\ OneAtATime(net')
                          /\ \A j \in DOMAIN net' : InDialog(net'[j], dialog', made')
                          /\ ~failed' => Awaited(net', made')
      BY OneMigrationIsThen
    <2>2. ~hurried /\ \A k \in DOMAIN net \ {i} : ~Migrates(net[k])
      BY <1>1, <1>3, <2>1, OthersAreNone
    <2>3. OneAtATime(net') /\ \A j \in DOMAIN net' : ~Migrates(net'[j])
      BY <1>2, <2>2, OneIsLeft
    <2>4. \A j \in DOMAIN net' : InDialog(net'[j], dialog', made')
      BY <2>3 DEF InDialog, Migrates
    <2>5. Whole(made[net[i].n])
      BY <1>1, <2>2, MigrationIs DEF InDialog
    <2>6. ASSUME ~failed', NEW n \in DOMAIN made'
          PROVE  Whole(made'[n])
      <3>1. \/ Whole(made[n])
            \/ \E k \in DOMAIN net : net[k].call \in {"resource", "template"} /\ net[k].n = n
        BY <1>1, <2>2, <2>6, MigrationIs DEF Awaited
      <3>2. QED
        BY <1>1, <2>2, <2>5, <3>1 DEF Migrates
    <2>7. QED
      BY <2>3, <2>4, <2>6 DEF Awaited
  <1>6. QED
    BY <1>1, <1>2, <1>3, <1>4, <1>5, MigrationStep

(* A request as the server leaves it, and another time.                    *)
LEMMA ServedIs ==
  ASSUME NEW q \in Requests, NEW at \in {"served", "failed"}, NEW n \in Nat
  PROVE  /\ [q EXCEPT !.at = at] \in Requests
         /\ [q EXCEPT !.at = at].at = at /\ [q EXCEPT !.at = at].call = q.call
         /\ [q EXCEPT !.at = at].cluster = q.cluster /\ [q EXCEPT !.at = at].scope = q.scope
         /\ [q EXCEPT !.at = at].obj = q.obj /\ [q EXCEPT !.at = at].n = q.n
         /\ [q EXCEPT !.at = at].latest = q.latest
         /\ [q EXCEPT !.n = n] \in Requests
         /\ [q EXCEPT !.n = n].at = q.at /\ [q EXCEPT !.n = n].call = q.call
         /\ [q EXCEPT !.n = n].cluster = q.cluster /\ [q EXCEPT !.n = n].scope = q.scope
         /\ [q EXCEPT !.n = n].obj = q.obj /\ [q EXCEPT !.n = n].n = n
         /\ [q EXCEPT !.n = n].latest = q.latest
  BY DEF Requests

(* A new entry, which the template is awaited for.                         *)
LEMMA ServeResourceKeeps ==
  ASSUME KubeInv, NEW i \in DOMAIN net, ServeResource(i)
  PROVE  KubeInv'
  <1> DEFINE e == Created(net[i].obj)
             N == Len(made) + 1
             n1 == [net EXCEPT ![i].n = Len(made')]
  <1>1. /\ net[i].call = "resource" /\ net[i].at = "sent" /\ acts' = acts
        /\ made' = Append(made, e)
        /\ UNCHANGED <<kind, load, objects, cached, chosen, memory, scope, shown, box, editor,
                       dialog, failed, muddled, strayed, hurried>>
    BY DEF ServeResource, Sent, page, history
  <1>2. PICK at \in {"served", "failed"} : net' = [n1 EXCEPT ![i].at = at]
    BY DEF ServeResource, Serves
  <1>3. /\ chosen \in Clusters /\ acts' \in 0..MaxActs /\ net[i] \in Requests
        /\ net \in Seq(Requests) /\ AskTyped(net[i], DOMAIN made)
        /\ Asked(objects, kind, strayed, net[i])
    BY <1>1, TakenIs DEF NetTyped
  <1>4. net[i].obj \in Objects /\ made \in Seq(Entries) /\ Len(made) \in Nat /\ N \in Nat
    BY <1>3, MigrationIs DEF Requests
  <1>5. e \in Entries /\ e.resource = net[i].obj
    BY <1>4, NothingIs DEF Created, Entries
  <1> HIDE DEF e
  <1>6. /\ made' \in Seq(Entries) /\ Len(made') = N /\ made'[N] = e
        /\ \A n \in DOMAIN made : made'[n] = made[n] /\ n \in DOMAIN made' /\ n # N
        /\ \A n \in DOMAIN made' : n \in DOMAIN made \/ n = N
        /\ N \in DOMAIN made'
    BY <1>1, <1>4, <1>5
  <1> DEFINE p == [net[i] EXCEPT !.n = N]
             q == [p EXCEPT !.at = at]
  <1>7. /\ p \in Requests /\ p.at = "sent" /\ p.call = "resource" /\ p.cluster = net[i].cluster
        /\ p.obj = net[i].obj /\ p.n = N
    BY <1>1, <1>3, <1>4, ServedIs
  <1>8. net' = [net EXCEPT ![i] = q]
    <2>1. n1 = [net EXCEPT ![i] = p] /\ n1[i] = p
      BY <1>3, <1>6
    <2> HIDE DEF n1, p
    <2>2. QED
      BY <1>2, <1>3, <2>1
  <1> HIDE DEF p
  <1>9. /\ q \in Requests /\ q.at = at /\ q.call = "resource" /\ q.cluster = net[i].cluster
        /\ q.obj = net[i].obj /\ q.n = N
    BY <1>7, <1>4, ServedIs
  <1> HIDE DEF q
  <1>10. Moved(net', net, i, {q})
    BY <1>3, <1>8, <1>9, AlikeIsLike, ChangedMoved
  <1>11. AskTyped(q, DOMAIN made') /\ Asked(objects, kind, strayed, q) /\ Migrates(q) /\ Migrates(net[i])
    BY <1>1, <1>3, <1>9 DEF AskTyped, Asked, Migrates
  <1>12. /\ dialog' \in Dialogs /\ hurried' \in BOOLEAN
         /\ DOMAIN made \subseteq DOMAIN made' /\ ReadWell(objects, kind, strayed, dialog'.obj)
         /\ (dialog'.open => dialog.open) /\ "migrate" \in Rows[kind]
    BY <1>1, <1>6, <1>11, MigrationIs
  <1> HIDE DEF N
  <1>13. MigrationIsOffered'
    BY <1>1, <1>6, <1>9, <1>10, <1>12, OfferedStays
  <1>14. OneMigration'
    <2>1. SUFFICES ASSUME ~hurried'
                   PROVE  /\ OneAtATime(net')
                          /\ \A j \in DOMAIN net' : InDialog(net'[j], dialog', made')
                          /\ ~failed' => Awaited(net', made')
      BY OneMigrationIsThen
    <2>2. ~hurried /\ \A k \in DOMAIN net \ {i} : ~Migrates(net[k])
      BY <1>1, <1>11, <2>1, OthersAreNone
    <2>3. /\ OneAtATime(net')
          /\ \A j \in DOMAIN net' : Migrates(net'[j]) => net'[j] = q
          /\ \E j \in DOMAIN net' : net'[j] = q
      BY <1>10, <2>2, OneIsLeft
    <2>4. ~dialog.open /\ dialog.app /\ dialog.obj = net[i].obj
      BY <1>1, <2>2, MigrationIs DEF InDialog
    <2>5. \A j \in DOMAIN net' : InDialog(net'[j], dialog', made')
      BY <1>1, <1>5, <1>6, <1>9, <2>3, <2>4 DEF InDialog, Migrates
    <2>6. ASSUME ~failed', NEW n \in DOMAIN made'
          PROVE  \/ Whole(made'[n])
                 \/ \E j \in DOMAIN net' : net'[j].call \in {"resource", "template"} /\ net'[j].n = n
      <3>1. CASE n = N
        BY <1>9, <2>3, <3>1
      <3>2. CASE n \in DOMAIN made
        <4>1. \/ Whole(made[n])
              \/ \E k \in DOMAIN net : net[k].call \in {"resource", "template"} /\ net[k].n = n
          BY <1>1, <2>2, <2>6, <3>2, MigrationIs DEF Awaited
        <4>2. ASSUME NEW k \in DOMAIN net, net[k].call \in {"resource", "template"}, net[k].n = n
              PROVE  FALSE
          <5>1. k = i
            BY <2>2, <4>2 DEF Migrates
          <5>2. net[i].n = 0
            BY <1>1 DEF KubeInv, MigrationIsOffered
          <5>3. QED
            BY <1>4, <3>2, <4>2, <5>1, <5>2
        <4>3. QED
          BY <1>6, <3>2, <4>1, <4>2
      <3>3. QED
        BY <1>6, <3>1, <3>2
    <2>7. QED
      BY <2>3, <2>5, <2>6 DEF Awaited
  <1>15. QED
    BY <1>1, <1>3, <1>6, <1>9, <1>10, <1>11, <1>12, <1>13, <1>14, MigrationStep

(* The entry gets the template that it awaited.                            *)
LEMMA ServeTemplateKeeps ==
  ASSUME KubeInv, NEW i \in DOMAIN net, ServeTemplate(i)
  PROVE  KubeInv'
  <1> DEFINE N == net[i].n
  <1>1. /\ net[i].call = "template" /\ net[i].at = "sent" /\ acts' = acts
        /\ UNCHANGED <<kind, load, objects, cached, chosen, memory, scope, shown, box, editor,
                       dialog, failed, muddled, strayed, hurried>>
    BY DEF ServeTemplate, Sent, page, history
  <1>2. PICK at \in {"served", "failed"} : net' = [net EXCEPT ![i].at = at]
    BY DEF ServeTemplate, Serves
  <1>3. /\ chosen \in Clusters /\ acts' \in 0..MaxActs /\ net[i] \in Requests
        /\ net \in Seq(Requests) /\ AskTyped(net[i], DOMAIN made)
        /\ Asked(objects, kind, strayed, net[i])
    BY <1>1, TakenIs DEF NetTyped
  <1>4. /\ net[i].obj \in Objects /\ made \in Seq(Entries) /\ N \in DOMAIN made /\ Migrates(net[i])
        /\ "migrate" \in Rows[kind] /\ kind \in KubeKinds
    BY <1>1, <1>3, MigrationIs, PageIs DEF Requests, AskTyped, Migrates
  <1>5. made' = [made EXCEPT ![N].template = net[i].obj]
    BY <1>4, OwnersAreFound DEF ServeTemplate
  <1>6. /\ made' \in Seq(Entries) /\ DOMAIN made' = DOMAIN made
        /\ \A n \in DOMAIN made \ {N} : made'[n] = made[n]
        /\ made'[N].template = net[i].obj /\ made'[N].resource = made[N].resource
    <2>1. made[N] \in Entries
      BY <1>4
    <2> DEFINE e == [made[N] EXCEPT !.template = net[i].obj]
    <2>2. e \in Entries /\ e.template = net[i].obj /\ e.resource = made[N].resource
      BY <1>4, <2>1 DEF Entries
    <2>3. made' = [made EXCEPT ![N] = e]
      BY <1>5
    <2> HIDE DEF e, N
    <2>4. made' \in Seq(Entries) /\ DOMAIN made' = DOMAIN made
      BY <1>4, <2>2, <2>3
    <2>5. made'[N] = e /\ \A n \in DOMAIN made \ {N} : made'[n] = made[n]
      BY <1>4, <2>3
    <2>6. QED
      BY <2>2, <2>4, <2>5
  <1> DEFINE q == [net[i] EXCEPT !.at = at]
  <1>7. net' = [net EXCEPT ![i] = q]
    BY <1>2, <1>3
  <1>8. /\ q \in Requests /\ q.at = at /\ q.call = "template" /\ q.cluster = net[i].cluster
        /\ q.obj = net[i].obj /\ q.n = N
    BY <1>1, <1>3, ServedIs
  <1> HIDE DEF q
  <1>9. Moved(net', net, i, {q})
    BY <1>3, <1>7, <1>8, AlikeIsLike, ChangedMoved
  <1>10. AskTyped(q, DOMAIN made') /\ Asked(objects, kind, strayed, q) /\ Migrates(q)
    BY <1>1, <1>3, <1>4, <1>6, <1>8 DEF AskTyped, Asked, Migrates
  <1>11. /\ dialog' \in Dialogs /\ hurried' \in BOOLEAN
         /\ DOMAIN made \subseteq DOMAIN made' /\ ReadWell(objects, kind, strayed, dialog'.obj)
         /\ (dialog'.open => dialog.open)
    BY <1>1, <1>6, MigrationIs
  <1> HIDE DEF N
  <1>12. MigrationIsOffered'
    BY <1>1, <1>4, <1>8, <1>9, <1>11, OfferedStays
  <1>13. OneMigration'
    <2>1. SUFFICES ASSUME ~hurried'
                   PROVE  /\ OneAtATime(net')
                          /\ \A j \in DOMAIN net' : InDialog(net'[j], dialog', made')
                          /\ ~failed' => Awaited(net', made')
      BY OneMigrationIsThen
    <2>2. ~hurried /\ \A k \in DOMAIN net \ {i} : ~Migrates(net[k])
      BY <1>1, <1>4, <2>1, OthersAreNone
    <2>3. /\ OneAtATime(net')
          /\ \A j \in DOMAIN net' : Migrates(net'[j]) => net'[j] = q
          /\ \E j \in DOMAIN net' : net'[j] = q
      BY <1>9, <2>2, OneIsLeft
    <2>4. made[N].resource = net[i].obj
      BY <1>1, <2>2, MigrationIs DEF InDialog, N
    <2>5. Whole(made'[N]) /\ made'[N].resource = q.obj
      BY <1>6, <1>8, <2>4 DEF Whole
    <2>6. \A j \in DOMAIN net' : InDialog(net'[j], dialog', made')
      BY <1>8, <2>3, <2>5 DEF InDialog, Migrates
    <2>7. ASSUME ~failed', NEW n \in DOMAIN made'
          PROVE  \/ Whole(made'[n])
                 \/ \E j \in DOMAIN net' : net'[j].call \in {"resource", "template"} /\ net'[j].n = n
      <3>1. CASE n = N
        BY <2>5, <3>1
      <3>2. CASE n # N
        <4>1. \/ Whole(made[n])
              \/ \E k \in DOMAIN net : net[k].call \in {"resource", "template"} /\ net[k].n = n
          BY <1>1, <1>6, <2>2, <2>7, MigrationIs DEF Awaited
        <4>2. ASSUME NEW k \in DOMAIN net, net[k].call \in {"resource", "template"}, net[k].n = n
              PROVE  FALSE
          BY <2>2, <3>2, <4>2 DEF Migrates, N
        <4>3. QED
          BY <1>6, <3>2, <4>1, <4>2
      <3>3. QED
        BY <3>1, <3>2
    <2>8. QED
      BY <2>3, <2>6, <2>7 DEF Awaited
  <1>14. QED
    BY <1>1, <1>3, <1>4, <1>6, <1>9, <1>10, <1>11, <1>12, <1>13, MigrationStep

(***************************************************************************)
(* The server and the clusters.                                            *)
(***************************************************************************)
(* A request is served, or refused, and nothing else changes.              *)
LEMMA ServedStep ==
  ASSUME KubeInv, NEW i \in DOMAIN net, NEW q, Moved(net', net, i, {q}),
         AskTyped(q, DOMAIN made), Asked(objects, kind, strayed, q),
         q.call = net[i].call, q.at # "sent",
         q.call \in {"resource", "template"} =>
           q.at = "failed" /\ q.n = net[i].n /\ q.obj = net[i].obj,
         q.call = "list" /\ q.latest =>
           LatestOne(q, failed, WillAsk, chosen, scope, Right(chosen, scope)),
         UNCHANGED <<kind, load, world, page, acts, history>>
  PROVE  KubeInv'
  <1> USE DEF world, page, history
  <1>1. TypeOK /\ NetTyped /\ RestTyped
    BY TypeIs DEF KubeInv
  <1>2. RestTyped'
    BY <1>1 DEF RestTyped
  <1>3. NetTyped'
    BY <1>1, NetStaysTyped
  <1>4. TypeOK'
    BY <1>2, <1>3, TypeIsThen
  <1>5. NothingYet'
    BY NothingStays DEF KubeInv
  <1>6. WorldIsWell' /\ PageIsWell' /\ EditorIsWell'
    BY <1>1, WorldStaysWell, EditorStays, PageStaysWell DEF KubeInv
  <1>7. NetIsWell'
    BY <1>1, NetStaysWell DEF KubeInv
  <1>8. ShownOrAwaited' /\ LatestIsRight'
    <2>1. WillAsk => WillAsk'
      BY WillAskStays
    <2>2. q.call = "list" /\ q.latest =>
            LatestOne(q, failed', WillAsk', chosen', scope', Right(chosen, scope)')
      BY <2>1 DEF LatestOne, Right
    <2>3. QED
      BY <2>2, ListStays DEF KubeInv
  <1>9. MigrationIsOffered'
    BY MigrationIs, OfferedStays DEF Migrates
  <1>10. OneMigration'
    <2>1. CASE ~Migrates(net[i])
      BY <2>1, MigrationStays DEF KubeInv, Migrates
    <2>2. CASE Migrates(net[i])
      <3>1. SUFFICES ASSUME ~hurried'
                     PROVE  /\ OneAtATime(net')
                            /\ \A j \in DOMAIN net' : InDialog(net'[j], dialog', made')
                            /\ ~failed' => Awaited(net', made')
        BY OneMigrationIsThen
      <3>2. ~hurried /\ \A k \in DOMAIN net \ {i} : ~Migrates(net[k])
        BY <2>2, <3>1, OthersAreNone
      <3>3. /\ OneAtATime(net')
            /\ \A j \in DOMAIN net' : Migrates(net'[j]) => net'[j] = q
            /\ \E j \in DOMAIN net' : net'[j] = q
        BY <3>2, OneIsLeft
      <3>4. InDialog(net[i], dialog, made)
        BY <3>2, MigrationIs
      <3>5. \A j \in DOMAIN net' : InDialog(net'[j], dialog', made')
        BY <3>3, <3>4 DEF InDialog, Migrates
      <3>6. ASSUME ~failed', NEW n \in DOMAIN made'
            PROVE  \/ Whole(made'[n])
                   \/ \E j \in DOMAIN net' : net'[j].call \in {"resource", "template"} /\ net'[j].n = n
        <4>1. \/ Whole(made[n])
              \/ \E k \in DOMAIN net : net[k].call \in {"resource", "template"} /\ net[k].n = n
          BY <3>2, <3>6, MigrationIs DEF Awaited
        <4>2. CASE Whole(made[n])
          BY <4>2
        <4>3. CASE \E k \in DOMAIN net : net[k].call \in {"resource", "template"} /\ net[k].n = n
          BY <3>2, <3>3, <4>3 DEF Migrates
        <4>4. QED
          BY <4>1, <4>2, <4>3
      <3>7. QED
        BY <3>3, <3>5, <3>6 DEF Awaited
    <2>3. QED
      BY <2>1, <2>2
  <1>11. QED
    BY <1>4, <1>5, <1>6, <1>7, <1>8, <1>9, <1>10 DEF KubeInv

(* What is known of a request for a list.                                  *)
LEMMA LatestIs ==
  ASSUME KubeInv, NEW i \in DOMAIN net, net[i].call = "list", net[i].latest
  PROVE  LatestOne(net[i], failed, WillAsk, chosen, scope, Right(chosen, scope))
  BY DEF KubeInv, LatestIsRight, LatestOne

(* A request is refused.                                                   *)
LEMMA RefuseKeeps == ASSUME KubeInv, NEW i \in DOMAIN net, Refuse(i) PROVE KubeInv'
  <1> DEFINE q == [net[i] EXCEPT !.at = "failed"]
  <1>1. /\ net[i] \in Requests /\ AskTyped(net[i], DOMAIN made) /\ net \in Seq(Requests)
        /\ Asked(objects, kind, strayed, net[i])
    BY TakenIs DEF NetTyped
  <1>2. /\ net' = [net EXCEPT ![i] = q]
        /\ UNCHANGED <<kind, load, world, page, acts, history>>
    BY <1>1 DEF Refuse
  <1>3. /\ q \in Requests /\ q.at = "failed" /\ q.call = net[i].call /\ q.cluster = net[i].cluster
        /\ q.scope = net[i].scope /\ q.obj = net[i].obj /\ q.n = net[i].n /\ q.latest = net[i].latest
    BY <1>1, ServedIs
  <1> HIDE DEF q
  <1>4. Moved(net', net, i, {q})
    BY <1>1, <1>2, <1>3, AlikeIsLike, ChangedMoved
  <1>5. AskTyped(q, DOMAIN made) /\ Asked(objects, kind, strayed, q)
    BY <1>1, <1>3 DEF AskTyped, Asked
  <1>6. q.call = "list" /\ q.latest =>
          LatestOne(q, failed, WillAsk, chosen, scope, Right(chosen, scope))
    BY <1>3, LatestIs DEF LatestOne
  <1>7. QED
    BY <1>2, <1>3, <1>4, <1>5, <1>6, ServedStep

(* The clusters or the names are answered.                                 *)
LEMMA ServeNamesKeeps == ASSUME KubeInv, NEW i \in DOMAIN net, ServeNames(i) PROVE KubeInv'
  <1> DEFINE q == [net[i] EXCEPT !.at = "served"]
  <1>1. /\ net[i] \in Requests /\ AskTyped(net[i], DOMAIN made) /\ net \in Seq(Requests)
        /\ Asked(objects, kind, strayed, net[i])
    BY TakenIs DEF NetTyped
  <1>2. /\ net' = [net EXCEPT ![i] = q]
        /\ net[i].call \in {"clusters", "names"}
        /\ UNCHANGED <<kind, load, world, page, acts, history>>
    BY <1>1 DEF ServeNames, Sent
  <1>3. /\ q \in Requests /\ q.at = "served" /\ q.call = net[i].call /\ q.cluster = net[i].cluster
        /\ q.obj = net[i].obj
    BY <1>1, ServedIs
  <1> HIDE DEF q
  <1>4. Moved(net', net, i, {q})
    BY <1>1, <1>2, <1>3, AlikeIsLike, ChangedMoved
  <1>5. AskTyped(q, DOMAIN made) /\ Asked(objects, kind, strayed, q)
    BY <1>1, <1>2, <1>3 DEF AskTyped, Asked
  <1>6. QED
    BY <1>2, <1>3, <1>4, <1>5, ServedStep

(* What the server sees of the object in a cluster.                        *)
LEMMA SeenIs ==
  ASSUME KubeInv, NEW q, q.cluster \in Clusters, NEW what
  PROVE  /\ Seen(q, what) \in Objects
         /\ InCluster(q.cluster, Seen(q, what)) /\ NoLater(objects, Seen(q, what))
         /\ OwnText(kind, strayed, Seen(q, what))
         /\ ReadWell(objects, kind, strayed, Seen(q, what))
  <1> DEFINE c == q.cluster
  <1>1. /\ objects[c] \in Objects /\ cached[c] \in Objects
        /\ InCluster(c, objects[c]) /\ InCluster(c, cached[c])
        /\ objects[c].cluster = c => objects[c].uid >= 1
        /\ NoLater(objects, cached[c])
        /\ OwnText(kind, strayed, objects[c]) /\ OwnText(kind, strayed, cached[c])
    BY DEF KubeInv, TypeOK, WorldIsWell
  <1>2. NoLater(objects, objects[c])
    BY <1>1, KubeAssumption DEF InCluster, NoLater, Objects
  <1>3. Seen(q, what) = cached[c] \/ Seen(q, what) = objects[c]
    BY DEF Seen
  <1>4. QED
    BY <1>1, <1>2, <1>3 DEF ReadWell, InCluster

(* A list is answered; it is the latest only if it is as the cluster is.   *)
LEMMA ServeListKeeps == ASSUME KubeInv, NEW i \in DOMAIN net, ServeList(i) PROVE KubeInv'
  <1> DEFINE o == Seen(net[i], "list")
             x == IF o.there /\ net[i].scope = "all" THEN o ELSE Nothing
             b == net[i].latest /\ o = objects[net[i].cluster]
             q == [net[i] EXCEPT !.at = "served", !.obj = x, !.latest = b]
  <1>1. /\ net[i] \in Requests /\ AskTyped(net[i], DOMAIN made) /\ net \in Seq(Requests)
    BY TakenIs DEF NetTyped
  <1>2. /\ net[i].call = "list" /\ net[i].cluster \in Clusters
        /\ UNCHANGED <<kind, load, world, page, acts, history>>
    BY <1>1 DEF ServeList, Sent, AskTyped
  <1>3. net' = [net EXCEPT ![i] = q]
    BY <1>1 DEF ServeList
  <1>4. x \in Objects /\ ReadWell(objects, kind, strayed, x)
    BY <1>2, SeenIs, NothingIs, NothingIsWell
  <1>5. b \in BOOLEAN /\ (b => net[i].latest /\ o = objects[net[i].cluster])
    OBVIOUS
  <1> HIDE DEF b
  <1>6. x = IF o.there /\ net[i].scope = "all" THEN o ELSE Nothing
    OBVIOUS
  <1> HIDE DEF o, x
  <1>7. /\ q \in Requests /\ q.at = "served" /\ q.call = "list" /\ q.cluster = net[i].cluster
        /\ q.obj = x /\ q.scope = net[i].scope /\ (q.latest => b)
    BY <1>1, <1>2, <1>4, <1>5 DEF Requests
  <1> HIDE DEF q
  <1>8. Moved(net', net, i, {q})
    BY <1>1, <1>3, <1>7, AlikeIsLike, ChangedMoved
  <1>9. AskTyped(q, DOMAIN made) /\ Asked(objects, kind, strayed, q)
    BY <1>1, <1>2, <1>4, <1>7 DEF AskTyped, Asked, ReadWell
  <1>10. q.call = "list" /\ q.latest =>
           LatestOne(q, failed, WillAsk, chosen, scope, Right(chosen, scope))
    <2>1. SUFFICES ASSUME b PROVE LatestOne(q, failed, WillAsk, chosen, scope, Right(chosen, scope))
      BY <1>7
    <2>2. LatestOne(net[i], failed, WillAsk, chosen, scope, Right(chosen, scope))
      BY <1>2, <1>5, <2>1, LatestIs
    <2>3. net[i].cluster = chosen /\ net[i].scope = scope => x = Right(chosen, scope)
      BY <1>5, <1>6, <2>1 DEF Right
    <2>4. QED
      BY <1>7, <2>2, <2>3 DEF LatestOne
  <1>11. QED
    BY <1>2, <1>7, <1>8, <1>9, <1>10, ServedStep

(* A text put into the object that was read.                               *)
LEMMA MergedIs ==
  ASSUME NEW x \in Objects, NEW t \in (Clusters \cup {NoCluster}) \X Nat
  PROVE  /\ [x EXCEPT !.text = t] \in Objects
         /\ [x EXCEPT !.text = t].cluster = x.cluster /\ [x EXCEPT !.text = t].uid = x.uid
         /\ [x EXCEPT !.text = t].there = x.there /\ [x EXCEPT !.text = t].rev = x.rev
         /\ [x EXCEPT !.text = t].rest = x.rest /\ [x EXCEPT !.text = t].text = t
  BY DEF Objects

(* An object is answered, with the text in it where texts are merged.      *)
LEMMA ServeGetKeeps == ASSUME KubeInv, NEW i \in DOMAIN net, ServeGet(i) PROVE KubeInv'
  <1> DEFINE o == Seen(net[i], "get")
             t == IF Pages[kind].spec THEN net[i].obj.text ELSE o.text
             x == IF net[i].call # "reread" THEN o ELSE [o EXCEPT !.text = t]
             q == [net[i] EXCEPT !.at = "served", !.obj = x]
  <1>1. /\ net[i] \in Requests /\ AskTyped(net[i], DOMAIN made) /\ net \in Seq(Requests)
        /\ Asked(objects, kind, strayed, net[i])
    BY TakenIs DEF NetTyped
  <1>2. /\ net[i].call \in Gets /\ net[i].at = "sent" /\ net[i].cluster \in Clusters
        /\ UNCHANGED <<kind, load, world, page, acts, history>>
    BY <1>1 DEF ServeGet, Sent, AskTyped, Gets
  <1>3. o.there /\ net' = [net EXCEPT ![i] = q]
    BY <1>1 DEF ServeGet
  <1>4. /\ o \in Objects /\ InCluster(net[i].cluster, o) /\ NoLater(objects, o)
        /\ OwnText(kind, strayed, o) /\ o.rev >= 1
    BY <1>2, SeenIs DEF ReadWell
  <1>5. net[i].obj \in Objects
    BY <1>1 DEF Requests
  <1>6. t \in (Clusters \cup {NoCluster}) \X Nat
    BY <1>4, <1>5 DEF Objects
  <1>7. t = net[i].obj.text \/ t = o.text
    OBVIOUS
  <1> HIDE DEF o, t
  <1>8. /\ x \in Objects /\ x.there = o.there /\ x.cluster = o.cluster /\ x.uid = o.uid
        /\ x.rev = o.rev /\ x.rest = o.rest
        /\ x.text = IF net[i].call # "reread" THEN o.text ELSE t
    BY <1>4, <1>6, MergedIs
  <1> HIDE DEF x
  <1>9. NoLater(objects, x) /\ x.rev >= 1 /\ x.there
    BY <1>3, <1>4, <1>8 DEF NoLater
  <1>10. OwnText(kind, strayed, x)
    <2>1. CASE x.text = o.text
      BY <1>4, <1>8, <2>1 DEF OwnText
    <2>2. CASE net[i].call = "reread" /\ x.text = net[i].obj.text
      <3>1. Pages[kind].saves = "merge" /\ (~strayed => net[i].obj.cluster = net[i].cluster)
        BY <1>1, <1>2, <2>2 DEF Asked
      <3>2. ~strayed => net[i].obj.text[1] = net[i].obj.cluster
        BY <1>1 DEF Asked, OwnText
      <3>3. x.cluster = net[i].cluster
        BY <1>3, <1>4, <1>8 DEF InCluster
      <3>4. QED
        BY <2>2, <3>1, <3>2, <3>3 DEF OwnText
    <2>3. QED
      BY <1>7, <1>8, <2>1, <2>2
  <1>11. /\ q \in Requests /\ q.at = "served" /\ q.call = net[i].call /\ q.cluster = net[i].cluster
         /\ q.obj = x
    BY <1>1, <1>8 DEF Requests
  <1> HIDE DEF q
  <1>12. Moved(net', net, i, {q})
    BY <1>1, <1>3, <1>11, AlikeIsLike, ChangedMoved
  <1>13. AskTyped(q, DOMAIN made) /\ Asked(objects, kind, strayed, q)
    <2>1. AskTyped(q, DOMAIN made)
      BY <1>2, <1>11 DEF AskTyped, Gets
    <2>2. Asked(objects, kind, strayed, q)
      BY <1>1, <1>2, <1>9, <1>10, <1>11 DEF Asked, Gets
    <2>3. QED
      BY <2>1, <2>2
  <1>14. QED
    BY <1>2, <1>11, <1>12, <1>13, ServedStep DEF Gets

(* What the API server has taken is later, and its own.                    *)
LEMMA AfterIs ==
  ASSUME KubeInv, NEW i \in DOMAIN net, net[i].call \in Changes,
         Accepts(net[i], objects[net[i].cluster])
  PROVE  LET c == net[i].cluster
             y == After(net[i], objects[c])
         IN /\ c \in Clusters /\ y \in Objects
            /\ Later(y, objects[c]) /\ InCluster(c, y) /\ (y.cluster = c => y.uid >= 1)
            /\ OwnText(kind, strayed, y)
            /\ net[i].call = "update" /\ Pages[kind].saves # "blind" =>
                 y.rest = objects[c].rest /\ objects[c].there
            /\ net[i].call = "create" => ~objects[c].there
            /\ net[i].call = "delete" => ~y.there
  <1> DEFINE q == net[i]
             c == q.cluster
             o == objects[c]
             y == After(q, o)
  <1>1. /\ q \in Requests /\ AskTyped(q, DOMAIN made) /\ Asked(objects, kind, strayed, q)
    BY TakenIs
  <1>2. c \in Clusters
    BY <1>1 DEF AskTyped, Changes
  <1>3. /\ o \in Objects /\ InCluster(c, o) /\ OwnText(kind, strayed, o)
        /\ (o.cluster = c => o.uid >= 1)
    BY <1>2 DEF KubeInv, TypeOK, WorldIsWell
  <1>4. o.uid \in Nat /\ o.rev \in Nat /\ o.rest \in Nat /\ q.obj \in Objects
    BY <1>1, <1>3 DEF Objects, Requests
  <1>5. Accepts(q, o) /\ q.call \in Changes
    OBVIOUS
  <1>6. CASE q.call = "create"
    <2>1. y = Object(c, o.uid + 1) /\ ~o.there
      BY <1>5, <1>6 DEF After, Accepts
    <2>2. /\ y \in Objects /\ y.cluster = c /\ y.uid = o.uid + 1 /\ y.rev = 1
          /\ y.text = <<c, o.uid + 1>>
      <3>1. c \in Clusters \cup {NoCluster} /\ o.uid + 1 \in Nat
        BY <1>2, <1>4
      <3> HIDE DEF y, c, o
      <3>2. QED
        BY <2>1, <3>1, ObjectIs
    <2> HIDE DEF y
    <2>3. Later(y, o) /\ InCluster(c, y) /\ y.uid >= 1 /\ OwnText(kind, strayed, y)
      BY <1>4, <2>2 DEF Later, InCluster, OwnText
    <2>4. QED
      BY <1>2, <1>6, <2>1, <2>2, <2>3 DEF y
  <1>7. CASE q.call = "delete"
    <2>1. y = [o EXCEPT !.there = FALSE]
      BY <1>7 DEF After
    <2>2. /\ y \in Objects /\ y.cluster = o.cluster /\ y.uid = o.uid /\ y.rev = o.rev
          /\ y.rest = o.rest /\ y.text = o.text /\ ~y.there
      BY <1>3, <2>1 DEF Objects
    <2> HIDE DEF y
    <2>3. Later(y, o) /\ InCluster(c, y) /\ (y.cluster = c => y.uid >= 1) /\ OwnText(kind, strayed, y)
      BY <1>3, <1>4, <2>2 DEF Later, InCluster, OwnText
    <2>4. QED
      BY <1>2, <1>7, <2>2, <2>3 DEF y
  <1>8. CASE q.call = "update"
    <2>1. /\ y = [o EXCEPT !.rev = @ + 1, !.text = q.obj.text, !.rest = q.obj.rest]
          /\ o.there /\ (q.obj.uid = 0 \/ <<q.obj.cluster, q.obj.uid>> = <<o.cluster, o.uid>>)
          /\ q.obj.rev \in {0, o.rev}
      BY <1>5, <1>8 DEF After, Accepts
    <2>2. /\ y \in Objects /\ y.cluster = o.cluster /\ y.uid = o.uid /\ y.rev = o.rev + 1
          /\ y.rest = q.obj.rest /\ y.text = q.obj.text /\ y.there = o.there
      <3> DEFINE v == o.rev + 1
      <3>1. v \in Nat /\ q.obj.text \in (Clusters \cup {NoCluster}) \X Nat /\ q.obj.rest \in Nat
        BY <1>4 DEF Objects
      <3>2. y = [o EXCEPT !.rev = v, !.text = q.obj.text, !.rest = q.obj.rest]
        BY <2>1
      <3> HIDE DEF v, y, o, q
      <3>3. /\ y \in Objects /\ y.cluster = o.cluster /\ y.uid = o.uid /\ y.rev = v
            /\ y.rest = q.obj.rest /\ y.text = q.obj.text /\ y.there = o.there
        BY <1>3, <3>1, <3>2 DEF Objects
      <3>4. QED
        BY <3>3 DEF v
    <2> HIDE DEF y
    <2>3. q.obj.there /\ NoLater(objects, q.obj) /\ OwnText(kind, strayed, q.obj)
      BY <1>1, <1>8 DEF Asked
    <2>4. q.obj.cluster \in Clusters /\ q.obj.uid >= 1
      BY <2>3 DEF NoLater
    <2>5. q.obj.cluster = o.cluster /\ q.obj.uid = o.uid /\ o.cluster = c
      BY <1>3, <1>4, <2>1, <2>4 DEF InCluster
    <2>6. Later(y, o) /\ InCluster(c, y) /\ (y.cluster = c => y.uid >= 1)
      BY <1>3, <1>4, <2>2 DEF Later, InCluster
    <2>7. OwnText(kind, strayed, y)
      BY <2>2, <2>3, <2>5 DEF OwnText
    <2>8. ASSUME Pages[kind].saves # "blind" PROVE y.rest = o.rest
      <3>1. q.obj.rev >= 1
        BY <1>1, <2>8 DEF Asked
      <3>2. q.obj.rev = o.rev
        BY <2>1, <3>1
      <3>3. q.obj.rest = o.rest
        BY <2>3, <2>4, <2>5, <3>2 DEF NoLater
      <3>4. QED
        BY <2>2, <3>3
    <2>9. QED
      BY <1>2, <1>8, <2>1, <2>2, <2>6, <2>7, <2>8 DEF y
  <1>9. QED
    BY <1>5, <1>6, <1>7, <1>8 DEF Changes

(* The API server takes a change; its answer leads to a new list.          *)
LEMMA ServeChangeKeeps == ASSUME KubeInv, NEW i \in DOMAIN net, ServeChange(i) PROVE KubeInv'
  <1> DEFINE c == net[i].cluster
             y == After(net[i], objects[c])
  <1>1. /\ net[i].call \in Changes /\ net[i].at = "sent" /\ Accepts(net[i], objects[c])
        /\ objects' = [objects EXCEPT ![c] = y]
        /\ UNCHANGED <<kind, load, cached, made, chosen, memory, scope, shown, box, editor, dialog,
                       acts, failed, muddled, strayed, hurried>>
    BY DEF ServeChange, Sent, Changes, page, history
  <1>2. PICK at \in {"served", "failed"} : net' = [Stale(net, c) EXCEPT ![i].at = at]
    BY DEF ServeChange, Serves
  <1>3. /\ c \in Clusters /\ y \in Objects
        /\ Later(y, objects[c]) /\ InCluster(c, y) /\ (y.cluster = c => y.uid >= 1)
        /\ OwnText(kind, strayed, y)
    BY <1>1, AfterIs
  <1> HIDE DEF y
  <1>4. /\ net[i] \in Requests /\ AskTyped(net[i], DOMAIN made) /\ net \in Seq(Requests)
        /\ Asked(objects, kind, strayed, net[i]) /\ TypeOK /\ NetTyped /\ RestTyped
        /\ chosen \in Clusters
    BY <1>1, TakenIs DEF NetTyped, Changes
  <1>5. /\ \A x \in Objects : NoLater(objects, x) => NoLater(objects', x)
        /\ WorldIsWell' /\ objects' \in [Clusters -> Objects]
    BY <1>1, <1>3, <1>4, ObjectsGrow DEF KubeInv
  <1> DEFINE q == [net[i] EXCEPT !.at = at]
             m == Stale(net, c)
  <1>6. /\ m \in Seq(Requests) /\ DOMAIN m = DOMAIN net /\ \A j \in DOMAIN net : Like(m[j], net[j])
        /\ m[i] = net[i]
    BY <1>1, <1>4, StaleMoved DEF Changes
  <1> HIDE DEF c, m
  <1>7. net' = [m EXCEPT ![i] = q]
    BY <1>2, <1>6 DEF m
  <1>8. /\ q \in Requests /\ q.at # "sent" /\ q.call = net[i].call /\ q.cluster = net[i].cluster
        /\ q.obj = net[i].obj
    BY <1>4, ServedIs
  <1> HIDE DEF q
  <1>9. Moved(net', net, i, {q})
    BY <1>4, <1>6, <1>7, <1>8, ChangedMoved
  <1>10. AskTyped(q, DOMAIN made) /\ Asked(objects', kind, strayed, q) /\ q.call \in Changes
    <2>1. q.obj \in Objects
      BY <1>8 DEF Requests
    <2>2. QED
      BY <1>1, <1>4, <1>5, <1>8, <2>1 DEF AskTyped, Asked, Changes
  <1>11. RestTyped'
    BY <1>1, <1>4, <1>5 DEF RestTyped
  <1>12. NetTyped'
    BY <1>1, <1>4, <1>9, <1>10, NetStaysTyped
  <1>13. TypeOK' /\ NothingYet'
    BY <1>1, <1>4, <1>11, <1>12, TypeIsThen, ChosenAtLast
  <1>14. PageIsWell' /\ EditorIsWell'
    BY <1>1, <1>4, <1>5, EditorStays, PageStaysWell DEF KubeInv
  <1>15. NetIsWell'
    BY <1>1, <1>4, <1>5, <1>9, <1>10, NetStaysWell DEF KubeInv
  <1>16. ShownOrAwaited' /\ LatestIsRight'
    BY <1>4, <1>9, <1>10, ListWillCome
  <1>17. MigrationIsOffered' /\ OneMigration'
    <2>1. ~Migrates(net[i]) /\ ~Migrates(q)
      BY <1>1, <1>10 DEF Migrates, Changes
    <2>2. QED
      BY <1>1, <1>9, <2>1, MigrationStays DEF KubeInv
  <1>18. QED
    BY <1>5, <1>13, <1>14, <1>15, <1>16, <1>17 DEF KubeInv

(* The same, of objects that have grown.                                   *)
LEMMA GrownNetStaysWell ==
  ASSUME NetTyped, NetIsWell, Moved(net', net, 0, {}), UNCHANGED <<kind, strayed>>,
         \A x \in Objects : NoLater(objects, x) => NoLater(objects', x)
  PROVE  NetIsWell'
  BY NetStaysWell

(* Other hands change the object in one cluster.                           *)
LEMMA OthersStep ==
  ASSUME KubeInv, NEW c \in Clusters, NEW y \in Objects, objects' = [objects EXCEPT ![c] = y],
         Later(y, objects[c]), InCluster(c, y), y.cluster = c => y.uid >= 1,
         OwnText(kind, strayed, y), net' = Stale(net, c), muddled' = TRUE, acts' \in 0..MaxActs,
         UNCHANGED <<kind, load, cached, made, page, failed, strayed, hurried>>
  PROVE  KubeInv'
  <1> USE DEF page
  <1>1. TypeOK /\ NetTyped /\ RestTyped /\ net \in Seq(Requests)
    BY TypeIs DEF KubeInv, NetTyped
  <1>2. /\ \A x \in Objects : NoLater(objects, x) => NoLater(objects', x)
        /\ WorldIsWell' /\ objects' \in [Clusters -> Objects]
    BY <1>1, ObjectsGrow DEF KubeInv
  <1>3. /\ Moved(net', net, 0, {}) /\ DOMAIN net' = DOMAIN net
        /\ \A j \in DOMAIN net :
             /\ Like(net'[j], net[j])
             /\ net[j].call = "list" /\ net[j].cluster = c /\ net[j].at = "served" => ~net'[j].latest
    BY <1>1, StaleMoved
  <1>4. 0 \notin DOMAIN net
    BY <1>1
  <1>5. RestTyped'
    BY <1>1, <1>2 DEF RestTyped
  <1>6. NetTyped'
    BY <1>1, <1>3, NetStaysTyped
  <1>7. TypeOK' /\ NothingYet'
    BY <1>3, <1>5, <1>6, TypeIsThen, NothingStays DEF KubeInv
  <1>8. PageIsWell' /\ EditorIsWell'
    BY <1>1, <1>2, EditorStays, PageStaysWell DEF KubeInv
  <1>9. NetIsWell'
    BY <1>1, <1>2, <1>3, GrownNetStaysWell DEF KubeInv
  <1>10. ShownOrAwaited'
    BY DEF ShownOrAwaited
  <1>11. LatestIsRight'
    <2>1. WillAsk => WillAsk'
      BY <1>3, <1>4, WillAskStays
    <2>2. ASSUME NEW j \in DOMAIN net', net'[j].call = "list", net'[j].latest
          PROVE  LatestOne(net'[j], failed', WillAsk', chosen', scope', Right(chosen, scope)')
      <3>1. LatestOne(net[j], failed, WillAsk, chosen, scope, Right(chosen, scope))
        BY <1>3, <2>2, LatestIs DEF Like
      <3>2. /\ net[j].cluster \in Clusters /\ net'[j].cluster = net[j].cluster
            /\ net'[j].scope = net[j].scope /\ net'[j].at = net[j].at /\ net'[j].obj = net[j].obj
            /\ net[j].call = "list"
        BY <1>1, <1>3, <2>2 DEF Like, NetTyped, AskTyped
      <3>3. CASE failed \/ WillAsk
        BY <2>1, <3>3 DEF LatestOne
      <3>4. CASE net[j].cluster = chosen /\ net[j].at # "served"
        BY <3>1, <3>2, <3>4, <2>1 DEF LatestOne
      <3>5. CASE net[j].cluster = chosen /\ net[j].at = "served"
        <4>1. chosen # c
          BY <1>3, <2>2, <3>2, <3>5
        <4>2. objects'[chosen] = objects[chosen]
          BY <1>1, <3>2, <3>5, <4>1 DEF TypeOK
        <4>3. Right(chosen, scope)' = Right(chosen, scope)
          BY <4>2 DEF Right
        <4>4. QED
          BY <2>1, <3>1, <3>2, <4>3 DEF LatestOne
      <3>6. QED
        BY <3>1, <3>3, <3>4, <3>5 DEF LatestOne
    <2>3. QED
      BY <2>2 DEF LatestIsRight, LatestOne
  <1>12. MigrationIsOffered' /\ OneMigration'
    BY <1>3, <1>4, MigrationStays DEF KubeInv
  <1>13. QED
    BY <1>2, <1>7, <1>8, <1>9, <1>10, <1>11, <1>12 DEF KubeInv

(* The object in a cluster.                                                *)
LEMMA ObjectInCluster ==
  ASSUME KubeInv, NEW c \in Clusters
  PROVE  /\ objects[c] \in Objects /\ InCluster(c, objects[c]) /\ OwnText(kind, strayed, objects[c])
         /\ (objects[c].cluster = c => objects[c].uid >= 1)
         /\ objects[c].uid \in Nat /\ objects[c].rev \in Nat /\ objects[c].rest \in Nat
  <1>1. objects[c] \in Objects
    BY DEF KubeInv, TypeOK
  <1>2. QED
    BY <1>1 DEF KubeInv, WorldIsWell, Objects

(* Other hands change or create the object.                                *)
LEMMA OthersKeep == ASSUME KubeInv, NEW c \in Clusters, Others(c) PROVE KubeInv'
  <1> DEFINE o == objects[c]
             rev == o.rev + 1
             rest == o.rest + 1
             y == IF o.there THEN [o EXCEPT !.rest = rest, !.rev = rev] ELSE Object(c, o.uid + 1)
  <1>1. /\ o \in Objects /\ InCluster(c, o) /\ OwnText(kind, strayed, o) /\ (o.cluster = c => o.uid >= 1)
        /\ o.uid \in Nat /\ o.rev \in Nat /\ o.rest \in Nat
    BY ObjectInCluster
  <1>2. objects' = [objects EXCEPT ![c] = y]
    BY DEF Others
  <1>3. /\ net' = Stale(net, c) /\ muddled' = TRUE
        /\ UNCHANGED <<kind, load, cached, made, page, failed, strayed, hurried>>
    BY DEF Others
  <1>4. acts' \in 0..MaxActs
    BY Acted DEF Others, KubeInv
  <1>5. /\ y \in Objects /\ Later(y, o) /\ InCluster(c, y) /\ (y.cluster = c => y.uid >= 1)
        /\ OwnText(kind, strayed, y)
    <2>1. CASE o.there
      <3>1. rev \in Nat /\ rest \in Nat /\ rev > o.rev
        BY <1>1
      <3> HIDE DEF rev, rest, o
      <3>2. /\ y \in Objects /\ y.cluster = o.cluster /\ y.uid = o.uid /\ y.rev = rev
            /\ y.text = o.text /\ y.there = o.there
        BY <1>1, <2>1, <3>1 DEF Objects
      <3> HIDE DEF y
      <3>3. QED
        BY <1>1, <2>1, <3>1, <3>2 DEF Later, InCluster, OwnText
    <2>2. CASE ~o.there
      <3>1. o.uid + 1 \in Nat /\ c \in Clusters \cup {NoCluster} /\ y = Object(c, o.uid + 1)
        BY <1>1, <2>2
      <3> HIDE DEF y, o
      <3>2. /\ y \in Objects /\ y.cluster = c /\ y.uid = o.uid + 1 /\ y.rev = 1
            /\ y.text = <<c, o.uid + 1>>
        BY <3>1, ObjectIs
      <3>3. QED
        BY <1>1, <3>2 DEF Later, InCluster, OwnText
    <2>3. QED
      BY <2>1, <2>2
  <1> HIDE DEF y
  <1>6. QED
    BY <1>2, <1>3, <1>4, <1>5, OthersStep

(* Other hands delete the object.                                          *)
LEMMA OthersDeleteKeeps == ASSUME KubeInv, NEW c \in Clusters, OthersDelete(c) PROVE KubeInv'
  <1> DEFINE o == objects[c]
             y == [o EXCEPT !.there = FALSE]
  <1>1. /\ o \in Objects /\ InCluster(c, o) /\ OwnText(kind, strayed, o) /\ (o.cluster = c => o.uid >= 1)
        /\ o.uid \in Nat /\ o.rev \in Nat /\ o.rest \in Nat
    BY ObjectInCluster
  <1>2. /\ objects' = [objects EXCEPT ![c] = y] /\ net' = Stale(net, c) /\ muddled' = TRUE
        /\ UNCHANGED <<kind, load, cached, made, page, failed, strayed, hurried>>
    BY DEF OthersDelete
  <1>3. acts' \in 0..MaxActs
    BY Acted DEF OthersDelete, KubeInv
  <1>4. /\ y \in Objects /\ y.cluster = o.cluster /\ y.uid = o.uid /\ y.rev = o.rev
        /\ y.rest = o.rest /\ y.text = o.text /\ ~y.there
    BY <1>1 DEF Objects
  <1> HIDE DEF y
  <1>5. Later(y, o) /\ InCluster(c, y) /\ (y.cluster = c => y.uid >= 1) /\ OwnText(kind, strayed, y)
    BY <1>1, <1>4 DEF Later, InCluster, OwnText
  <1>6. QED
    BY <1>2, <1>3, <1>4, <1>5, OthersStep

(* The cache catches up.                                                   *)
LEMMA SyncKeeps == ASSUME KubeInv, NEW c \in Clusters, Sync(c) PROVE KubeInv'
  <1>1. /\ cached' = [cached EXCEPT ![c] = objects[c]]
        /\ UNCHANGED <<kind, load, objects, made, page, net, acts, history>>
    BY DEF Sync
  <1> USE DEF page, history
  <1>2. /\ cached \in [Clusters -> Objects] /\ objects[c] \in Objects
        /\ TypeOK
    BY ObjectInCluster DEF KubeInv, TypeOK
  <1>3. /\ cached' \in [Clusters -> Objects] /\ cached'[c] = objects[c]
        /\ \A d \in Clusters \ {c} : cached'[d] = cached[d]
    BY <1>1, <1>2
  <1>4. TypeOK'
    BY <1>1, <1>2, <1>3 DEF TypeOK
  <1>5. NoLater(objects, objects[c])
    BY ObjectInCluster, KubeAssumption DEF NoLater, InCluster
  <1>6. WorldIsWell'
    <2>1. ASSUME NEW d \in Clusters
          PROVE  /\ InCluster(d, objects[d]) /\ InCluster(d, cached'[d])
                 /\ (objects[d].cluster = d => objects[d].uid >= 1)
                 /\ NoLater(objects, cached'[d])
                 /\ OwnText(kind, strayed, objects[d]) /\ OwnText(kind, strayed, cached'[d])
      BY <1>3, <1>5 DEF KubeInv, WorldIsWell
    <2>2. QED
      BY <1>1, <2>1 DEF WorldIsWell
  <1>7. NothingYet' /\ EditorIsWell' /\ PageIsWell' /\ NetIsWell'
    BY <1>1 DEF KubeInv, NothingYet, EditorIsWell, PageIsWell, NetIsWell
  <1>8. ShownOrAwaited' /\ LatestIsRight'
    BY <1>1 DEF KubeInv, ShownOrAwaited, LatestIsRight, WillAsk, Right
  <1>9. MigrationIsOffered' /\ OneMigration'
    BY <1>1 DEF KubeInv, MigrationIsOffered, OneMigration
  <1>10. QED
    BY <1>4, <1>6, <1>7, <1>8, <1>9 DEF KubeInv

(* The list is shown; the latest one is as the cluster is.                 *)
LEMMA ListAnsweredKeeps ==
  ASSUME KubeInv, NEW i \in DOMAIN net, ListAnswered(i)
  PROVE  KubeInv'
  <1>1. /\ net[i].call = "list" /\ net[i].at = "served"
        /\ shown' = {net[i].obj} \ {Nothing} /\ muddled' = ~net[i].latest /\ net' = Rest(i)
        /\ UNCHANGED <<kind, load, objects, cached, made, chosen, memory, scope, box, editor, dialog,
                       acts, failed, strayed, hurried>>
    BY DEF ListAnswered, Answers, world
  <1>2. /\ TypeOK /\ NetTyped /\ RestTyped /\ chosen \in Clusters /\ Moved(net', net, i, {})
        /\ net[i] \in Requests /\ Asked(objects, kind, strayed, net[i])
    BY <1>1, TakenIs
  <1>3. /\ net[i].obj \in Objects /\ ReadWell(objects, kind, strayed, net[i].obj)
        /\ net[i].latest \in BOOLEAN
    BY <1>1, <1>2 DEF Requests, Asked, ReadWell
  <1>4. RestTyped'
    BY <1>1, <1>2, <1>3 DEF RestTyped
  <1>5. NetTyped'
    BY <1>1, <1>2, NetStaysTyped
  <1>6. TypeOK' /\ NothingYet'
    BY <1>1, <1>2, <1>4, <1>5, TypeIsThen, ChosenAtLast
  <1>7. WorldIsWell' /\ EditorIsWell'
    BY <1>1, WorldStaysWell DEF KubeInv, EditorIsWell
  <1>8. PageIsWell'
    BY <1>1, <1>3 DEF KubeInv, PageIsWell
  <1>9. NetIsWell'
    BY <1>1, <1>2, NetStaysWell DEF KubeInv
  <1>10. WillAsk => WillAsk'
    BY <1>1, <1>2, WillAskStays DEF Changes
  <1>11. ShownOrAwaited'
    <2>1. SUFFICES ASSUME net[i].latest PROVE ShownOrAwaited'
      BY <1>1 DEF ShownOrAwaited
    <2>2. LatestOne(net[i], failed, WillAsk, chosen, scope, Right(chosen, scope))
      BY <1>1, <2>1, LatestIs
    <2>3. CASE failed \/ WillAsk
      BY <1>1, <1>10, <2>3 DEF ShownOrAwaited
    <2>4. CASE net[i].obj = Right(chosen, scope)
      <3>1. chosen' # NoCluster
        BY <1>1, <1>2, KubeAssumption
      <3>2. QED
        BY <1>1, <2>4, <3>1 DEF ShownOrAwaited, Right
    <2>5. QED
      BY <1>1, <2>2, <2>3, <2>4 DEF LatestOne
  <1>12. LatestIsRight'
    <2>1. ASSUME NEW j \in DOMAIN net', net'[j].call = "list", net'[j].latest
          PROVE  LatestOne(net'[j], failed', WillAsk', chosen', scope', Right(chosen, scope)')
      <3>1. PICK k \in DOMAIN net \ {i} : Like(net'[j], net[k])
        BY <1>2 DEF Moved
      <3>2. LatestOne(net[k], failed, WillAsk, chosen, scope, Right(chosen, scope))
        BY <2>1, <3>1, LatestIs DEF Like
      <3>3. Right(chosen, scope)' = Right(chosen, scope)
        BY <1>1 DEF Right
      <3>4. QED
        BY <1>1, <1>10, <3>1, <3>2, <3>3 DEF Like, LatestOne
    <2>2. QED
      BY <2>1 DEF LatestIsRight, LatestOne
  <1>13. MigrationIsOffered' /\ OneMigration'
    <2>1. ~Migrates(net[i])
      BY <1>1 DEF Migrates
    <2>2. QED
      BY <1>1, <1>2, <2>1, MigrationStays DEF KubeInv
  <1>14. QED
    BY <1>6, <1>7, <1>8, <1>9, <1>11, <1>12, <1>13 DEF KubeInv

(* A request has failed.                                                   *)
LEMMA FailedKeeps == ASSUME KubeInv, NEW i \in DOMAIN net, Failed(i) PROVE KubeInv'
  <1>1. /\ net[i].at = "failed" /\ net' = Rest(i) /\ failed' = TRUE
        /\ UNCHANGED <<kind, load, objects, cached, made, chosen, memory, scope, shown, box,
                       dialog, acts, muddled, strayed, hurried>>
        /\ editor' = editor \/ editor' = [editor EXCEPT !.busy = FALSE]
    BY DEF Failed, world
  <1>2. TypeOK /\ NetTyped /\ RestTyped /\ Moved(net', net, i, {})
    BY <1>1, TakenIs
  <1>3. editor \in Editors
    BY <1>2 DEF RestTyped
  <1>4. /\ editor' \in Editors /\ editor'.mode = editor.mode /\ editor'.obj = editor.obj
        /\ StaysOrCloses(editor', editor)
    BY <1>1, <1>3 DEF Editors, StaysOrCloses
  <1>5. RestTyped'
    BY <1>1, <1>2, <1>4 DEF RestTyped
  <1>6. NetTyped'
    BY <1>1, <1>2, NetStaysTyped
  <1>7. TypeOK' /\ NothingYet'
    BY <1>1, <1>2, <1>4, <1>5, <1>6, TypeIsThen, NothingStays DEF KubeInv
  <1>8. WorldIsWell' /\ PageIsWell' /\ EditorIsWell'
    BY <1>1, <1>2, <1>4, WorldStaysWell, PageStaysWell DEF KubeInv
  <1>9. NetIsWell'
    BY <1>1, <1>2, NetStaysWell DEF KubeInv
  <1>10. ShownOrAwaited' /\ LatestIsRight'
    BY <1>1 DEF ShownOrAwaited, LatestIsRight
  <1>11. MigrationIsOffered'
    BY <1>1, <1>2, OfferedStays
  <1>12. OneMigration'
    <2>1. \A j \in DOMAIN net' : \E k \in DOMAIN net : Like(net'[j], net[k])
      BY <1>2 DEF Moved
    <2>2. ASSUME ~hurried'
          PROVE  \A j \in DOMAIN net' : InDialog(net'[j], dialog', made')
      BY <1>1, <2>1, <2>2, MigrationIs DEF InDialog, Like
    <2>3. ASSUME ~hurried' PROVE OneAtATime(net')
      <3>1. ASSUME NEW j \in DOMAIN net', NEW l \in DOMAIN net', Migrates(net'[j]), Migrates(net'[l]),
                   j # l
            PROVE  FALSE
        <4>1. \E k, h \in DOMAIN net \ {i} : k # h /\ Like(net'[j], net[k]) /\ Like(net'[l], net[h])
          BY <1>2, <3>1 DEF Moved
        <4>2. OneAtATime(net)
          BY <1>1, <2>3, MigrationIs
        <4>3. QED
          BY <3>1, <4>1, <4>2 DEF OneAtATime, Migrates, Like
      <3>2. QED
        BY <3>1 DEF OneAtATime
    <2>4. QED
      BY <1>1, <2>2, <2>3, OneMigrationIsThen
  <1>13. QED
    BY <1>7, <1>8, <1>9, <1>10, <1>11, <1>12 DEF KubeInv

(***************************************************************************)
(* The theorems.                                                           *)
(***************************************************************************)
LEMMA InitIsWell == Init => KubeInv
  <1> SUFFICES ASSUME Init PROVE KubeInv
    OBVIOUS
  <1> DEFINE q == Ask("clusters", NoCluster, Nothing)
  <1>1. PICK there \in SUBSET Clusters :
          objects = [c \in Clusters |-> IF c \in there THEN Object(c, 1) ELSE Nothing]
    BY DEF Init
  <1>2. /\ kind \in Kinds /\ load \in Workloads /\ cached = objects /\ chosen = NoCluster
        /\ scope = "all" /\ shown = {} /\ box = Nothing /\ editor = NoEditor /\ dialog = NewDialog
        /\ made = <<>> /\ net = <<q>> /\ acts = 0
        /\ failed = FALSE /\ muddled = FALSE /\ strayed = FALSE /\ hurried = FALSE
    BY DEF Init
  <1>3. memory \in Memory
    BY DEF Init, Memory
  <1>4. ASSUME NEW c \in Clusters
        PROVE  /\ objects[c] \in Objects /\ InCluster(c, objects[c])
               /\ (objects[c].cluster = c => objects[c].uid >= 1)
               /\ NoLater(objects, objects[c])
               /\ OwnText(kind, strayed, objects[c])
    <2>1. CASE c \in there
      <3>1. objects[c] = Object(c, 1) /\ c \in Clusters \cup {NoCluster} /\ 1 \in Nat
        BY <1>1, <2>1
      <3>2. /\ objects[c] \in Objects /\ objects[c].cluster = c /\ objects[c].uid = 1
            /\ objects[c].rev = 1 /\ objects[c].text = <<c, 1>>
        <4>1. /\ Object(c, 1) \in Objects /\ Object(c, 1).cluster = c /\ Object(c, 1).uid = 1
              /\ Object(c, 1).rev = 1 /\ Object(c, 1).text = <<c, 1>>
          <5>1. \A u \in Nat : /\ Object(c, u) \in Objects /\ Object(c, u).cluster = c
                              /\ Object(c, u).uid = u /\ Object(c, u).rev = 1
                              /\ Object(c, u).text = <<c, u>>
            BY <3>1, ObjectIs
          <5>2. QED
            BY <3>1, <5>1
        <4>2. QED
          BY <3>1, <4>1
      <3>3. QED
        BY <3>2 DEF InCluster, NoLater, OwnText
    <2>2. CASE c \notin there
      <3>1. objects[c] = Nothing /\ c # NoCluster
        BY <1>1, <2>2, KubeAssumption
      <3>2. QED
        BY <3>1, NothingIs, KubeAssumption DEF InCluster, NoLater, OwnText
    <2>3. QED
      BY <2>1, <2>2
  <1>5. objects \in [Clusters -> Objects]
    BY <1>1, <1>4
  <1>6. /\ NoEditor \in Editors /\ NoEditor.obj = Nothing /\ NoEditor.mode = "closed"
        /\ NewDialog \in Dialogs /\ NewDialog.obj = Nothing /\ NewDialog.open = FALSE
    BY ClosedIs, NothingIs DEF NewDialog, Dialogs
  <1>7. /\ q \in Requests /\ q.call = "clusters" /\ q.obj = Nothing /\ q.at = "sent"
    <2>1. "clusters" \in Calls
      BY DEF Calls
    <2>2. QED
      BY <1>2, <2>1, NothingIs DEF Ask, Requests
  <1> HIDE DEF q
  <1>8. net \in Seq(Requests) /\ DOMAIN net = {1} /\ net[1] = q
    BY <1>2, <1>7
  <1>9. RestTyped
    <2>1. 0 \in 0..MaxActs
      BY KubeAssumption
    <2>2. made \in Seq(Entries)
      BY <1>2
    <2>3. /\ kind \in Kinds /\ load \in Workloads
          /\ objects \in [Clusters -> Objects] /\ cached \in [Clusters -> Objects]
          /\ chosen \in Clusters \cup {NoCluster} /\ memory \in Memory
          /\ scope \in {"all", "other"} /\ shown \subseteq Objects /\ box \in Objects
          /\ editor \in Editors /\ dialog \in Dialogs /\ acts \in 0..MaxActs
          /\ failed \in BOOLEAN /\ muddled \in BOOLEAN /\ strayed \in BOOLEAN /\ hurried \in BOOLEAN
      BY <1>2, <1>3, <1>5, <1>6, <2>1, NothingIs
    <2>4. QED
      BY <2>2, <2>3 DEF RestTyped, Entries, Memory, Editors, Dialogs
  <1>10. NetTyped
    BY <1>7, <1>8 DEF NetTyped, AskTyped
  <1>11. TypeOK
    BY <1>9, <1>10, TypeIs
  <1>12. NothingYet
    BY <1>2, <1>6, <1>7, <1>8 DEF NothingYet
  <1>13. WorldIsWell
    BY <1>2, <1>4 DEF WorldIsWell
  <1>14. /\ ReadWell(objects, kind, strayed, Nothing)
         /\ NoLater(objects, Nothing) /\ OwnText(kind, strayed, Nothing) /\ Nothing.rev >= 1
    BY NothingIsWell DEF ReadWell
  <1>15. EditorIsWell /\ PageIsWell
    BY <1>2, <1>6, <1>14 DEF EditorIsWell, PageIsWell
  <1>16. NetIsWell
    BY <1>7, <1>8, <1>14 DEF NetIsWell, Asked
  <1>17. ShownOrAwaited
    BY <1>7, <1>8 DEF ShownOrAwaited, WillAsk
  <1>18. LatestIsRight
    BY <1>7, <1>8 DEF LatestIsRight
  <1>19. MigrationIsOffered
    BY <1>2, <1>6, <1>7, <1>8 DEF MigrationIsOffered, Migrates
  <1>20. OneMigration
    BY <1>2, <1>7, <1>8 DEF OneMigration, Migrates
  <1>21. QED
    BY <1>11, <1>12, <1>13, <1>15, <1>16, <1>17, <1>18, <1>19, <1>20 DEF KubeInv

(* Every step keeps the invariant.                                         *)
LEMMA StepKeeps == KubeInv /\ [Next]_vars => KubeInv'
  <1> SUFFICES ASSUME KubeInv, [Next]_vars PROVE KubeInv'
    OBVIOUS
  <1>1. CASE Refresh
    BY <1>1, RefreshKeeps
  <1>2. CASE Confirm
    BY <1>2, ConfirmKeeps
  <1>3. CASE Decline
    BY <1>3, DeclineKeeps
  <1>4. CASE Create
    BY <1>4, CreateKeeps
  <1>5. CASE CloseEditor
    BY <1>5, CloseEditorKeeps
  <1>6. CASE SubmitCreate
    BY <1>6, SubmitCreateKeeps
  <1>7. CASE Save
    BY <1>7, SaveKeeps
  <1>8. CASE CloseDialog
    BY <1>8, CloseDialogKeeps
  <1>9. CASE SubmitMigration
    BY <1>9, SubmitMigrationKeeps
  <1>10. ASSUME NEW c \in Clusters, Switch(c) \/ Others(c) \/ OthersDelete(c) \/ Sync(c)
         PROVE  KubeInv'
    BY <1>10, SwitchKeeps, OthersKeep, OthersDeleteKeeps, SyncKeeps
  <1>11. ASSUME NEW s \in {"all", "other"}, Scope(s)
         PROVE  KubeInv'
    BY <1>11, ScopeKeeps
  <1>12. ASSUME NEW r \in shown, AskDelete(r) \/ Edit(r) \/ Migrate(r)
         PROVE  KubeInv'
    BY <1>12, AskDeleteKeeps, EditKeeps, MigrateKeeps
  <1>13. ASSUME NEW i \in DOMAIN net,
                \/ ServeChange(i) \/ ServeList(i) \/ ServeGet(i) \/ ServeNames(i)
                \/ ServeResource(i) \/ ServeTemplate(i) \/ Refuse(i)
         PROVE  KubeInv'
    BY <1>13, ServeChangeKeeps, ServeListKeeps, ServeGetKeeps, ServeNamesKeeps,
       ServeResourceKeeps, ServeTemplateKeeps, RefuseKeeps
  <1>14. ASSUME NEW i \in DOMAIN net,
                \/ ClustersAnswered(i) \/ NamesAnswered(i) \/ ListAnswered(i)
                \/ ReadAnswered(i) \/ RereadAnswered(i) \/ ChangeAnswered(i)
                \/ CopyAnswered(i) \/ ResourceAnswered(i) \/ TemplateAnswered(i) \/ Failed(i)
         PROVE  KubeInv'
    BY <1>14, ClustersAnsweredKeeps, NamesAnsweredKeeps, ListAnsweredKeeps, ReadAnsweredKeeps,
       RereadAnsweredKeeps, ChangeAnsweredKeeps, CopyAnsweredKeeps, ResourceAnsweredKeeps,
       TemplateAnsweredKeeps, FailedKeeps
  <1>15. CASE UNCHANGED vars
    <2>1. /\ acts' = acts /\ memory' = memory
          /\ UNCHANGED <<kind, load, world, chosen, scope, shown, box, editor, dialog, net, history>>
      BY <1>15 DEF vars, world, history
    <2>2. acts \in 0..MaxActs /\ memory \in Memory
      BY DEF KubeInv, TypeOK, Memory
    <2>3. QED
      BY <2>1, <2>2, IdleStep
  <1>16. QED
    BY <1>1, <1>2, <1>3, <1>4, <1>5, <1>6, <1>7, <1>8, <1>9, <1>10, <1>11, <1>12, <1>13, <1>14,
       <1>15 DEF Next

(* The inductive invariant holds in every state of every behaviour.        *)
THEOREM KubeInvariant == Spec => []KubeInv
  BY InitIsWell, StepKeeps, PTL DEF Spec

(* Every variable has its type; what concerns an object in a cluster is    *)
(* asked of a cluster, and a template is for a resource that was made      *)
(* (retrieveResource is not called before a cluster is chosen).            *)
THEOREM KubeTyped == Spec => []TypeOK
  <1>1. KubeInv => TypeOK
    BY DEF KubeInv
  <1>2. QED
    BY <1>1, KubeInvariant, PTL

(* When every answer has come and none was an error, the page lists the    *)
(* object of the cluster that is chosen, unless an overtaken list came     *)
(* last, the cache was behind, or other hands have changed the cluster     *)
(* (jumpToHref, retrieveResource and the refresh after each change).       *)
THEOREM KubeListIsTrue == Spec => []ShownIsOfCluster
  <1>1. KubeInv => ShownIsOfCluster
    <2> SUFFICES ASSUME KubeInv, net = <<>>, ~failed, ~muddled
                 PROVE  shown = IF objects[chosen].there /\ scope = "all" THEN {objects[chosen]} ELSE {}
      BY DEF ShownIsOfCluster
    <2>1. DOMAIN net = {}
      OBVIOUS
    <2>2. chosen # NoCluster /\ shown = {Right(chosen, scope)} \ {Nothing}
      BY <2>1 DEF KubeInv, ShownOrAwaited, WillAsk
    <2>3. objects[chosen].there => objects[chosen] # Nothing
      BY NothingIs
    <2>4. QED
      BY <2>2, <2>3 DEF Right
  <1>2. QED
    BY <1>1, KubeInvariant, PTL

(* The text of an object was never written for another, but for what is    *)
(* said of merged texts: uid and resourceVersion keep a text from the      *)
(* object of another cluster or incarnation (onSaveResourceEvent).         *)
THEOREM KubeTextIsItsOwn == Spec => []TextIsItsOwn
  <1>1. KubeInv => TextIsItsOwn
    <2> SUFFICES ASSUME KubeInv, NEW c \in Clusters, objects[c].there
                 PROVE  /\ (Pages[kind].saves = "merge" /\ strayed) \/ objects[c].text[1] = c
                        /\ Pages[kind].saves # "merge" => objects[c].text = <<c, objects[c].uid>>
      BY DEF TextIsItsOwn
    <2>1. objects[c].cluster = c /\ OwnText(kind, strayed, objects[c])
      BY ObjectInCluster DEF InCluster
    <2>2. QED
      BY <2>1 DEF OwnText
  <1>2. QED
    BY <1>1, KubeInvariant, PTL

(* The templates change when the server takes one, or a resource.          *)
LEMMA TemplatesChange ==
  ASSUME [Next]_vars
  PROVE  \/ made' = made /\ (hurried => hurried')
         \/ \E i \in DOMAIN net : ServeResource(i) \/ ServeTemplate(i)
  BY DEF Next, vars, world, history, Refresh, Confirm, Decline, Create, CloseEditor, SubmitCreate,
     Save, CloseDialog, SubmitMigration, Switch, Others, OthersDelete, Sync, Scope, AskDelete, Edit,
     Migrate, ServeChange, ServeList, ServeGet, ServeNames, Refuse, ClustersAnswered, NamesAnswered,
     ListAnswered, ReadAnswered, RereadAnswered, ChangeAnswered, CopyAnswered, ResourceAnswered,
     TemplateAnswered, Failed

(* No resource has the template of another object, or of more than one.    *)
Own(m) == m.template \in {Nothing, m.resource}
TemplatesAreOwn == ~hurried => \A n \in DOMAIN made : Own(made[n])

(* A template that is taken is of its resource's object.                   *)
LEMMA TemplatesStayOwn ==
  ASSUME KubeInv, TemplatesAreOwn, [Next]_vars
  PROVE  TemplatesAreOwn'
  <1>1. CASE made' = made /\ (hurried => hurried')
    BY <1>1 DEF TemplatesAreOwn
  <1>2. ASSUME NEW i \in DOMAIN net, ServeResource(i)
        PROVE  TemplatesAreOwn'
    <2> DEFINE e == Created(net[i].obj)
    <2>1. made' = Append(made, e) /\ hurried' = hurried
      BY <1>2 DEF ServeResource, history
    <2>2. made \in Seq(Entries) /\ net[i].obj \in Objects
      BY MigrationIs, TakenIs DEF Requests
    <2>3. e \in Entries /\ Own(e)
      BY <2>2, NothingIs DEF Created, Entries, Own
    <2> HIDE DEF e
    <2>4. \A n \in DOMAIN made' : made'[n] = e \/ (n \in DOMAIN made /\ made'[n] = made[n])
      BY <2>1, <2>2, <2>3
    <2>5. QED
      BY <2>1, <2>3, <2>4 DEF TemplatesAreOwn
  <1>3. ASSUME NEW i \in DOMAIN net, ServeTemplate(i), ~hurried'
        PROVE  \A n \in DOMAIN made' : Own(made'[n])
    <2> DEFINE N == net[i].n
    <2>1. net[i].call = "template" /\ hurried' = hurried
      BY <1>3 DEF ServeTemplate, Sent, history
    <2>2. /\ made \in Seq(Entries) /\ N \in DOMAIN made /\ made[N].resource = net[i].obj
          /\ "migrate" \in Rows[kind] /\ kind \in KubeKinds
      BY <1>3, <2>1, MigrationIs, TakenIs, PageIs DEF AskTyped, InDialog, Migrates
    <2>3. made' = [made EXCEPT ![N].template = net[i].obj]
      BY <1>3, <2>2, OwnersAreFound DEF ServeTemplate
    <2>4. made[N] \in Entries
      BY <2>2
    <2> DEFINE e == [made[N] EXCEPT !.template = net[i].obj]
    <2>5. Own(e)
      BY <2>2, <2>4 DEF Entries, Own
    <2>6. made' = [made EXCEPT ![N] = e]
      BY <2>3
    <2> HIDE DEF e, N
    <2>7. \A n \in DOMAIN made' : made'[n] = e \/ (n \in DOMAIN made /\ made'[n] = made[n])
      BY <2>2, <2>6
    <2>8. QED
      BY <1>3, <2>1, <2>5, <2>7 DEF TemplatesAreOwn
  <1>4. QED
    BY <1>1, <1>2, <1>3, TemplatesChange DEF TemplatesAreOwn

(* A resource that a migration has made has no template of another object  *)
(* than that which gave it its name, whatever fails on the way, if the     *)
(* administrator has waited for the answers each time; and it has one when *)
(* they have come and none was an error (the migration dialogs' onSubmit). *)
THEOREM KubeMigrationIsWhole == Spec => []MigrationIsWhole
  <1>1. Init => TemplatesAreOwn
    BY DEF Init, TemplatesAreOwn
  <1>2. KubeInv /\ TemplatesAreOwn /\ [Next]_vars => TemplatesAreOwn'
    BY TemplatesStayOwn
  <1>3. KubeInv /\ TemplatesAreOwn => MigrationIsWhole
    <2> SUFFICES ASSUME KubeInv, TemplatesAreOwn, ~hurried, NEW n \in DOMAIN made
                 PROVE  /\ made[n].template \in {Nothing, made[n].resource}
                        /\ ~Migrating /\ ~failed => made[n].template = made[n].resource
      BY DEF MigrationIsWhole
    <2>1. made[n].template \in {Nothing, made[n].resource}
      BY DEF TemplatesAreOwn, Own
    <2>2. ~Migrating /\ ~failed => made[n].template = made[n].resource
      BY DEF KubeInv, OneMigration, Migrating, Whole
    <2>3. QED
      BY <2>1, <2>2
  <1>4. QED
    BY <1>1, <1>2, <1>3, KubeInvariant, PTL DEF Spec

(* Objects change by other hands, or when the API server takes a change.   *)
LEMMA ObjectsChange ==
  ASSUME [Next]_vars
  PROVE  \/ UNCHANGED objects
         \/ \E c \in Clusters : Others(c) \/ OthersDelete(c)
         \/ \E i \in DOMAIN net : ServeChange(i)
  BY DEF Next, vars, world, Refresh, Confirm, Decline, Create, CloseEditor, SubmitCreate, Save,
     CloseDialog, SubmitMigration, Switch, Sync, Scope, AskDelete, Edit, Migrate, ServeList,
     ServeGet, ServeNames, ServeResource, ServeTemplate, Refuse, ClustersAnswered, NamesAnswered,
     ListAnswered, ReadAnswered, RereadAnswered, ChangeAnswered, CopyAnswered, ResourceAnswered,
     TemplateAnswered, Failed

(* Except where texts are saved blindly, no save undoes what other hands   *)
(* have changed since the object was read, however old the cached copy is  *)
(* (the resourceVersion that onSaveResourceEvent keeps, or drops).         *)
THEOREM KubeOthersAreKept == Spec => OthersAreKept
  <1> DEFINE Kept ==
        \A c \in Clusters :
          /\ Pages[kind].saves # "blind"
          /\ objects[c].there /\ objects'[c].there /\ objects'[c].uid = objects[c].uid
          => objects'[c].rest >= objects[c].rest
  <1>1. ASSUME KubeInv, [Next]_vars
        PROVE  Kept
    <2> SUFFICES ASSUME NEW d \in Clusters, Pages[kind].saves # "blind", objects[d].there,
                        objects'[d].there, objects'[d].uid = objects[d].uid
                 PROVE  objects'[d].rest >= objects[d].rest
      OBVIOUS
    <2>1. /\ objects \in [Clusters -> Objects] /\ objects[d] \in Objects /\ objects[d].rest \in Nat
          /\ objects[d].rev \in Nat
      BY <1>1, ObjectInCluster DEF KubeInv, TypeOK
    <2>2. CASE objects'[d] = objects[d]
      BY <2>1, <2>2
    <2>3. ASSUME NEW c \in Clusters, Others(c) \/ OthersDelete(c), objects'[d] # objects[d]
          PROVE  objects'[d].rest >= objects[d].rest
      <3>1. CASE Others(c)
        <4>1. c = d
          BY <2>1, <2>3, <3>1 DEF Others
        <4>2. objects'[d].rest = objects[d].rest + 1
          BY <2>1, <3>1, <4>1 DEF Others, Objects
        <4>3. QED
          BY <2>1, <4>2
      <3>2. CASE OthersDelete(c)
        <4>1. c = d
          BY <2>1, <2>3, <3>2 DEF OthersDelete
        <4>2. ~objects'[d].there
          BY <2>1, <3>2, <4>1 DEF OthersDelete, Objects
        <4>3. QED
          BY <4>2
      <3>3. QED
        BY <2>3, <3>1, <3>2
    <2>4. ASSUME NEW i \in DOMAIN net, ServeChange(i), objects'[d] # objects[d]
          PROVE  objects'[d].rest >= objects[d].rest
      <3> DEFINE c == net[i].cluster
                 y == After(net[i], objects[c])
      <3>1. /\ net[i].call \in Changes /\ Accepts(net[i], objects[c])
            /\ objects' = [objects EXCEPT ![c] = y]
        BY <2>4 DEF ServeChange, Sent, Changes
      <3>2. /\ c \in Clusters
            /\ net[i].call = "update" /\ Pages[kind].saves # "blind" => y.rest = objects[c].rest
            /\ net[i].call = "create" => ~objects[c].there
            /\ net[i].call = "delete" => ~y.there
        BY <1>1, <3>1, AfterIs
      <3> HIDE DEF y, c
      <3>3. c = d /\ objects'[d] = y
        BY <2>1, <2>4, <3>1, <3>2
      <3>4. y.rest = objects[d].rest
        BY <3>1, <3>2, <3>3 DEF Changes
      <3>5. QED
        BY <2>1, <3>3, <3>4
    <2>5. QED
      BY <1>1, <2>2, <2>3, <2>4, ObjectsChange
  <1> HIDE DEF Kept
  <1>2. [][Kept]_vars <=> OthersAreKept
    BY DEF OthersAreKept, Kept
  <1>3. QED
    BY <1>1, <1>2, KubeInvariant, PTL DEF Spec
===============================================================================
